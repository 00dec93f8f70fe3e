-------------------------- MODULE FatVolumeProofs --------------------------
(***************************************************************************)
(* Proof that the card and the volume stay sound under the calls of        *)
(* FatVolume, for volumes of any size with any tree of directories, any    *)
(* names and paths and any number of calls, whenever a call is left or the *)
(* power goes.                                                             *)
(***************************************************************************)
EXTENDS FatVolumeLemmas

----------------------------------------------------------------------------
(* The end of a rename *)

\* The old name is removed: a file, or a directory that is not above its new place.
LEMMA Moved ==
    ASSUME NEW vol, NEW D, NEW s, NEW at, NEW u, NEW bt, Doubled(vol, D, s, at, u, bt),
           EntryAt(vol, at).dir = EntryAt(vol, bt).dir,
           \A t \in D : \A x \in Live(vol, t) :
               x # at /\ EntryAt(vol, x).dir => BackFrom(vol, t, EntryAt(vol, x).clust),
           NEW U, UpClosed(vol, D, U), u \in U,
           EntryAt(vol, at).dir => EntryAt(vol, at).clust \notin U,
           NEW w, w = WithEntry(vol, at, Deleted)
    PROVE  Single(w, D)
<1>0. Forest(vol, D) /\ s \in D /\ u \in D /\ at \in Live(vol, s) /\ bt \in Live(vol, u) /\ at # bt
      /\ EntryAt(vol, at).clust = EntryAt(vol, bt).clust
  BY DEF Doubled
<1>1. /\ PutIs(vol, w, D, s, at, Deleted)
      /\ \A t \in D : \A x \in Live(w, t) :
                 x # at /\ x \in Live(vol, t) /\ EntryAt(w, x) = EntryAt(vol, x)
      /\ \A t \in D : \A x \in Live(vol, t) :
                 x # at => x \in Live(w, t) /\ EntryAt(w, x) = EntryAt(vol, x)
  <2>1. w = WithEntry(vol, at, Deleted)
    OBVIOUS
  <2> QED BY ONLY <1>0, <2>1, Removed
<1>2. 0 \in D /\ \A t \in D : \A x \in Live(vol, t) :
                    EntryAt(vol, x).dir => EntryAt(vol, x).clust \in D
  BY <1>0 DEF Forest, IsTree
<1>3. \A t \in D : \A x \in Live(w, t) : EntryAt(w, x).dir => EntryAt(w, x).clust \in D
  BY <1>1, <1>2
<1>4. ASSUME NEW Y \in SUBSET D, 0 \in Y,
             \A t \in Y : \A x \in Live(w, t) : EntryAt(w, x).dir => EntryAt(w, x).clust \in Y
      PROVE  Y = D
  <2> SUFFICES \A t \in Y : \A x \in Live(vol, t) : EntryAt(vol, x).dir => EntryAt(vol, x).clust \in Y
    BY <1>0, <1>4 DEF Forest, IsTree
  <2>1. CASE ~EntryAt(vol, at).dir
    BY <1>1, <1>4, <2>1
  <2>2. CASE EntryAt(vol, at).dir
    <3> DEFINE Z == {x \in D : x \in Y \/ x \notin U}
    <3>1. ASSUME NEW t \in Z, NEW x \in Live(vol, t), EntryAt(vol, x).dir
          PROVE  EntryAt(vol, x).clust \in Z
      <4>1. t \in D /\ EntryAt(vol, x).clust \in D
        BY <1>2, <3>1
      <4>2. CASE EntryAt(vol, x).clust \in U
        <5>1. t \in U /\ t \in Y
          BY <3>1, <4>1, <4>2 DEF UpClosed
        <5>2. x # at
          BY <2>2, <4>2
        <5>3. x \in Live(w, t) /\ EntryAt(w, x) = EntryAt(vol, x)
          BY <1>1, <4>1, <5>2
        <5> QED BY <1>4, <3>1, <4>1, <5>1, <5>3
      <4> QED BY <4>1, <4>2
    <3>2. Z \in SUBSET D /\ 0 \in Z
      BY <1>2, <1>4
    <3>3. Z = D
      <4> HIDE DEF Z
      <4> QED BY <1>0, <3>1, <3>2 DEF Forest, IsTree
    <3>4. u \in Y
      BY <1>0, <3>3
    <3>5. bt \in Live(w, u) /\ EntryAt(w, bt) = EntryAt(vol, bt)
      BY <1>0, <1>1
    <3>6. EntryAt(vol, at).clust \in Y
      BY <1>0, <1>4, <2>2, <3>4, <3>5
    <3> QED BY <1>1, <1>4, <3>6
  <2> QED BY <2>1, <2>2
<1>5. Forest(w, D)
  <2>1. w = WithEntry(vol, at, Deleted) /\ D \in SUBSET D
    OBVIOUS
  <2> QED BY ONLY <1>0, <1>2, <1>3, <1>4, <2>1, RemovedTree
<1>6. NamedOnce(w, D)
  BY <1>1 DEF NamedOnce, Doubled
<1>7. AllBack(w, D)
  <2> SUFFICES ASSUME NEW t \in D, NEW x \in Live(w, t), EntryAt(w, x).dir
               PROVE  BackFrom(w, t, EntryAt(w, x).clust)
    BY DEF AllBack
  <2>1. x # at /\ x \in Live(vol, t) /\ EntryAt(w, x) = EntryAt(vol, x)
    BY <1>1
  <2>2. BackFrom(vol, t, EntryAt(vol, x).clust)
    BY <2>1
  <2>3. EntryAt(vol, x).clust \in D /\ EntryAt(vol, x).clust # 0
    BY <1>0, <2>1, LiveTyped
  <2>4. ~IsDot(EntryAt(vol, at).name)
    BY <1>0, LiveTyped
  <2> QED BY ONLY <1>0, <1>1, <2>1, <2>2, <2>3, <2>4, BackKept
<1> QED BY <1>5, <1>6, <1>7 DEF Single

----------------------------------------------------------------------------
(* The open file *)

\* Its entry is in a table, no other entry has its start cluster, and the cluster
\* it is at is in its chain.
OwnsStart(vol, D, f) ==
    /\ Proper(vol.fat, f.org) /\ f.org # vol.dirbase
    /\ \A s \in D : \A at \in Live(vol, s) : at # f.at => EntryAt(vol, at).clust # f.org

HasEntry(vol, D, f) ==
    \E s \in D : /\ f.at \in Live(vol, s) /\ ~EntryAt(vol, f.at).dir
                 /\ EntryAt(vol, f.at).clust \in {0, f.org}

Held(vol, D, f) ==
    f.open =>
        /\ HasEntry(vol, D, f)
        /\ f.org \in Clusters => OwnsStart(vol, D, f)
        /\ f.cur # 0 => /\ f.org \in Clusters
                        /\ \E i \in 1..Len(Chain(vol.fat, f.org)) :
                               f.cur = Chain(vol.fat, f.org)[i]

\* The chain that starts at d is the same or longer.
Grown(vol, w, d) ==
    /\ Proper(w.fat, d) /\ Len(Chain(vol.fat, d)) <= Len(Chain(w.fat, d))
    /\ \A i \in 1..Len(Chain(vol.fat, d)) : Chain(w.fat, d)[i] = Chain(vol.fat, d)[i]

LEMMA SparedGrown ==
    ASSUME NEW vol \in Image, Linked(vol.fat), NEW w, NEW d, Proper(vol.fat, d), Spared(vol, w, d)
    PROVE  Grown(vol, w, d)
<1>1. Len(Chain(vol.fat, d)) \in Nat
  BY ImageIs, ProperChain
<1> QED BY <1>1 DEF Spared, Grown

\* A change that leaves the entry and the chain of the open file, and gives its
\* start cluster to no other entry.
LEMMA HeldKept ==
    ASSUME NEW vol, NEW D, NEW f, Held(vol, D, f), NEW w, NEW E, w.dirbase = vol.dirbase,
           vol.fat \in Fats, Linked(vol.fat), w.fat \in Fats, Linked(w.fat),
           f.open /\ f.org \in Clusters => Grown(vol, w, f.org),
           \A s \in D : f.open /\ f.at \in Live(vol, s) =>
               s \in E /\ f.at \in Live(w, s) /\ EntryAt(w, f.at) = EntryAt(vol, f.at),
           \A s \in E : \A at \in Live(w, s) :
               f.open /\ at # f.at /\ EntryAt(w, at).clust = f.org /\ f.org \in Clusters =>
                   \E t \in D : \E bt \in Live(vol, t) :
                       bt # f.at /\ EntryAt(vol, bt).clust = f.org
    PROVE  Held(w, E, f)
<1> SUFFICES ASSUME f.open
             PROVE  /\ HasEntry(w, E, f)
                    /\ f.org \in Clusters => OwnsStart(w, E, f)
                    /\ f.cur # 0 => /\ f.org \in Clusters
                                    /\ \E i \in 1..Len(Chain(w.fat, f.org)) :
                                           f.cur = Chain(w.fat, f.org)[i]
  BY DEF Held
<1>1. HasEntry(w, E, f)
  BY DEF Held, HasEntry
<1>2. f.org \in Clusters => OwnsStart(w, E, f)
  BY DEF Held, OwnsStart, Grown
<1>3. ASSUME f.cur # 0
      PROVE  /\ f.org \in Clusters
             /\ \E i \in 1..Len(Chain(w.fat, f.org)) : f.cur = Chain(w.fat, f.org)[i]
  <2>1. f.org \in Clusters /\ Proper(vol.fat, f.org) /\ Grown(vol, w, f.org)
    BY <1>3 DEF Held, OwnsStart
  <2>2. PICK i \in 1..Len(Chain(vol.fat, f.org)) : f.cur = Chain(vol.fat, f.org)[i]
    BY <1>3 DEF Held
  <2>3. Len(Chain(vol.fat, f.org)) \in Nat /\ Len(Chain(w.fat, f.org)) \in Nat
    BY <2>1, ProperChain DEF Grown
  <2>4. i \in 1..Len(Chain(w.fat, f.org)) /\ f.cur = Chain(w.fat, f.org)[i]
    BY <2>1, <2>2, <2>3 DEF Grown
  <2> QED BY <2>1, <2>4
<1> QED BY <1>1, <1>2, <1>3

----------------------------------------------------------------------------
(* Trails *)

\* Machines with their volume in V, the card's in W, the directory in C, the FIL in F.
Windows == {"none", "fat", "tab"} \X Int
Machines(V, W, C, F) ==
    [vol : V, disk : W, win : Windows, last : Clusters \cup {0}, cdir : C, fil : F]

Passing(t, M) == t = [now |-> t.now, seen |-> t.seen] /\ t.seen \subseteq M /\ t.now \in t.seen

\* It is at the volume v, and no table is left uncleared there or on the card.
Steady(t, V, W, C, F, v) ==
    /\ Passing(t, Machines(V, W, C, F)) /\ V \subseteq W
    /\ t.now.vol = v /\ v.raw = {} /\ t.now.disk.raw = {}

LEMMA WindowsAre ==
    /\ NoSector \in Windows
    /\ \A c \in Clusters : FatOf(c) \in Windows
    /\ \A x \in Tables : Tab(x) \in Windows
<1>1. \A c \in Clusters : c \div PerFat \in Int
  BY SizesAssumption DEF Clusters
<1>2. Tables \subseteq Int
  BY SizesAssumption DEF Tables, Clusters, RootTables
<1> QED BY <1>1, <1>2 DEF Windows, NoSector, FatOf, Tab

LEMMA MachineIs ==
    ASSUME NEW V, NEW W, NEW C, NEW F, NEW n \in Machines(V, W, C, F)
    PROVE  /\ n.vol \in V /\ n.disk \in W /\ n.win \in Windows /\ n.last \in Clusters \cup {0}
           /\ n.cdir \in C /\ n.fil \in F
BY DEF Machines

LEMMA MachinesMore ==
    ASSUME NEW V, NEW W, NEW C, NEW F, NEW V1, NEW W1, NEW C1, NEW F1,
           V1 \subseteq V, W1 \subseteq W, C1 \subseteq C, F1 \subseteq F
    PROVE  Machines(V1, W1, C1, F1) \subseteq Machines(V, W, C, F)
BY DEF Machines

LEMMA BecomeIs ==
    ASSUME NEW M, NEW t, Passing(t, M), NEW N, M \subseteq N, NEW n \in N
    PROVE  /\ Passing(Become(t, n), N) /\ Become(t, n).now = n
           /\ Become(t, n).seen = t.seen \cup {n}
BY DEF Passing, Become

LEMMA AmendIs ==
    ASSUME NEW M, NEW t, Passing(t, M), NEW n \in M
    PROVE  Passing(Amend(t, n), M) /\ Amend(t, n).now = n
BY DEF Passing, Amend

LEMMA FlushIs ==
    ASSUME NEW V, NEW W, NEW C, NEW F, V \subseteq W, NEW t, Passing(t, Machines(V, W, C, F))
    PROVE  LET u == Flush(t)
           IN  /\ Passing(u, Machines(V, W, C, F))
               /\ u.now.vol = t.now.vol /\ u.now.disk = t.now.vol
               /\ u.now.cdir = t.now.cdir /\ u.now.fil = t.now.fil
<1> DEFINE n == [t.now EXCEPT !.disk = t.now.vol, !.win = NoSector]
<1>1. t.now \in Machines(V, W, C, F)
  BY DEF Passing
<1>2. n \in Machines(V, W, C, F) /\ n.vol = t.now.vol /\ n.disk = t.now.vol
      /\ n.cdir = t.now.cdir /\ n.fil = t.now.fil
  BY <1>1, WindowsAre DEF Machines
<1>3. Flush(t) = Become(t, n)
  BY DEF Flush
<1> HIDE DEF n
<1> QED BY <1>2, <1>3, BecomeIs

LEMMA MoveIs ==
    ASSUME NEW V, NEW W, NEW C, NEW F, V \subseteq W, NEW t, Passing(t, Machines(V, W, C, F)),
           NEW S
    PROVE  LET u == move_window(t, S)
           IN  /\ Passing(u, Machines(V, W, C, F))
               /\ u.now.vol = t.now.vol /\ u.now.disk \in {t.now.disk, t.now.vol}
               /\ u.now.cdir = t.now.cdir /\ u.now.fil = t.now.fil
BY FlushIs DEF move_window

\* The volume v comes into the window; all else of u was in t before.
Written(u, t, V, W, C, F, v) ==
    /\ u = [now |-> u.now, seen |-> u.seen] /\ u.now \in u.seen
    /\ u.now \in Machines({v}, W, C, F)
    /\ u.seen \subseteq Machines(V, W, C, F) \cup {u.now}
    /\ u.now.vol = v /\ u.now.disk \in {t.now.disk, t.now.vol}
    /\ u.now.cdir = t.now.cdir /\ u.now.fil = t.now.fil

LEMMA WriteIs ==
    ASSUME NEW V, NEW W, NEW C, NEW F, V \subseteq W, NEW t, Passing(t, Machines(V, W, C, F)),
           NEW s \in Windows, NEW v
    PROVE  Written(Write(t, s, v), t, V, W, C, F, v)
<1> DEFINE p == move_window(t, {s})
           n == [p.now EXCEPT !.vol = v, !.win = IF v = p.now.disk THEN NoSector ELSE s]
<1>1. /\ Passing(p, Machines(V, W, C, F)) /\ p.now.disk \in {t.now.disk, t.now.vol}
      /\ p.now.cdir = t.now.cdir /\ p.now.fil = t.now.fil
  BY MoveIs
<1>2. Write(t, s, v) = Become(p, n)
  BY DEF Write
<1>3. p.now \in Machines(V, W, C, F)
  BY <1>1 DEF Passing
<1> HIDE DEF p
<1>4. n \in Machines({v}, W, C, F) /\ n.vol = v /\ n.disk = p.now.disk
      /\ n.cdir = p.now.cdir /\ n.fil = p.now.fil
  BY <1>3, WindowsAre DEF Machines
<1> HIDE DEF n
<1> QED BY <1>1, <1>2, <1>4 DEF Become, Passing, Written

LEMMA SteadyMore ==
    ASSUME NEW V, NEW W, NEW C, NEW F, NEW v, NEW t, Steady(t, V, W, C, F, v),
           NEW V1, V \subseteq V1, V1 \subseteq W, NEW C1, C \subseteq C1, NEW F1, F \subseteq F1
    PROVE  Steady(t, V1, W, C1, F1, v)
BY MachinesMore DEF Steady, Passing

LEMMA SteadyIs ==
    ASSUME NEW V, NEW W, NEW C, NEW F, NEW v, NEW t, Steady(t, V, W, C, F, v)
    PROVE  /\ t.now \in Machines(V, W, C, F) /\ t.now.vol = v /\ v \in V /\ v.raw = {}
           /\ t.now.disk.raw = {} /\ t.now.disk \in W /\ t.now.cdir \in C /\ t.now.fil \in F
           /\ t.now.last \in Clusters \cup {0}
           /\ Passing(t, Machines(V, W, C, F)) /\ V \subseteq W
BY MachineIs DEF Steady, Passing

LEMMA SteadyFlush ==
    ASSUME NEW V, NEW W, NEW C, NEW F, NEW v, NEW t, Passing(t, Machines(V, W, C, F)),
           V \subseteq W, t.now.vol = v, v.raw = {}
    PROVE  Steady(Flush(t), V, W, C, F, v) /\ Flush(t).now.disk = v
BY FlushIs DEF Steady

LEMMA SteadyMove ==
    ASSUME NEW V, NEW W, NEW C, NEW F, NEW v, NEW t, Steady(t, V, W, C, F, v), NEW S
    PROVE  Steady(move_window(t, S), V, W, C, F, v)
BY MoveIs DEF Steady

LEMMA SteadyWrite ==
    ASSUME NEW V, NEW W, NEW C, NEW F, NEW v, NEW t, Steady(t, V, W, C, F, v),
           NEW s \in Windows, NEW V1, V \subseteq V1, V1 \subseteq W, NEW w \in V1, w.raw = {}
    PROVE  LET u == Write(t, s, w)
           IN  /\ Steady(u, V1, W, C, F, w) /\ u.now.cdir = t.now.cdir /\ u.now.fil = t.now.fil
               /\ u.seen \subseteq Machines(V, W, C, F) \cup {u.now}
<1> DEFINE u == Write(t, s, w)
<1>1. Written(u, t, V, W, C, F, w)
  BY WriteIs DEF Steady
<1> HIDE DEF u
<1>2. Machines({w}, W, C, F) \subseteq Machines(V1, W, C, F)
      /\ Machines(V, W, C, F) \subseteq Machines(V1, W, C, F)
  BY DEF Machines
<1>3. u.now.disk.raw = {}
  BY <1>1 DEF Steady, Written
<1>4. Passing(u, Machines(V1, W, C, F))
  BY <1>1, <1>2 DEF Passing, Written
<1> QED BY <1>1, <1>3, <1>4 DEF Steady, u, Written

----------------------------------------------------------------------------
(* Longer chains *)

RawOk(v) == v.raw = {} \/ \E c \in Clusters : v.raw = {c}

\* The volumes with the entries of v, where no chain is shorter, and those that start
\* in R are as they are.
From(v, D, R) ==
    {u \in Image : /\ Single(u, D) /\ Alike(v, u, D) /\ RawOk(u)
                   /\ \A d : Proper(v.fat, d) => Grown(v, u, d)
                   /\ \A d \in R : Spared(v, u, d) /\ u.tab[d] = v.tab[d]}

LEMMA FromItself ==
    ASSUME NEW v, NEW D, Single(v, D), RawOk(v), NEW R, \A d \in R : Proper(v.fat, d)
    PROVE  v \in From(v, D, R)
<1>1. v \in Image /\ Linked(v.fat)
  BY DEF Single, Forest
<1>2. \A d : Proper(v.fat, d) => Spared(v, v, d) /\ Grown(v, v, d)
  BY <1>1, SparedGrown DEF Spared
<1> QED BY <1>1, <1>2 DEF From, Alike

LEMMA GrownBoth ==
    ASSUME NEW v \in Image, Linked(v.fat), NEW u \in Image, Linked(u.fat),
           NEW w \in Image, Linked(w.fat), NEW d, Proper(v.fat, d), Grown(v, u, d), Grown(u, w, d)
    PROVE  Grown(v, w, d)
<1>1. /\ Len(Chain(v.fat, d)) \in Nat /\ Len(Chain(u.fat, d)) \in Nat
      /\ Len(Chain(w.fat, d)) \in Nat
  BY ImageIs, ProperChain DEF Grown
<1> QED BY <1>1 DEF Grown

LEMMA FromBoth ==
    ASSUME NEW v, NEW D, Single(v, D), NEW R, NEW u \in From(v, D, R), NEW w \in From(u, D, R)
    PROVE  w \in From(v, D, R)
<1>1. Alike(v, w, D)
  BY AlikeBoth DEF From
<1>2. /\ v \in Image /\ Linked(v.fat) /\ u \in Image /\ Linked(u.fat)
      /\ w \in Image /\ Linked(w.fat)
  BY DEF From, Single, Forest
<1>3. \A d : Proper(v.fat, d) => Grown(v, w, d)
  BY <1>2, GrownBoth DEF From, Grown
<1>4. \A d \in R : Spared(v, w, d) /\ w.tab[d] = v.tab[d]
  BY DEF From, Spared
<1> QED BY <1>1, <1>2, <1>3, <1>4 DEF From

\* The open file is still sound.
LEMMA HeldFrom ==
    ASSUME NEW v, NEW D, Single(v, D), NEW f, Held(v, D, f), NEW R, NEW w \in From(v, D, R)
    PROVE  Held(w, D, f)
<1>1. w.dirbase = v.dirbase
  BY DEF From, Alike
<1>2. v.fat \in Fats /\ Linked(v.fat) /\ w.fat \in Fats /\ Linked(w.fat)
  BY ImageIs DEF From, Single, Forest
<1>3. f.open /\ f.org \in Clusters => Grown(v, w, f.org)
  BY DEF From, Held, OwnsStart
<1>4. \A s \in D : f.open /\ f.at \in Live(v, s) =>
               s \in D /\ f.at \in Live(w, s) /\ EntryAt(w, f.at) = EntryAt(v, f.at)
  BY DEF From, Alike
<1>5. \A s \in D : \A at \in Live(w, s) :
               f.open /\ at # f.at /\ EntryAt(w, at).clust = f.org /\ f.org \in Clusters =>
                   \E t \in D : \E bt \in Live(v, t) :
                       bt # f.at /\ EntryAt(v, bt).clust = f.org
  BY DEF From, Alike
<1> QED BY ONLY <1>1, <1>2, <1>3, <1>4, <1>5, Held(v, D, f), HeldKept

LEMMA OrderIs ==
    ASSUME NEW start \in 1..(MaxClust - 1)
    PROVE  /\ DOMAIN Order(start) \subseteq Nat
           /\ \A i \in DOMAIN Order(start) : Order(start)[i] \in Clusters
<1> DEFINE k == MaxClust - 2
<1>1. k \in Nat /\ k > 0 /\ MaxClust \in Nat
  BY ClustersAre
<1>2. ASSUME NEW i \in 1..k PROVE 2 + ((start - 2 + i) % k) \in Clusters
  <2>1. (start - 2 + i) \in Int
    BY <1>1
  <2>2. (start - 2 + i) % k \in 0..(k - 1)
    <3> HIDE DEF k
    <3> QED BY <1>1, <2>1, DivMod
  <2> QED BY <1>1, <2>2 DEF Clusters
<1> QED BY <1>2 DEF Order

\* What create_chain does for no chain, or at the end of one.
LEMMA ChainPick ==
    ASSUME NEW t, t.now.last \in Clusters \cup {0}, NEW c \in Clusters \cup {0},
           c = 0 \/ t.now.vol.fat[c] = Eoc
    PROVE  \E p \in {t, move_window(t, {FatOf(c)})} : \E S :
              LET q == move_window(p, S)
              IN  \/ create_chain(t, c) = [t |-> q, r |-> 0]
                  \/ \E n \in Clusters :
                        /\ t.now.vol.fat[n] = 0
                        /\ create_chain(t, c) =
                              [t |-> Amend(Link(q, c, n), [Link(q, c, n).now EXCEPT !.last = n]),
                               r |-> n]
<1> DEFINE fat == t.now.vol.fat
           start == IF c # 0 THEN c
                    ELSE IF t.now.last \in Clusters THEN t.now.last ELSE 1
           from == IF c = 0 THEN t ELSE move_window(t, {FatOf(c)})
           order == Order(start)
           free == {i \in DOMAIN order : fat[order[i]] = 0}
           n == CHOOSE i \in free : \A j \in free : i <= j
           looked == {FatOf(order[i]) : i \in 1..(IF free = {} THEN Len(order) ELSE n)}
           q == move_window(from, looked)
           u == Link(q, c, order[n])
<1>1. start \in 1..(MaxClust - 1)
  BY ClustersAre
<1>2. c = 0 \/ (fat[c] = Eoc /\ fat[c] # 0)
  BY ClustersAre
<1>3. from \in {t, move_window(t, {FatOf(c)})}
  OBVIOUS
<1>4. create_chain(t, c) = IF free = {} THEN [t |-> q, r |-> 0]
                           ELSE [t |-> Amend(u, [u.now EXCEPT !.last = order[n]]), r |-> order[n]]
  BY <1>2 DEF create_chain
<1>5. CASE free = {}
  <2>1. create_chain(t, c) = [t |-> q, r |-> 0]
    BY <1>4, <1>5
  <2> HIDE DEF from, looked
  <2> QED BY <1>3, <2>1
<1>6. CASE free # {}
  <2>1. n \in free
    <3>1. free \subseteq Nat
      BY <1>1, OrderIs
    <3> HIDE DEF free
    <3> QED BY <1>6, <3>1, LeastOf
  <2>2. order[n] \in Clusters /\ fat[order[n]] = 0
    <3> HIDE DEF n
    <3> QED BY <1>1, <2>1, OrderIs
  <2>3. create_chain(t, c) = [t |-> Amend(u, [u.now EXCEPT !.last = order[n]]), r |-> order[n]]
    BY <1>4, <1>6
  <2> DEFINE x == order[n]
  <2>4. x \in Clusters /\ t.now.vol.fat[x] = 0
        /\ create_chain(t, c) = [t |-> Amend(Link(q, c, x), [Link(q, c, x).now EXCEPT !.last = x]),
                                 r |-> x]
    BY <2>2, <2>3
  <2> HIDE DEF from, looked, x, n, order
  <2> QED BY <1>3, <2>4
<1> QED BY <1>5, <1>6

\* Cluster n, which was free, is a chain of its own.
NewIs(v, D, R, n, u) ==
    /\ n \in Clusters /\ v.fat[n] = 0 /\ u \in From(v, D, R) /\ Loose(u, D, n)
    /\ u.fat[n] = Eoc /\ u.tab = v.tab /\ u.raw = v.raw /\ u.tab[n] = Blank
    /\ \A d : Proper(v.fat, d) => d # n /\ Spared(v, u, d)

LEMMA MarkedFrom ==
    ASSUME NEW v, NEW D, Single(v, D), RawOk(v), NEW R, \A d \in R : Proper(v.fat, d),
           NEW n \in Clusters, v.fat[n] = 0
    PROVE  NewIs(v, D, R, n, WithLink(v, n, Eoc))
<1> DEFINE w == WithLink(v, n, Eoc)
<1>1. v \in Image /\ Linked(v.fat)
  BY DEF Single, Forest
<1>2. w = WithLink(v, n, Eoc) /\ w.tab = v.tab
  BY <1>1 DEF Image, WithLink
<1> HIDE DEF w
<1>3. Single(w, D) /\ Alike(v, w, D) /\ Loose(w, D, n)
  <2>1. Single(w, D)
    BY ONLY <1>2, Single(v, D), n \in Clusters, v.fat[n] = 0, Marked
  <2>2. Alike(v, w, D)
    BY ONLY <1>2, Single(v, D), n \in Clusters, v.fat[n] = 0, Marked
  <2>3. Loose(w, D, n)
    BY ONLY <1>2, Single(v, D), n \in Clusters, v.fat[n] = 0, Marked
  <2> QED BY <2>1, <2>2, <2>3
<1>4. w.fat[n] = Eoc /\ w.tab[n] = Blank /\ w.raw = v.raw
  BY ONLY <1>2, Single(v, D), n \in Clusters, v.fat[n] = 0, Marked
<1>5. \A d : Proper(v.fat, d) => d # n /\ Spared(v, w, d)
  BY ONLY <1>2, Single(v, D), n \in Clusters, v.fat[n] = 0, Marked
<1>6. \A d : Proper(v.fat, d) => Grown(v, w, d)
  BY ONLY <1>1, <1>5, SparedGrown
<1>7. w \in Image
  BY <1>3 DEF Single, Forest
<1>8. w \in From(v, D, R)
  BY <1>2, <1>3, <1>4, <1>5, <1>6, <1>7 DEF From, RawOk
<1> QED BY <1>2, <1>3, <1>4, <1>5, <1>8 DEF NewIs, w

\* Cluster n is at the end of the chain that starts at b.
NextIs(v, D, R, b, n, u) ==
    /\ n \in Clusters /\ v.fat[n] = 0 /\ u \in From(v, D, R)
    /\ Chain(u.fat, b) = Append(Chain(v.fat, b), n) /\ u.tab = v.tab /\ u.raw = v.raw
    /\ u.tab[n] = Blank
    /\ \A d : Proper(v.fat, d) => d # n
    /\ \A s \in D : ~IsStatic(v, s) /\ Base(v, s) = b => Table(u, s) = Append(Table(v, s), n)

LEMMA LinkedFrom ==
    ASSUME NEW v, NEW D, Single(v, D), RawOk(v), NEW R, \A d \in R : Proper(v.fat, d),
           NEW b, Proper(v.fat, b), b \notin R,
           NEW c, c = Chain(v.fat, b)[Len(Chain(v.fat, b))],
           NEW n, NEW x, NewIs(v, D, R, n, x)
    PROVE  NextIs(v, D, R, b, n, WithLink(x, c, n))
<1> DEFINE w == WithLink(x, c, n)
<1>1. v \in Image /\ Linked(v.fat) /\ x \in Image /\ Linked(x.fat) /\ Single(x, D) /\ Alike(v, x, D)
  BY DEF Single, Forest, NewIs, From
<1>2. /\ Proper(x.fat, b) /\ Loose(x, D, n) /\ n # b /\ x.fat[n] = Eoc /\ x.tab[n] = Blank
      /\ Chain(x.fat, b) = Chain(v.fat, b) /\ x.tab = v.tab /\ x.raw = v.raw
      /\ x.dirbase = v.dirbase
  BY DEF NewIs, Spared, From, Alike
<1>3. c = Chain(x.fat, b)[Len(Chain(x.fat, b))]
  BY <1>2
<1>4. w = WithLink(x, c, n)
  OBVIOUS
<1> HIDE DEF w
<1>5. LinkedIs(x, D, b, n, w)
  BY ONLY <1>1, <1>2, <1>3, <1>4, LinkedOn
<1>6. /\ Single(w, D) /\ Alike(x, w, D) /\ w.raw = x.raw /\ w.tab = x.tab
      /\ Proper(w.fat, b) /\ Chain(w.fat, b) = Append(Chain(x.fat, b), n)
  BY <1>5 DEF LinkedIs
<1>7. \A d : Proper(x.fat, d) /\ d \notin {b, n} => Spared(x, w, d)
  BY <1>5 DEF LinkedIs
<1>8. \A s \in D : ~IsStatic(x, s) /\ Base(x, s) = b => Table(w, s) = Append(Table(x, s), n)
  BY <1>5 DEF LinkedIs
<1>9. w \in Image /\ Linked(w.fat)
  BY <1>6 DEF Single, Forest
<1>10. \A d : Proper(v.fat, d) => Proper(x.fat, d) /\ d # n /\ Chain(x.fat, d) = Chain(v.fat, d)
  BY DEF NewIs, Spared
<1>11. \A d : Proper(v.fat, d) /\ d # b => Spared(v, w, d)
  BY <1>7, <1>10 DEF Spared
<1>12. Grown(v, w, b)
  <2> DEFINE q == Chain(v.fat, b)
  <2>1. q \in Seq(Clusters) /\ n \in Clusters
    BY <1>1, ImageIs, ProperChain DEF NewIs
  <2>2. Chain(w.fat, b) = Append(q, n)
    BY <1>2, <1>6
  <2> HIDE DEF q
  <2>3. Len(Append(q, n)) = Len(q) + 1 /\ \A i \in 1..Len(q) : Append(q, n)[i] = q[i]
    BY <2>1
  <2> QED BY <1>6, <2>1, <2>2, <2>3 DEF Grown, q
<1>13. \A d : Proper(v.fat, d) => Grown(v, w, d)
  BY <1>1, <1>11, <1>12, SparedGrown
<1>14. Alike(v, w, D)
  BY <1>1, <1>6, AlikeBoth
<1>15. w \in From(v, D, R)
  BY <1>2, <1>6, <1>9, <1>11, <1>13, <1>14 DEF From, RawOk
<1>16. ASSUME NEW s \in D, ~IsStatic(v, s), Base(v, s) = b
       PROVE  Table(w, s) = Append(Table(v, s), n)
  <2>1. ~IsStatic(x, s) /\ Base(x, s) = b
    BY <1>2, <1>16 DEF IsStatic, Base
  <2>2. Table(x, s) = Table(v, s)
    BY <1>2, <1>16, <2>1 DEF Table, Base
  <2> QED BY <1>8, <2>1, <2>2
<1>17. n \in Clusters /\ v.fat[n] = 0
  BY DEF NewIs
<1>18. NextIs(v, D, R, b, n, w)
  BY <1>2, <1>6, <1>10, <1>15, <1>16, <1>17 DEF NextIs
<1> QED BY <1>18 DEF w

\* The results of create_chain: no cluster is free, or the new one is a chain of
\* its own or at the end of the chain that starts at b.
Made(a, V, W, C, F, v, D, R) ==
    \/ a.r = 0 /\ Steady(a.t, V, W, C, F, v)
    \/ \E u : NewIs(v, D, R, a.r, u) /\ Steady(a.t, V, W, C, F, u)

Stretched(a, V, W, C, F, v, D, R, b) ==
    \/ a.r = 0 /\ Steady(a.t, V, W, C, F, v)
    \/ \E u : NextIs(v, D, R, b, a.r, u) /\ Steady(a.t, V, W, C, F, u)

LEMMA SteadyLast ==
    ASSUME NEW V, NEW W, NEW C, NEW F, NEW v, NEW t, Steady(t, V, W, C, F, v), NEW n \in Clusters
    PROVE  Steady(Amend(t, [t.now EXCEPT !.last = n]), V, W, C, F, v)
<1> DEFINE w == [t.now EXCEPT !.last = n]
<1>1. t.now \in Machines(V, W, C, F)
  BY DEF Steady, Passing
<1>2. w \in Machines(V, W, C, F) /\ w.vol = t.now.vol /\ w.disk = t.now.disk
  BY <1>1 DEF Machines
<1> HIDE DEF w
<1>3. Passing(Amend(t, w), Machines(V, W, C, F)) /\ Amend(t, w).now = w
  BY <1>2, AmendIs DEF Steady
<1> QED BY <1>2, <1>3 DEF Steady, w

LEMMA SteadyPutFat ==
    ASSUME NEW V, NEW W, NEW C, NEW F, NEW v, NEW t, Steady(t, V, W, C, F, v),
           NEW c \in Clusters, NEW x, WithLink(v, c, x) \in V, v \in Image
    PROVE  Steady(put_fat(t, c, x), V, W, C, F, WithLink(v, c, x))
<1>1. t.now.vol = v /\ v.raw = {} /\ V \subseteq W
  BY DEF Steady
<1>2. put_fat(t, c, x) = Write(t, FatOf(c), WithLink(v, c, x))
  BY <1>1 DEF put_fat, WithLink
<1>3. WithLink(v, c, x).raw = {}
  BY <1>1 DEF WithLink, Image
<1>4. FatOf(c) \in Windows
  BY WindowsAre
<1> DEFINE w == WithLink(v, c, x)
           s == FatOf(c)
<1>5. w \in V /\ w.raw = {} /\ s \in Windows
  BY <1>3, <1>4
<1> HIDE DEF w, s
<1>6. Steady(Write(t, s, w), V, W, C, F, w)
  BY <1>1, <1>5, SteadyWrite
<1> QED BY <1>2, <1>6 DEF w, s

LEMMA NewChain ==
    ASSUME NEW V, NEW W, NEW C, NEW F, NEW v, NEW t, Steady(t, V, W, C, F, v),
           NEW D, Single(v, D), NEW R, \A d \in R : Proper(v.fat, d), From(v, D, R) \subseteq V
    PROVE  Made(create_chain(t, 0), V, W, C, F, v, D, R)
<1>1. /\ t.now.last \in Clusters \cup {0} /\ t.now.vol = v /\ v.raw = {} /\ v \in Image
      /\ RawOk(v) /\ 0 \in Clusters \cup {0}
  BY SteadyIs DEF Single, Forest, RawOk
<1>2. PICK p \in {t, move_window(t, {FatOf(0)})} : \E S :
              LET q == move_window(p, S)
              IN  \/ create_chain(t, 0) = [t |-> q, r |-> 0]
                  \/ \E n \in Clusters :
                        /\ t.now.vol.fat[n] = 0
                        /\ create_chain(t, 0) =
                              [t |-> Amend(Link(q, 0, n), [Link(q, 0, n).now EXCEPT !.last = n]),
                               r |-> n]
  BY ONLY <1>1, ChainPick
<1>3. PICK S : LET q == move_window(p, S)
              IN  \/ create_chain(t, 0) = [t |-> q, r |-> 0]
                  \/ \E n \in Clusters :
                        /\ t.now.vol.fat[n] = 0
                        /\ create_chain(t, 0) =
                              [t |-> Amend(Link(q, 0, n), [Link(q, 0, n).now EXCEPT !.last = n]),
                               r |-> n]
  BY <1>2
<1> DEFINE q == move_window(p, S)
<1>4. Steady(q, V, W, C, F, v)
  BY SteadyMove
<1> HIDE DEF q
<1>5. CASE create_chain(t, 0) = [t |-> q, r |-> 0]
  BY <1>4, <1>5 DEF Made
<1>6. ASSUME NEW n \in Clusters, v.fat[n] = 0,
             create_chain(t, 0) = [t |-> Amend(Link(q, 0, n), [Link(q, 0, n).now EXCEPT !.last = n]),
                                   r |-> n]
      PROVE  Made(create_chain(t, 0), V, W, C, F, v, D, R)
  <2> DEFINE w == WithLink(v, n, Eoc)
  <2>1. NewIs(v, D, R, n, w)
    BY <1>1, <1>6, MarkedFrom
  <2>2. w \in V
    BY <2>1 DEF NewIs
  <2>3. Steady(put_fat(q, n, Eoc), V, W, C, F, w)
    BY <1>1, <1>4, <2>2, SteadyPutFat
  <2>4. Link(q, 0, n) = put_fat(q, n, Eoc)
    BY DEF Link
  <2> HIDE DEF w
  <2>5. Steady(Amend(Link(q, 0, n), [Link(q, 0, n).now EXCEPT !.last = n]), V, W, C, F, w)
    BY <2>3, <2>4, SteadyLast
  <2> QED BY <1>6, <2>1, <2>5 DEF Made
<1> QED BY <1>1, <1>3, <1>5, <1>6 DEF q

LEMMA NextChain ==
    ASSUME NEW V, NEW W, NEW C, NEW F, NEW v, NEW t, Steady(t, V, W, C, F, v),
           NEW D, Single(v, D), NEW R, \A d \in R : Proper(v.fat, d), From(v, D, R) \subseteq V,
           NEW b, Proper(v.fat, b), b \notin R,
           NEW c, c = Chain(v.fat, b)[Len(Chain(v.fat, b))]
    PROVE  Stretched(create_chain(t, c), V, W, C, F, v, D, R, b)
<1>1. /\ t.now.last \in Clusters \cup {0} /\ t.now.vol = v /\ v.raw = {} /\ v \in Image
      /\ RawOk(v) /\ Linked(v.fat)
  BY SteadyIs DEF Single, Forest, RawOk
<1>2. c \in Clusters /\ c # 0 /\ v.fat[c] = Eoc
  BY <1>1, ImageIs, ProperChain, ClustersAre
<1>3. PICK p \in {t, move_window(t, {FatOf(c)})} : \E S :
              LET q == move_window(p, S)
              IN  \/ create_chain(t, c) = [t |-> q, r |-> 0]
                  \/ \E n \in Clusters :
                        /\ t.now.vol.fat[n] = 0
                        /\ create_chain(t, c) =
                              [t |-> Amend(Link(q, c, n), [Link(q, c, n).now EXCEPT !.last = n]),
                               r |-> n]
  <2>1. c \in Clusters \cup {0} /\ (c = 0 \/ t.now.vol.fat[c] = Eoc)
    BY <1>1, <1>2
  <2> QED BY ONLY <1>1, <2>1, ChainPick
<1>4. PICK S : LET q == move_window(p, S)
              IN  \/ create_chain(t, c) = [t |-> q, r |-> 0]
                  \/ \E n \in Clusters :
                        /\ t.now.vol.fat[n] = 0
                        /\ create_chain(t, c) =
                              [t |-> Amend(Link(q, c, n), [Link(q, c, n).now EXCEPT !.last = n]),
                               r |-> n]
  BY <1>3
<1> DEFINE q == move_window(p, S)
<1>5. Steady(q, V, W, C, F, v)
  BY SteadyMove
<1> HIDE DEF q
<1>6. CASE create_chain(t, c) = [t |-> q, r |-> 0]
  BY <1>5, <1>6 DEF Stretched
<1>7. ASSUME NEW n \in Clusters, v.fat[n] = 0,
             create_chain(t, c) = [t |-> Amend(Link(q, c, n), [Link(q, c, n).now EXCEPT !.last = n]),
                                   r |-> n]
      PROVE  Stretched(create_chain(t, c), V, W, C, F, v, D, R, b)
  <2> DEFINE x == WithLink(v, n, Eoc)
             w == WithLink(x, c, n)
  <2>1. NewIs(v, D, R, n, x)
    BY <1>1, <1>7, MarkedFrom
  <2>2. NextIs(v, D, R, b, n, w)
    <3> HIDE DEF x
    <3> QED BY <1>1, <2>1, LinkedFrom
  <2>3. x \in V /\ x \in Image /\ w \in V
    BY <2>1, <2>2 DEF NewIs, NextIs, From
  <2>4. Steady(put_fat(q, n, Eoc), V, W, C, F, x)
    BY <1>1, <1>5, <2>3, SteadyPutFat
  <2>5. Steady(put_fat(put_fat(q, n, Eoc), c, n), V, W, C, F, w)
    <3> HIDE DEF x
    <3> QED BY <1>2, <2>3, <2>4, SteadyPutFat
  <2>6. Link(q, c, n) = put_fat(put_fat(q, n, Eoc), c, n)
    BY <1>2 DEF Link
  <2> HIDE DEF x, w
  <2>7. Steady(Amend(Link(q, c, n), [Link(q, c, n).now EXCEPT !.last = n]), V, W, C, F, w)
    BY <2>5, <2>6, SteadyLast
  <2> QED BY <1>7, <2>2, <2>7 DEF Stretched
<1> QED BY <1>1, <1>4, <1>6, <1>7 DEF q

LEMMA RawFrom ==
    ASSUME NEW v, NEW D, NEW R, NEW u \in From(v, D, R),
           NEW r, r = {} \/ \E c \in Clusters : r = {c}
    PROVE  /\ WithRaw(u, r) \in From(v, D, R) /\ WithRaw(u, r).raw = r
           /\ WithRaw(u, r).fat = u.fat /\ WithRaw(u, r).tab = u.tab
<1> DEFINE w == WithRaw(u, r)
<1>1. Single(u, D) /\ Alike(v, u, D) /\ r \in SUBSET Clusters /\ w = WithRaw(u, r)
  BY DEF From
<1> HIDE DEF w
<1>2. Single(w, D) /\ Alike(u, w, D)
  BY <1>1, Rawed
<1>3. w.raw = r /\ w.fat = u.fat /\ w.tab = u.tab
  BY <1>1, Rawed
<1>4. Alike(v, w, D) /\ w \in Image
  BY <1>1, <1>2, AlikeBoth DEF Single, Forest
<1>5. w \in From(v, D, R)
  BY <1>2, <1>3, <1>4 DEF From, RawOk, Grown, Spared
<1> QED BY <1>3, <1>5 DEF w

\* dir_next at the end of a table.
LEMMA StretchIs ==
    ASSUME NEW V, NEW W, NEW C, NEW F, NEW v, NEW t, Steady(t, V, W, C, F, v),
           NEW D, Single(v, D), NEW R, \A d \in R : Proper(v.fat, d), From(v, D, R) \subseteq V,
           NEW s \in D, ~IsStatic(v, s), Base(v, s) \notin R
    PROVE  Stretched(Stretch(t, s), V, W, C, F, v, D, R, Base(v, s))
<1> DEFINE b == Base(v, s)
           c == Chain(v.fat, b)[Len(Chain(v.fat, b))]
           a == create_chain(t, c)
<1>1. Forest(v, D) /\ v \in Image /\ t.now.vol = v
  BY DEF Single, Forest, Steady
<1>2. Proper(v.fat, b) /\ Table(v, s) = Chain(v.fat, b)
  BY <1>1, BaseOwner
<1>3. Stretch(t, s) = Cleared(a)
  BY <1>1, <1>2 DEF Stretch, Last
<1>4. Stretched(a, V, W, C, F, v, D, R, b)
  <2> HIDE DEF b
  <2> QED BY <1>2, NextChain DEF b
<1> HIDE DEF a, b
<1>5. CASE a.r = 0 /\ Steady(a.t, V, W, C, F, v)
  BY <1>3, <1>5 DEF Stretched, Cleared, b
<1>6. ASSUME NEW u, NextIs(v, D, R, b, a.r, u), Steady(a.t, V, W, C, F, u)
      PROVE  Stretched(Stretch(t, s), V, W, C, F, v, D, R, Base(v, s))
  <2> DEFINE n == a.r
             w == WithRaw(u, {n})
             m1 == [a.t.now EXCEPT !.vol.raw = {n}]
             t1 == Amend(a.t, m1)
             t2 == Flush(t1)
             t3 == PutTable(t2, n, Blank)
             m4 == [t3.now EXCEPT !.vol.raw = {}]
             t4 == Become(t3, m4)
  <2>1. n \in Clusters /\ n > 1 /\ u \in From(v, D, R) /\ u.raw = {} /\ u.tab[n] = Blank
        /\ u \in Image
    BY <1>6, ClustersAre DEF NextIs, Steady, Clusters, From
  <2>2. Stretch(t, s) = [t |-> Flush(t4), r |-> n]
    BY <1>3, <2>1 DEF Cleared, ClearTable
  <2>3. w \in From(v, D, R) /\ w.raw = {n} /\ w.tab = u.tab /\ w \in V
    BY <2>1, RawFrom
  <2>4. w \in Image /\ WithRaw(w, {}) = u
    <3>1. w \in Image
      BY <2>3 DEF From
    <3>2. u = [dirbase |-> u.dirbase, fat |-> u.fat, tab |-> u.tab, raw |-> u.raw]
      BY <2>1, ImageIs
    <3>3. WithRaw(w, {}) = [dirbase |-> u.dirbase, fat |-> u.fat, tab |-> u.tab, raw |-> {}]
      BY <2>1 DEF WithRaw, Image
    <3> QED BY <2>1, <3>1, <3>2, <3>3
  <2>5. a.t.now \in Machines(V, W, C, F) /\ a.t.now.vol = u /\ V \subseteq W
        /\ Passing(a.t, Machines(V, W, C, F))
    BY <1>6, SteadyIs
  <2>6. m1 \in Machines(V, W, C, F) /\ m1.vol = w
    <3>1. m1 = [a.t.now EXCEPT !.vol = w]
      BY <2>5 DEF WithRaw, Machines
    <3> HIDE DEF w, m1
    <3> QED BY <2>3, <2>5, <3>1 DEF Machines
  <2> HIDE DEF n, w
  <2>7. Passing(t1, Machines(V, W, C, F)) /\ t1.now = m1
    <3> HIDE DEF m1
    <3> QED BY <2>5, <2>6, AmendIs
  <2> HIDE DEF m1
  <2>8. Passing(t2, Machines(V, W, C, F)) /\ t2.now.vol = w
    <3> HIDE DEF t1
    <3> QED BY <2>5, <2>6, <2>7, FlushIs
  <2> HIDE DEF t2
  <2>9. t3 = Write(t2, Tab(n), w)
    <3>1. [w EXCEPT !.tab[n] = Blank] = w
      <4>1. w.tab[n] = Blank /\ w = [dirbase |-> w.dirbase, fat |-> w.fat, tab |-> w.tab, raw |-> w.raw]
            /\ w.tab \in [Tables -> [0..(PerSector - 1) -> Entry]]
        BY <2>1, <2>3, <2>4, ImageIs
      <4>2. [w.tab EXCEPT ![n] = Blank] = w.tab
        BY <4>1
      <4>3. [w EXCEPT !.tab[n] = Blank] = [dirbase |-> w.dirbase, fat |-> w.fat,
                                          tab |-> [w.tab EXCEPT ![n] = Blank], raw |-> w.raw]
        BY <2>4 DEF Image
      <4> QED BY <4>1, <4>2, <4>3
    <3> QED BY <2>8, <3>1 DEF PutTable
  <2>10. Passing(t3, Machines(V, W, C, F)) /\ t3.now.vol = w
    <3>1. Tab(n) \in Windows
      BY <2>1, WindowsAre DEF Tables
    <3>2. Written(t3, t2, V, W, C, F, w)
      BY <2>5, <2>8, <2>9, <3>1, WriteIs
    <3>3. Machines({w}, W, C, F) \subseteq Machines(V, W, C, F)
      BY <2>3 DEF Machines
    <3> HIDE DEF t3
    <3> QED BY <3>2, <3>3 DEF Passing, Written
  <2> HIDE DEF t3
  <2>11. m4 \in Machines(V, W, C, F) /\ m4.vol = u
    <3>1. t3.now \in Machines(V, W, C, F)
      BY <2>10 DEF Passing
    <3>2. m4 = [t3.now EXCEPT !.vol = u]
      BY <2>4, <2>10, <3>1 DEF WithRaw, Machines
    <3>3. u \in V
      BY <1>6, SteadyIs
    <3> HIDE DEF m4
    <3> QED BY <3>1, <3>2, <3>3 DEF Machines
  <2> HIDE DEF m4
  <2>12. Passing(t4, Machines(V, W, C, F)) /\ t4.now.vol = u
    BY <2>10, <2>11, BecomeIs
  <2> HIDE DEF t4
  <2>13. Steady(Flush(t4), V, W, C, F, u)
    BY <2>1, <2>5, <2>12, SteadyFlush
  <2> QED BY <1>6, <2>2, <2>13 DEF Stretched, n, b
<1> QED BY <1>4, <1>5, <1>6 DEF Stretched, b

----------------------------------------------------------------------------
(* New entries *)

\* A blank sector at the end of a table that has no free slot.
LEMMA FreshSlot ==
    ASSUME NEW v \in Image, Linked(v.fat), NEW s, HasTable(v, s),
           NEW u \in Image, Linked(u.fat), HasTable(u, s), u.tab = v.tab,
           NEW n, Table(u, s) = Append(Table(v, s), n), u.tab[n] = Blank,
           \A k \in 1..Len(Slots(v, s)) : EntryAt(v, Slots(v, s)[k]).name \notin Marks
    PROVE  FirstFree(u, s, <<n, 0>>)
<1> DEFINE T == Table(v, s)
           S == Slots(v, s)
           Z == Slots(u, s)
<1>1. T \in Seq(Tables) /\ Len(T) \in Nat /\ Len(T) > 0
  BY TableIs
<1>2. /\ Table(u, s) = Append(T, n) /\ Len(Append(T, n)) = Len(T) + 1
      /\ Append(T, n)[Len(T) + 1] = n /\ \A i \in 1..Len(T) : Append(T, n)[i] = T[i]
  BY <1>1
<1>3. 0 \in 0..(PerSector - 1) /\ PerSector \in Nat
  BY SizesAre
<1>4. Nth(Len(T), 0) \in 1..Len(Z) /\ Z[Nth(Len(T), 0)] = <<n, 0>>
  <2>1. Len(T) \in 0..(Len(Table(u, s)) - 1)
    BY <1>1, <1>2
  <2> QED BY <1>1, <1>2, <1>3, <2>1, SlotNumbers
<1>5. Nth(Len(T), 0) = Len(S) + 1 /\ Len(S) \in Nat
  <2>1. Len(S) = Len(T) * PerSector /\ Len(S) \in Nat
    BY SlotsCount
  <2> HIDE DEF T, S
  <2> QED BY <1>1, <1>3, <2>1 DEF Nth
<1>6. ASSUME NEW k \in 1..Len(S) PROVE Z[k] = S[k] /\ EntryAt(u, Z[k]).name \notin Marks
  <2>1. PICK q \in 0..(Len(Table(v, s)) - 1), j \in 0..(PerSector - 1) :
              k = Nth(q, j) /\ Slots(v, s)[k] = <<Table(v, s)[q + 1], j>>
    <3> HIDE DEF T, S, Z
    <3>1. k \in 1..Len(Slots(v, s))
      BY <1>6 DEF S
    <3> QED BY <3>1, SlotNumbered
  <2>2. q \in 0..(Len(Table(u, s)) - 1) /\ q + 1 \in 1..Len(T)
    BY <1>1, <1>2
  <2>3. Z[Nth(q, j)] = <<Table(u, s)[q + 1], j>>
    BY <2>2, SlotNumbers
  <2>4. Z[k] = S[k]
    BY <1>2, <2>1, <2>2, <2>3
  <2>5. EntryAt(u, S[k]) = EntryAt(v, S[k])
    BY DEF EntryAt
  <2> QED BY <1>6, <2>4, <2>5
<1>7. EntryAt(u, <<n, 0>>).name \in Marks
  <2>1. EntryAt(u, <<n, 0>>) = Unused
    BY <1>3 DEF EntryAt, Blank
  <2> QED BY <2>1 DEF Unused, Marks
<1> HIDE DEF T, S, Z
<1>8. \A k \in 1..Len(Z) : k < Len(S) + 1 => k \in 1..Len(S)
  BY <1>5
<1> QED BY <1>4, <1>5, <1>6, <1>7, <1>8 DEF FirstFree, Z

LEMMA FirstMark ==
    ASSUME NEW v \in Image, Linked(v.fat), NEW s, HasTable(v, s)
    PROVE  LET n == FirstSlot(v, s, Marks)
               S == Slots(v, s)
           IN  /\ n <= Len(S) => FirstFree(v, s, S[n]) /\ n \in 1..Len(S)
               /\ ~(n <= Len(S)) => \A k \in 1..Len(S) : EntryAt(v, S[k]).name \notin Marks
<1> DEFINE n == FirstSlot(v, s, Marks)
           S == Slots(v, s)
<1>1. /\ n \in 1..(Len(S) + 1) /\ Len(S) \in Nat
      /\ n <= Len(S) => EntryAt(v, S[n]).name \in Marks
      /\ \A k \in 1..Len(S) : k < n => EntryAt(v, S[k]).name \notin Marks
  BY FirstSlotIs, SlotsAre
<1> HIDE DEF n
<1>2. n <= Len(S) => FirstFree(v, s, S[n]) /\ n \in 1..Len(S)
  BY <1>1 DEF FirstFree
<1> QED BY <1>1, <1>2 DEF n

\* The results of dir_register: there is no place, or the entry is put into the
\* first free slot of a volume that is as v but for a longer table.
Registers(g, V, W, C, F, v, D, R, s, e) ==
    \/ ~g.ok /\ Steady(g.t, V, W, C, F, v)
    \/ g.ok /\ \E u, p : /\ u \in From(v, D, R) /\ Steady(p, V, W, C, F, u)
                         /\ FirstFree(u, s, g.at) /\ g.t = PutEntry(p, g.at, e)

LEMMA RegisterIs ==
    ASSUME NEW V, NEW W, NEW C, NEW F, NEW v, NEW t, Steady(t, V, W, C, F, v),
           NEW D, Single(v, D), NEW R, \A d \in R : Proper(v.fat, d), From(v, D, R) \subseteq V,
           NEW s \in D, Base(v, s) \notin R, NEW e
    PROVE  Registers(dir_register(t, s, e), V, W, C, F, v, D, R, s, e)
<1> DEFINE n == FirstSlot(v, s, Marks)
           S == Slots(v, s)
           p == Visit(t, s, n)
           g == dir_register(t, s, e)
           a == Stretch(p, s)
<1>1. Forest(v, D) /\ v \in Image /\ Linked(v.fat) /\ t.now.vol = v /\ HasTable(v, s) /\ RawOk(v)
  BY DEF Single, Forest, Steady, IsTree, RawOk
<1>2. Steady(p, V, W, C, F, v)
  BY SteadyMove DEF Visit
<1>3. g = IF n <= Len(S) THEN [t |-> PutEntry(p, S[n], e), ok |-> TRUE, at |-> S[n]]
          ELSE IF IsStatic(v, s) THEN [t |-> p, ok |-> FALSE, at |-> <<0, 0>>]
          ELSE RegisterIn(a, e)
  BY <1>1 DEF dir_register
<1>4. /\ n <= Len(S) => FirstFree(v, s, S[n])
      /\ ~(n <= Len(S)) => \A k \in 1..Len(S) : EntryAt(v, S[k]).name \notin Marks
  BY <1>1, FirstMark
<1>5. v \in From(v, D, R)
  BY <1>1, FromItself
<1> HIDE DEF n, p, g
<1>6. CASE n <= Len(S)
  <2>1. g.ok /\ g.at = S[n] /\ g.t = PutEntry(p, S[n], e) /\ FirstFree(v, s, S[n])
    BY <1>3, <1>4, <1>6
  <2> QED BY <1>2, <1>5, <2>1 DEF Registers, g
<1>7. CASE ~(n <= Len(S)) /\ IsStatic(v, s)
  <2>1. ~g.ok /\ g.t = p
    BY <1>3, <1>7
  <2> QED BY <1>2, <2>1 DEF Registers, g
<1>8. CASE ~(n <= Len(S)) /\ ~IsStatic(v, s)
  <2>1. Stretched(a, V, W, C, F, v, D, R, Base(v, s))
    BY <1>2, <1>8, StretchIs
  <2>2. g = RegisterIn(a, e)
    BY <1>3, <1>8
  <2> HIDE DEF a
  <2>3. CASE a.r = 0 /\ Steady(a.t, V, W, C, F, v)
    <3>1. ~g.ok /\ g.t = a.t
      BY <2>2, <2>3 DEF RegisterIn
    <3> QED BY <2>3, <3>1 DEF Registers, g
  <2>4. ASSUME NEW u, NextIs(v, D, R, Base(v, s), a.r, u), Steady(a.t, V, W, C, F, u)
        PROVE  Registers(g, V, W, C, F, v, D, R, s, e)
    <3>1. a.r \in Clusters /\ a.r > 1
      BY <2>4, ClustersAre DEF NextIs, Clusters
    <3>2. g.ok /\ g.at = <<a.r, 0>> /\ g.t = PutEntry(a.t, <<a.r, 0>>, e)
      BY <2>2, <3>1 DEF RegisterIn
    <3>3. /\ u \in From(v, D, R) /\ u.tab = v.tab /\ u.tab[a.r] = Blank
          /\ Table(u, s) = Append(Table(v, s), a.r)
      BY <1>8, <2>4 DEF NextIs
    <3>4. u \in Image /\ Linked(u.fat) /\ HasTable(u, s)
      BY <3>3 DEF From, Single, Forest, IsTree
    <3>5. \A k \in 1..Len(S) : EntryAt(v, S[k]).name \notin Marks
      BY <1>4, <1>8
    <3>6. FirstFree(u, s, <<a.r, 0>>)
      BY <1>1, <3>3, <3>4, <3>5, FreshSlot
    <3> QED BY <2>4, <3>2, <3>3, <3>6 DEF Registers
  <2> QED BY <2>1, <2>3, <2>4 DEF Stretched, g
<1> QED BY <1>6, <1>7, <1>8

----------------------------------------------------------------------------
(* Paths *)

\* What is in the slots of a directory: a directory leads to directories.
LEMMA SlotLeads ==
    ASSUME NEW v, NEW D, Single(v, D), NEW s \in D, NEW at \in SlotsOf(v, s)
    PROVE  LET e == EntryAt(v, at)
           IN  /\ e \in Entry
               /\ e.dir => e.clust \in D
               /\ e.name \in Names => at \in Live(v, s)
               /\ e.name \in Dots => e.dir
<1> DEFINE e == EntryAt(v, at)
<1>1. Forest(v, D) /\ v \in Image /\ Linked(v.fat) /\ HasTable(v, s)
  BY DEF Single, Forest, IsTree
<1>2. e \in Entry
  BY <1>1, SlotsTyped
<1> HIDE DEF e
<1>3. e.name \in Names => at \in Live(v, s)
  BY <1>2, EntryTypes DEF Live, e
<1>4. ASSUME e.name \in Dots PROVE e.dir /\ e.clust \in D
  <2>1. s # 0 /\ at \in {<<s, 0>>, <<s, 1>>}
    BY <1>1, <1>4 DEF Forest, DotsInPlace, IsDot, e
  <2>2. PICK t \in D : \E bt \in Live(v, t) : EntryAt(v, bt).dir /\ EntryAt(v, bt).clust = s
    BY <1>1, <2>1, DirNamed DEF Forest
  <2>3. BackFrom(v, t, s)
    BY <2>2 DEF Single, AllBack
  <2>4. e = Dir(".", s) \/ e = Dir("..", t)
    BY <2>1, <2>3 DEF BackFrom, EntryAt, e
  <2>5. e.dir = TRUE /\ e.clust \in {s, t}
    BY <2>4 DEF Dir
  <2> QED BY <2>5
<1>5. ASSUME e.dir PROVE e.clust \in D
  <2>1. e.name \in Names \/ e.name \in Dots
    <3>1. Unused.dir = FALSE /\ Deleted.dir = FALSE
      BY DEF Unused, Deleted
    <3>2. e \notin {Unused, Deleted}
      BY <1>5, <3>1
    <3> QED BY <1>2, <3>2, EntryTypes DEF IsLive
  <2>2. CASE e.name \in Names
    BY <1>1, <1>3, <1>5, <2>2 DEF Forest, IsTree, e
  <2> QED BY <1>4, <2>1, <2>2
<1> QED BY <1>2, <1>3, <1>4, <1>5 DEF e

\* What dir_find finds, or does not.
Finds(f, V, W, C, F, v, s, name) ==
    /\ Steady(f.t, V, W, C, F, v) /\ f.ok \in BOOLEAN
    /\ f.ok => f.at \in SlotsOf(v, s) /\ f.e = EntryAt(v, f.at) /\ f.e.name = name
    /\ ~f.ok => /\ f.at = <<0, 0>> /\ f.e = Unused
                /\ name \in Names => \A x \in Live(v, s) : EntryAt(v, x).name # name

LEMMA FindIs ==
    ASSUME NEW V, NEW W, NEW C, NEW F, NEW v, NEW t, Steady(t, V, W, C, F, v),
           NEW D, Single(v, D), NEW s \in D, NEW name
    PROVE  Finds(dir_find(t, s, name), V, W, C, F, v, s, name)
<1> DEFINE S == Slots(v, s)
           n == FirstSlot(v, s, {name, "0"})
           f == dir_find(t, s, name)
           ok == n <= Len(S) /\ EntryAt(v, S[n]).name = name
<1>1. /\ Forest(v, D) /\ v \in Image /\ Linked(v.fat) /\ HasTable(v, s) /\ Ordered(v, s)
      /\ t.now.vol = v
  BY DEF Single, Forest, IsTree, Steady
<1>2. /\ n \in 1..(Len(S) + 1) /\ Len(S) \in Nat
      /\ n <= Len(S) => EntryAt(v, S[n]).name \in {name, "0"}
      /\ \A k \in 1..Len(S) : k < n => EntryAt(v, S[k]).name \notin {name, "0"}
  BY <1>1, FirstSlotIs, SlotsAre
<1>3. /\ f.t = Visit(t, s, n) /\ f.ok = ok
      /\ f.at = (IF ok THEN S[n] ELSE <<0, 0>>)
      /\ f.e = (IF ok THEN EntryAt(v, S[n]) ELSE Unused)
  BY <1>1 DEF dir_find, FindIn
<1>4. Steady(Visit(t, s, n), V, W, C, F, v)
  BY SteadyMove DEF Visit
<1>5. /\ \A k \in 1..Len(S) : S[k] \in SlotsOf(v, s)
      /\ \A at \in SlotsOf(v, s) : \E k \in 1..Len(S) : S[k] = at
  BY <1>1, SlotsAre
<1> HIDE DEF n, f
<1>6. ASSUME ~ok, name \in Names, NEW x \in Live(v, s) PROVE EntryAt(v, x).name # name
  <2>1. PICK k \in 1..Len(S) : S[k] = x
    BY <1>5 DEF Live
  <2>2. name # "0"
    BY <1>6, NamesAssumption DEF Marks
  <2>3. CASE k < n
    BY <1>2, <2>1, <2>3
  <2>4. CASE ~(k < n)
    <3>1. n \in 1..Len(S) /\ n <= k /\ EntryAt(v, S[n]).name = "0"
      BY <1>2, <1>6, <2>4
    <3>2. EntryAt(v, S[k]) = Unused
      BY <1>1, <3>1 DEF Ordered
    <3> QED BY <2>1, <2>2, <3>2 DEF Unused
  <2> QED BY <2>3, <2>4
<1>7. ok => n \in 1..Len(S)
  BY <1>2
<1> HIDE DEF S
<1>8. CASE ok
  <2>1. f.ok /\ f.at \in SlotsOf(v, s) /\ f.e = EntryAt(v, f.at) /\ f.e.name = name
    BY <1>3, <1>5, <1>7, <1>8
  <2>2. f.ok \in BOOLEAN
    BY <1>3
  <2> QED BY <1>3, <1>4, <2>1, <2>2 DEF Finds, f
<1>9. CASE ~ok
  <2>1. ~f.ok /\ f.at = <<0, 0>> /\ f.e = Unused
    BY <1>3, <1>9
  <2>2. f.ok \in BOOLEAN
    BY <1>3
  <2> QED BY <1>3, <1>4, <1>6, <1>9, <2>1, <2>2 DEF Finds, f
<1> QED BY <1>8, <1>9

\* A function defined by the recursion that step describes.
Recurs(X, x0, step) ==
    \E f \in [Nat -> X] : f = [n \in Nat |-> IF n = 0 THEN x0 ELSE step[n][f[n - 1]]]

LEMMA Recursion ==
    ASSUME NEW X, NEW x0 \in X, NEW step \in [Nat -> [X -> X]]
    PROVE  Recurs(X, x0, step)
<1>1. PICK f \in [Nat -> X] : f[0] = x0 /\ \A n \in Nat : f[n + 1] = step[n + 1][f[n]]
  BY Iterates
<1>2. ASSUME NEW n \in Nat PROVE f[n] = IF n = 0 THEN x0 ELSE step[n][f[n - 1]]
  <2>1. CASE n = 0
    BY <1>1, <2>1
  <2>2. CASE n # 0
    <3>1. n - 1 \in Nat /\ (n - 1) + 1 = n
      BY <2>2
    <3> QED BY <1>1, <2>2, <3>1
  <2> QED BY <2>1, <2>2
<1>3. f = [n \in Nat |-> IF n = 0 THEN x0 ELSE step[n][f[n - 1]]]
  BY <1>1, <1>2
<1> QED BY <1>3 DEF Recurs

\* Where a path leads so far, and where it ends.
Leads(g, V, W, C, F, v, D) ==
    /\ Steady(g.t, V, W, C, F, v)
    /\ g.res \in {"OK", "NO_FILE", "NO_PATH"} /\ g.s \in D
    /\ g.res = "OK" /\ g.e.dir => g.e.clust \in D

LeadsTo(g, V, W, C, F, v, D) ==
    /\ Leads(g, V, W, C, F, v, D)
    /\ g.res = "OK" => /\ g.at \in SlotsOf(v, g.s) /\ g.e = EntryAt(v, g.at)
                       /\ g.e.name = g.name
    /\ g.res # "OK" => g.at = <<0, 0>> /\ g.e = Unused
    /\ g.res = "NO_FILE" /\ g.name \in Names =>
          \A x \in Live(v, g.s) : EntryAt(v, x).name # g.name

LEMMA FollowIs ==
    ASSUME NEW V, NEW W, NEW C, NEW F, NEW v, NEW D, Single(v, D),
           NEW g, Leads(g, V, W, C, F, v, D), NEW name
    PROVE  LeadsTo(Follow(g, name), V, W, C, F, v, D) /\ Follow(g, name).name = name
<1> DEFINE f == dir_find(g.t, g.e.clust, name)
           h == Follow(g, name)
<1>1. CASE g.res = "OK" /\ g.e.dir
  <2>1. h = Found(f.t, IF f.ok THEN "OK" ELSE "NO_FILE", g.e.clust, f, name)
    BY <1>1 DEF Follow, FollowTo
  <2>2. h.t = f.t /\ h.res = (IF f.ok THEN "OK" ELSE "NO_FILE") /\ h.s = g.e.clust
        /\ h.at = f.at /\ h.e = f.e /\ h.name = name
    BY <2>1 DEF Found
  <2>3. g.e.clust \in D /\ Steady(g.t, V, W, C, F, v)
    BY <1>1 DEF Leads
  <2>4. Finds(f, V, W, C, F, v, g.e.clust, name)
    BY <2>3, FindIs
  <2> HIDE DEF f, h
  <2>5. CASE f.ok
    <3>1. f.at \in SlotsOf(v, h.s) /\ h.e = EntryAt(v, h.at) /\ h.e.name = h.name /\ h.at = f.at
          /\ Steady(h.t, V, W, C, F, v) /\ h.res = "OK" /\ h.s \in D
      BY <2>2, <2>3, <2>4, <2>5 DEF Finds
    <3>2. h.e.dir => h.e.clust \in D
      BY <3>1, SlotLeads
    <3> QED BY <2>2, <3>1, <3>2 DEF Leads, LeadsTo, h
  <2>6. CASE ~f.ok
    <3>1. /\ h.at = <<0, 0>> /\ h.e = Unused /\ h.name = name /\ h.res = "NO_FILE" /\ h.s \in D
          /\ Steady(h.t, V, W, C, F, v)
          /\ name \in Names => \A x \in Live(v, h.s) : EntryAt(v, x).name # name
      BY <2>2, <2>3, <2>4, <2>6 DEF Finds
    <3> QED BY <3>1 DEF Leads, LeadsTo, h
  <2> QED BY <2>5, <2>6
<1>2. CASE ~(g.res = "OK" /\ g.e.dir)
  <2>1. h = Found(g.t, "NO_PATH", g.s, Nowhere, name)
    BY <1>2 DEF Follow, FollowTo
  <2>2. h.t = g.t /\ h.res = "NO_PATH" /\ h.s = g.s
        /\ h.at = <<0, 0>> /\ h.e = Unused /\ h.name = name
    BY <2>1 DEF Found, Nowhere
  <2> HIDE DEF h
  <2> QED BY <2>2 DEF Leads, LeadsTo, h
<1> QED BY <1>1, <1>2

\* The results of follow_path.
PathIs(f, V, W, C, F, v, D, p) ==
    IF p.segs = <<>>
    THEN /\ Steady(f.t, V, W, C, F, v) /\ f.res = "OK" /\ f.s \in D
         /\ f.at = <<0, 0>> /\ f.e = Unused
    ELSE LeadsTo(f, V, W, C, F, v, D) /\ f.name \in Names \cup Dots /\ f.name = Last(p.segs)

LEMMA FollowPathIs ==
    ASSUME NEW V, NEW W, NEW C, NEW F, NEW v, NEW t, Steady(t, V, W, C, F, v),
           NEW D, Single(v, D), C \subseteq D, NEW p \in Paths
    PROVE  PathIs(follow_path(t, p), V, W, C, F, v, D, p)
<1> DEFINE s == IF p.abs THEN 0 ELSE t.now.cdir
           g0 == Found(t, "OK", s, [Nowhere EXCEPT !.e = Dir("", s)], "")
           up == CHOOSE u : u = [n \in Nat |-> IF n = 0 THEN g0 ELSE Follow(u[n - 1], p.segs[n])]
           L == Len(p.segs)
<1>1. p.segs \in Seq(Names \cup Dots) /\ p.abs \in BOOLEAN /\ L \in Nat
  BY NamesAssumption
<1>2. s \in D
  <2>1. 0 \in D
    BY DEF Single, Forest, IsTree
  <2>2. t.now.cdir \in C
    BY SteadyIs
  <2> QED BY <2>1, <2>2
<1>3. follow_path(t, p) = IF p.segs = <<>> THEN Found(t, "OK", s, Nowhere, "") ELSE up[L]
  BY DEF follow_path
<1>4. Leads(g0, V, W, C, F, v, D)
  <2> DEFINE k == [Nowhere EXCEPT !.e = Dir("", s)]
  <2>1. g0.t = t /\ g0.res = "OK" /\ g0.s = s /\ g0.e = k.e
    BY DEF Found
  <2>2. k.e.clust = s
    BY DEF Nowhere, Dir
  <2> HIDE DEF g0, s, k
  <2> QED BY <1>2, <2>1, <2>2 DEF Leads
<1> DEFINE M == Machines(V, W, C, F)
           TT == [now : M, seen : SUBSET M]
           AA == (Tables \cup {0}) \X (0..(PerSector - 1))
           NN == {""} \cup {p.segs[n] : n \in Nat}
           GG == [t : TT, res : {"OK", "NO_FILE", "NO_PATH"}, s : D, at : AA,
                  e : Entry \cup {Dir("", s)}, name : NN]
           X == {g \in GG : Leads(g, V, W, C, F, v, D)}
           step == [n \in Nat |-> [g \in X |-> Follow(g, p.segs[n])]]
<1>5. \A x : Steady(x, V, W, C, F, v) => x \in TT
  BY DEF Steady, Passing
<1>6. <<0, 0>> \in AA /\ Unused \in Entry /\ \A z \in D : SlotsOf(v, z) \subseteq AA
  <2>1. \A z \in D : SlotsOf(v, z) \subseteq Tables \X (0..(PerSector - 1))
    BY SlotsTyped DEF Single, Forest, IsTree
  <2> QED BY <2>1, SizesAre DEF Entry
<1>7. g0 \in X
  <2>1. g0 \in GG
    <3>1. g0 = [t |-> t, res |-> "OK", s |-> s, at |-> <<0, 0>>, e |-> Dir("", s), name |-> ""]
      BY DEF Found, Nowhere
    <3>2. t \in TT
      BY <1>5
    <3> HIDE DEF g0, TT, AA, NN, s
    <3> QED BY <1>2, <1>6, <3>1, <3>2 DEF NN
  <2> QED BY <1>4, <2>1
<1>8. ASSUME NEW n \in Nat, NEW g \in X PROVE Follow(g, p.segs[n]) \in X
  <2> DEFINE h == Follow(g, p.segs[n])
  <2>1. LeadsTo(h, V, W, C, F, v, D) /\ h.name = p.segs[n]
    <3>1. Leads(g, V, W, C, F, v, D)
      <4> HIDE DEF GG
      <4> QED OBVIOUS
    <3> HIDE DEF X
    <3> QED BY <3>1, FollowIs
  <2>2. h = [t |-> h.t, res |-> h.res, s |-> h.s, at |-> h.at, e |-> h.e, name |-> h.name]
    BY DEF Follow, FollowTo, Found
  <2> HIDE DEF h
  <2>3. h.t \in TT /\ h.res \in {"OK", "NO_FILE", "NO_PATH"} /\ h.s \in D /\ h.name \in NN
    BY <1>5, <2>1 DEF LeadsTo, Leads
  <2>4. h.at \in AA
    BY <1>6, <2>1, <2>3 DEF LeadsTo
  <2>5. h.e \in Entry
    <3>1. CASE h.res = "OK"
      <4>1. h.at \in SlotsOf(v, h.s) /\ h.e = EntryAt(v, h.at)
        BY <2>1, <3>1 DEF LeadsTo
      <4>2. EntryAt(v, h.at) \in Entry
        BY ONLY Single(v, D), <2>3, <4>1, SlotLeads
      <4> QED BY <4>1, <4>2
    <3>2. CASE h.res # "OK"
      BY <1>6, <2>1, <3>2 DEF LeadsTo
    <3> QED BY <3>1, <3>2
  <2>6. h \in GG
    <3> HIDE DEF TT, AA, NN
    <3> QED BY <2>2, <2>3, <2>4, <2>5
  <2> QED BY <2>1, <2>6 DEF LeadsTo, h
<1> HIDE DEF GG, TT, AA, NN, g0
<1>9. step \in [Nat -> [X -> X]]
  <2> HIDE DEF X
  <2> QED BY <1>8
<1>10. up = [n \in Nat |-> IF n = 0 THEN g0 ELSE Follow(up[n - 1], p.segs[n])]
  <2>1. PICK f \in [Nat -> X] : f = [n \in Nat |-> IF n = 0 THEN g0 ELSE step[n][f[n - 1]]]
    <3> HIDE DEF X, step
    <3>1. Recurs(X, g0, step)
      BY ONLY <1>7, <1>9, Recursion
    <3> QED BY <3>1 DEF Recurs
  <2>2. ASSUME NEW n \in Nat PROVE f[n] = IF n = 0 THEN g0 ELSE Follow(f[n - 1], p.segs[n])
    <3>1. CASE n = 0
      BY <2>1, <3>1
    <3>2. CASE n # 0
      <4>1. n - 1 \in Nat /\ f[n - 1] \in X
        BY <2>1, <3>2
      <4>2. f[n] = step[n][f[n - 1]]
        <5> HIDE DEF step
        <5> QED BY <2>1, <3>2
      <4>3. step[n][f[n - 1]] = Follow(f[n - 1], p.segs[n])
        <5> HIDE DEF X
        <5> QED BY <4>1
      <4> QED BY <3>2, <4>2, <4>3
    <3> QED BY <3>1, <3>2
  <2>3. f = [n \in Nat |-> IF n = 0 THEN g0 ELSE Follow(f[n - 1], p.segs[n])]
    <3>1. f = [n \in Nat |-> f[n]]
      <4> HIDE DEF X
      <4> QED BY <2>1
    <3> QED BY <2>2, <3>1
  <2>4. \E u : u = [n \in Nat |-> IF n = 0 THEN g0 ELSE Follow(u[n - 1], p.segs[n])]
    BY <2>3
  <2> QED BY <2>4
<1> HIDE DEF up
<1>11. ASSUME NEW n \in Nat PROVE up[n + 1] = Follow(up[n], p.segs[n + 1])
  <2>1. n + 1 \in Nat /\ n + 1 # 0 /\ (n + 1) - 1 = n
    OBVIOUS
  <2> QED BY <1>10, <2>1
<1>12. \A n \in Nat : up[n] \in X
  <2>1. up[0] = g0
    BY <1>10
  <2>2. \A n \in Nat : up[n] \in X => up[n + 1] = step[n + 1][up[n]]
    <3> SUFFICES ASSUME NEW n \in Nat, up[n] \in X PROVE up[n + 1] = step[n + 1][up[n]]
      OBVIOUS
    <3>1. n + 1 \in Nat
      OBVIOUS
    <3>2. step[n + 1][up[n]] = Follow(up[n], p.segs[n + 1])
      <4> HIDE DEF X
      <4> QED BY <3>1
    <3> QED BY <1>11, <3>2
  <2> HIDE DEF X, step
  <2> QED BY ONLY <1>7, <1>9, <2>1, <2>2, StaysIn
<1>13. CASE p.segs = <<>>
  <2> DEFINE h == follow_path(t, p)
  <2>1. h = Found(t, "OK", s, Nowhere, "")
    BY <1>3, <1>13
  <2> HIDE DEF s, h
  <2>2. h.t = t /\ h.res = "OK" /\ h.s = s /\ h.at = Nowhere.at /\ h.e = Nowhere.e
    BY <2>1 DEF Found
  <2> HIDE DEF h
  <2>3. PathIs(h, V, W, C, F, v, D, p)
    BY <1>2, <1>13, <2>2 DEF PathIs, Nowhere
  <2> QED BY <2>3 DEF h
<1>14. CASE p.segs # <<>>
  <2>1. L > 0 /\ L - 1 \in Nat /\ (L - 1) + 1 = L /\ p.segs[L] \in Names \cup Dots
    BY <1>1, <1>14
  <2> HIDE DEF L
  <2>2. up[L] = Follow(up[L - 1], p.segs[L])
    <3>1. up[(L - 1) + 1] = Follow(up[L - 1], p.segs[(L - 1) + 1])
      BY <1>11, <2>1
    <3> QED BY <2>1, <3>1
  <2>3. Leads(up[L - 1], V, W, C, F, v, D)
    BY <1>12, <2>1
  <2>4. LeadsTo(up[L], V, W, C, F, v, D) /\ up[L].name = p.segs[L]
    BY <2>2, <2>3, FollowIs
  <2>5. follow_path(t, p) = up[L]
    BY <1>3, <1>14
  <2> QED BY <1>14, <2>1, <2>4, <2>5 DEF PathIs, Last, L
<1> QED BY <1>13, <1>14

----------------------------------------------------------------------------
(* Chains that are removed *)

\* The volumes with the entries of v and its chains, but for the one that starts at c.
Less(v, D, c) ==
    {u \in Image : /\ Single(u, D) /\ Alike(v, u, D) /\ u.raw = v.raw
                   /\ \A d : Proper(v.fat, d) /\ d # c => Spared(v, u, d)}

\* On the way along the chain: g.c is to be freed next.
Freeing(g, V, W, C, F, t, D, c) ==
    /\ Passing(g.t, Machines(V, W, C, F)) /\ g.t.now.vol \in Less(t.now.vol, D, c)
    /\ g.t.now.cdir = t.now.cdir /\ g.t.now.fil = t.now.fil
    /\ t.now.vol.raw = {} /\ t.now.disk.raw = {} => g.t.now.disk.raw = {}
    /\ g.c \in Clusters /\ g.t.now.vol.fat[g.c] # 0 => Loose(g.t.now.vol, D, g.c)
    /\ \A d : Proper(t.now.vol.fat, d) /\ d # c => d # g.c

LEMMA SparedBoth ==
    ASSUME NEW u, NEW v, NEW w, NEW d, Spared(u, v, d), Spared(v, w, d)
    PROVE  Spared(u, w, d)
BY DEF Spared

LEMMA FreeStep ==
    ASSUME NEW V, NEW W, NEW C, NEW F, V \subseteq W, NEW t, NEW D, NEW c,
           Less(t.now.vol, D, c) \subseteq V,
           NEW g, Freeing(g, V, W, C, F, t, D, c), g.c \in Clusters, g.t.now.vol.fat[g.c] # 0,
           NEW h, h = [t |-> Free(g.t, g.c), c |-> g.t.now.vol.fat[g.c]]
    PROVE  Freeing(h, V, W, C, F, t, D, c) /\ h.c \in Clusters \cup {0, Eoc}
<1> DEFINE u == g.t.now.vol
           w == WithFree(u, g.c)
           v == t.now.vol
           n == g.t.now
<1>1. u \in Less(v, D, c) /\ Passing(g.t, Machines(V, W, C, F)) /\ Loose(u, D, g.c)
  BY DEF Freeing
<1>2. Single(u, D) /\ u \in Image /\ Alike(v, u, D) /\ u.raw = v.raw
      /\ \A d : Proper(v.fat, d) /\ d # c => Spared(v, u, d)
  BY <1>1 DEF Less
<1>3. u.fat[g.c] \in Clusters \cup {0, Eoc}
  <2>1. u.fat \in Fats
    BY <1>2, ImageIs
  <2> HIDE DEF u
  <2> QED BY <2>1 DEF Fats
<1>4. h.t = Write(g.t, FatOf(g.c), w) /\ h.c = u.fat[g.c]
  BY DEF Free, WithFree
<1>5. /\ Single(w, D) /\ Alike(u, w, D) /\ w.raw = u.raw /\ w.fat[g.c] = 0
      /\ u.fat[g.c] \in Clusters => Loose(w, D, u.fat[g.c]) /\ u.fat[g.c] # g.c
      /\ \A d : Proper(u.fat, d) /\ d # g.c => Spared(u, w, d) /\ d # u.fat[g.c]
  <2> DEFINE b == g.c
  <2>1. w = WithFree(u, b) /\ Single(u, D) /\ Loose(u, D, b)
    BY <1>1, <1>2
  <2> HIDE DEF u, w, b
  <2>2. /\ Single(w, D) /\ Alike(u, w, D) /\ w.raw = u.raw /\ w.fat[b] = 0
        /\ u.fat[b] \in Clusters => Loose(w, D, u.fat[b]) /\ u.fat[b] # b
        /\ \A d : Proper(u.fat, d) /\ d # b => Spared(u, w, d) /\ d # u.fat[b]
    BY ONLY <2>1, Freed
  <2> QED BY <2>2 DEF b
<1> HIDE DEF w, u, v
<1>6. \A d : Proper(v.fat, d) /\ d # c => Spared(v, w, d) /\ d # h.c
  <2> SUFFICES ASSUME NEW d, Proper(v.fat, d), d # c PROVE Spared(v, w, d) /\ d # h.c
    OBVIOUS
  <2>1. Spared(v, u, d) /\ d # g.c
    BY <1>2 DEF Freeing, v
  <2>2. Proper(u.fat, d)
    BY <2>1 DEF Spared
  <2> QED BY <1>4, <1>5, <2>1, <2>2, SparedBoth
<1>7. w \in Less(v, D, c)
  <2>1. Alike(v, w, D)
    BY <1>2, <1>5, AlikeBoth
  <2>2. w \in Image
    BY <1>5 DEF Single, Forest
  <2> QED BY <1>2, <1>5, <1>6, <2>1, <2>2 DEF Less
<1>8. Written(h.t, g.t, V, W, C, F, w)
  <2>1. FatOf(g.c) \in Windows
    BY WindowsAre
  <2>2. Written(Write(g.t, FatOf(g.c), w), g.t, V, W, C, F, w)
    BY ONLY <1>1, <2>1, V \subseteq W, WriteIs
  <2> QED BY <1>4, <2>2
<1>9. Passing(h.t, Machines(V, W, C, F))
  <2>1. w \in V
    BY <1>7 DEF v
  <2>2. Machines({w}, W, C, F) \subseteq Machines(V, W, C, F)
    BY ONLY <2>1, MachinesMore
  <2> QED BY <1>8, <2>2 DEF Written, Passing
<1>10. h.t.now.vol = w /\ h.t.now.disk \in {g.t.now.disk, u} /\ h.t.now.cdir = t.now.cdir
       /\ h.t.now.fil = t.now.fil
  BY <1>8 DEF Written, Freeing, u
<1>11. t.now.vol.raw = {} /\ t.now.disk.raw = {} => h.t.now.disk.raw = {}
  BY <1>2, <1>10 DEF Freeing, v
<1>12. Freeing(h, V, W, C, F, t, D, c)
  BY <1>4, <1>5, <1>6, <1>7, <1>9, <1>10, <1>11 DEF Freeing, v
<1> QED BY <1>3, <1>4, <1>12 DEF u

\* The chain from c on is freed; all else is as it was.
RemovedFrom(u, V, W, C, F, t, D, c) ==
    /\ Passing(u, Machines(V, W, C, F)) /\ u.now.vol \in Less(t.now.vol, D, c)
    /\ u.now.cdir = t.now.cdir /\ u.now.fil = t.now.fil
    /\ t.now.vol.raw = {} /\ t.now.disk.raw = {} => u.now.disk.raw = {}

LEMMA RemoveChainIs ==
    ASSUME NEW V, NEW W, NEW C, NEW F, V \subseteq W, NEW t, Passing(t, Machines(V, W, C, F)),
           NEW D, Single(t.now.vol, D), NEW c \in Clusters \cup {0},
           Less(t.now.vol, D, c) \subseteq V,
           c \in Clusters => Loose(t.now.vol, D, c)
    PROVE  RemovedFrom(remove_chain(t, c), V, W, C, F, t, D, c)
<1> DEFINE g0 == [t |-> t, c |-> c]
           up == CHOOSE u : u = [n \in Nat |-> IF n = 0 THEN g0 ELSE FreeNext(u[n - 1])]
           M == Machines(V, W, C, F)
           TT == [now : M, seen : SUBSET M]
           GG == [t : TT, c : Clusters \cup {0, Eoc}]
           X == {g \in GG : Freeing(g, V, W, C, F, t, D, c)}
           step == [n \in Nat |-> [g \in X |-> FreeNext(g)]]
<1>1. remove_chain(t, c) = up[MaxClust].t
  BY DEF remove_chain
<1>2. \A x : Passing(x, M) => x \in TT
  BY DEF Passing
<1>3. g0 \in X
  <2>1. g0 \in GG /\ g0.t = t /\ g0.c = c
    BY <1>2
  <2> HIDE DEF g0, GG
  <2>2. t.now.vol \in Less(t.now.vol, D, c)
    <3> DEFINE v == t.now.vol
    <3>1. v \in Image /\ Single(v, D)
      BY DEF Single, Forest
    <3> HIDE DEF v
    <3>2. v \in Less(v, D, c)
      BY <3>1 DEF Less, Alike, Spared
    <3> QED BY <3>2 DEF v
  <2>3. Freeing(g0, V, W, C, F, t, D, c)
    BY <2>1, <2>2 DEF Freeing
  <2> QED BY <2>1, <2>3
<1> HIDE DEF g0
<1>4. ASSUME NEW g \in X PROVE FreeNext(g) \in X
  <2>1. g \in GG /\ Freeing(g, V, W, C, F, t, D, c)
    OBVIOUS
  <2>2. CASE g.c \in Clusters /\ g.t.now.vol.fat[g.c] # 0
    <3> DEFINE h == FreeNext(g)
    <3>1. h = [t |-> Free(g.t, g.c), c |-> g.t.now.vol.fat[g.c]]
      BY <2>2 DEF FreeNext
    <3> HIDE DEF h, GG, X
    <3>2. Freeing(h, V, W, C, F, t, D, c) /\ h.c \in Clusters \cup {0, Eoc}
      BY <2>1, <2>2, <3>1, FreeStep
    <3>3. h.t \in TT
      BY <1>2, <3>2 DEF Freeing
    <3>4. h = [t |-> h.t, c |-> h.c]
      BY <3>1
    <3>5. h \in GG
      <4> HIDE DEF TT
      <4> QED BY <3>2, <3>3, <3>4 DEF GG
    <3> QED BY <3>2, <3>5 DEF X, h
  <2>3. CASE ~(g.c \in Clusters /\ g.t.now.vol.fat[g.c] # 0)
    <3>1. FreeNext(g) = g
      BY <2>3 DEF FreeNext
    <3> QED BY <3>1
  <2> QED BY <2>2, <2>3
<1> HIDE DEF GG, TT
<1>5. step \in [Nat -> [X -> X]]
  <2> HIDE DEF X
  <2> QED BY <1>4
<1>6. up = [n \in Nat |-> IF n = 0 THEN g0 ELSE FreeNext(up[n - 1])]
  <2>1. PICK f \in [Nat -> X] : f = [n \in Nat |-> IF n = 0 THEN g0 ELSE step[n][f[n - 1]]]
    <3> HIDE DEF X, step
    <3>1. Recurs(X, g0, step)
      BY ONLY <1>3, <1>5, Recursion
    <3> QED BY <3>1 DEF Recurs
  <2>2. ASSUME NEW n \in Nat PROVE f[n] = IF n = 0 THEN g0 ELSE FreeNext(f[n - 1])
    <3>1. CASE n = 0
      BY <2>1, <3>1
    <3>2. CASE n # 0
      <4>1. n - 1 \in Nat /\ f[n - 1] \in X
        BY <2>1, <3>2
      <4>2. f[n] = step[n][f[n - 1]]
        <5> HIDE DEF step
        <5> QED BY <2>1, <3>2
      <4>3. step[n][f[n - 1]] = FreeNext(f[n - 1])
        <5> HIDE DEF X
        <5> QED BY <4>1
      <4> QED BY <3>2, <4>2, <4>3
    <3> QED BY <3>1, <3>2
  <2>3. f = [n \in Nat |-> IF n = 0 THEN g0 ELSE FreeNext(f[n - 1])]
    <3>1. f = [n \in Nat |-> f[n]]
      <4> HIDE DEF X
      <4> QED BY <2>1
    <3> QED BY <2>2, <3>1
  <2>4. \E u : u = [n \in Nat |-> IF n = 0 THEN g0 ELSE FreeNext(u[n - 1])]
    BY <2>3
  <2> QED BY <2>4
<1> HIDE DEF up
<1>7. \A n \in Nat : up[n] \in X
  <2>1. up[0] = g0
    BY <1>6
  <2>2. \A n \in Nat : up[n] \in X => up[n + 1] = step[n + 1][up[n]]
    <3> SUFFICES ASSUME NEW n \in Nat, up[n] \in X PROVE up[n + 1] = step[n + 1][up[n]]
      OBVIOUS
    <3>1. n + 1 \in Nat /\ n + 1 # 0 /\ (n + 1) - 1 = n
      OBVIOUS
    <3>2. step[n + 1][up[n]] = FreeNext(up[n])
      <4> HIDE DEF X
      <4> QED BY <3>1
    <3>3. up[n + 1] = FreeNext(up[n])
      BY <1>6, <3>1
    <3> QED BY <3>2, <3>3
  <2> HIDE DEF X, step
  <2> QED BY ONLY <1>3, <1>5, <2>1, <2>2, StaysIn
<1>8. MaxClust \in Nat
  BY SizesAssumption
<1>9. Freeing(up[MaxClust], V, W, C, F, t, D, c)
  BY <1>7, <1>8
<1> QED BY <1>1, <1>9 DEF Freeing, RemovedFrom

LEMMA HeldLess ==
    ASSUME NEW v, NEW D, Single(v, D), NEW f, Held(v, D, f), NEW c,
           f.open /\ f.org \in Clusters => f.org # c, NEW w \in Less(v, D, c)
    PROVE  Held(w, D, f)
<1>1. w.dirbase = v.dirbase
  BY DEF Less, Alike
<1>2. v.fat \in Fats /\ Linked(v.fat) /\ w.fat \in Fats /\ Linked(w.fat) /\ v \in Image
  BY ImageIs DEF Less, Single, Forest
<1>3. f.open /\ f.org \in Clusters => Grown(v, w, f.org)
  <2> SUFFICES ASSUME f.open, f.org \in Clusters PROVE Grown(v, w, f.org)
    OBVIOUS
  <2> DEFINE d == f.org
  <2>1. Proper(v.fat, d) /\ Spared(v, w, d)
    BY DEF Less, Held, OwnsStart
  <2> HIDE DEF d
  <2>2. Grown(v, w, d)
    BY ONLY <1>2, <2>1, SparedGrown
  <2> QED BY <2>2 DEF d
<1>4. \A s \in D : f.open /\ f.at \in Live(v, s) =>
               s \in D /\ f.at \in Live(w, s) /\ EntryAt(w, f.at) = EntryAt(v, f.at)
  BY DEF Less, Alike
<1>5. \A s \in D : \A at \in Live(w, s) :
               f.open /\ at # f.at /\ EntryAt(w, at).clust = f.org /\ f.org \in Clusters =>
                   \E t \in D : \E bt \in Live(v, t) :
                       bt # f.at /\ EntryAt(v, bt).clust = f.org
  BY DEF Less, Alike
<1> QED BY ONLY <1>1, <1>2, <1>3, <1>4, <1>5, Held(v, D, f), HeldKept

\* What is part of nothing stays so.
LEMMA LooseFrom ==
    ASSUME NEW v, NEW D, NEW c, Loose(v, D, c), NEW R, NEW u \in From(v, D, R)
    PROVE  Loose(u, D, c)
<1>1. Proper(u.fat, c)
  BY DEF Loose, From, Grown
<1>2. ~Owner(u, D, c)
  BY DEF Loose, From, Owner, Alike
<1> QED BY <1>1, <1>2 DEF Loose

----------------------------------------------------------------------------
(* The state at a call *)

FILs == [open : BOOLEAN, at : Slot, org : Clusters \cup {0, Bad},
         cur : Clusters \cup {0}, written : BOOLEAN, err : BOOLEAN]

\* The volumes on which the directories C are directories and the files F are sound.
Cards == {v \in Image : RawOk(v) /\ \E D : Single(v, D)}
Calm(C, F) ==
    {v \in Image : RawOk(v) /\ \E D : Single(v, D) /\ C \subseteq D /\ \A f \in F : Held(v, D, f)}

LEMMA CalmCards ==
    ASSUME NEW C, NEW F
    PROVE  Calm(C, F) \subseteq Cards
BY DEF Calm, Cards

LEMMA FromCalm ==
    ASSUME NEW v, NEW D, Single(v, D), NEW C, C \subseteq D, NEW F, \A f \in F : Held(v, D, f),
           NEW R
    PROVE  From(v, D, R) \subseteq Calm(C, F)
<1> SUFFICES ASSUME NEW u \in From(v, D, R) PROVE u \in Calm(C, F)
  OBVIOUS
<1>1. \A f \in F : Held(u, D, f)
  BY HeldFrom
<1> QED BY <1>1 DEF Calm, From

LEMMA LessCalm ==
    ASSUME NEW v, NEW D, Single(v, D), RawOk(v), NEW C, C \subseteq D, NEW F,
           NEW c, \A f \in F : Held(v, D, f) /\ (f.open /\ f.org \in Clusters => f.org # c)
    PROVE  Less(v, D, c) \subseteq Calm(C, F)
<1> SUFFICES ASSUME NEW u \in Less(v, D, c) PROVE u \in Calm(C, F)
  OBVIOUS
<1>1. \A f \in F : Held(u, D, f)
  BY HeldLess
<1>2. RawOk(u)
  BY DEF RawOk, Less
<1> QED BY <1>1, <1>2 DEF Calm, Less

\* The state at a call: the volume is in order, with the directories D, and no
\* table is left uncleared.
Standing(D) ==
    /\ m \in Machines({m.vol}, Cards, {m.cdir}, {m.fil}) /\ m.fil \in FILs
    /\ Single(m.vol, D) /\ m.vol.raw = {} /\ m.disk.raw = {}
    /\ m.cdir \in D /\ Held(m.vol, D, m.fil)

LEMMA StartIs ==
    ASSUME NEW D, Standing(D), NEW V, NEW W, m.vol \in V, V \subseteq W, Cards \subseteq W,
           NEW C, m.cdir \in C, NEW F, m.fil \in F
    PROVE  Steady(Start, V, W, C, F, m.vol) /\ Start.now = m
<1>1. Start = [now |-> m, seen |-> {m}]
  BY DEF Start, At
<1>2. Machines({m.vol}, Cards, {m.cdir}, {m.fil}) \subseteq Machines(V, W, C, F)
  <2>1. {m.vol} \subseteq V /\ {m.cdir} \subseteq C /\ {m.fil} \subseteq F
    OBVIOUS
  <2> QED BY ONLY <2>1, Cards \subseteq W, MachinesMore
<1>3. m \in Machines(V, W, C, F)
  BY <1>2 DEF Standing
<1>4. Start.now = m /\ Start.seen = {m}
  BY <1>1
<1>5. Passing(Start, Machines(V, W, C, F))
  BY <1>1, <1>3, <1>4 DEF Passing
<1> QED BY <1>4, <1>5 DEF Steady, Standing

----------------------------------------------------------------------------
(* The calls: f_chdir *)

\* What every machine of a run, and what is left of it after an error, is like.
Fits ==
    {n \in Machines(Image, Image, Clusters \cup {0}, FILs) :
        /\ RawOk(n.vol) /\ RawOk(n.disk) /\ n.disk \in Cards
        /\ \E D : Single(n.vol, D) /\ n.cdir \in D /\ Held(n.vol, D, n.fil)}

\* A run of a call that goes well ends without uncleared tables, and when the
\* call ends with sync the volume is on the card.
Finished(call, r) ==
    /\ r.t.now \in Fits
    /\ r.res # "DISK_ERR" => r.t.now.disk.raw = {}
    /\ r.res = "OK" /\ call \in Synced => r.t.now.vol = r.t.now.disk

Ends(call, r, Q) ==
    /\ Finished(call, r)
    /\ \A w \in r.t.seen : w \in Q /\ AfterError(call, w) \in Q

LEMMA CalmFits ==
    ASSUME NEW C, C \subseteq Clusters \cup {0}, NEW F, F \subseteq FILs,
           NEW n \in Machines(Calm(C, F), Cards, C, F)
    PROVE  n \in Fits
<1>1. n.vol \in Calm(C, F) /\ n.disk \in Cards /\ n.cdir \in C /\ n.fil \in F
  BY MachineIs
<1>2. Machines(Calm(C, F), Cards, C, F) \subseteq Machines(Image, Image, Clusters \cup {0}, FILs)
  <2>1. Calm(C, F) \subseteq Image /\ Cards \subseteq Image
    BY DEF Calm, Cards
  <2> QED BY ONLY <2>1, C \subseteq Clusters \cup {0}, F \subseteq FILs, MachinesMore
<1>3. RawOk(n.disk)
  BY <1>1 DEF Cards
<1> QED BY <1>1, <1>2, <1>3 DEF Calm, Fits

\* Another directory of the volume.
LEMMA CalmChdir ==
    ASSUME NEW C, C \subseteq Clusters \cup {0}, NEW F, F \subseteq FILs,
           NEW n \in Machines(Calm(C, F), Cards, C, F), NEW c \in C
    PROVE  [n EXCEPT !.cdir = c] \in Machines(Calm(C, F), Cards, C, F)
BY DEF Machines

\* All calls but f_open and f_write.
LEMMA CalmEnds ==
    ASSUME NEW call \in {"f_chdir", "f_mkdir", "f_unlink", "f_close"},
           NEW C, C \subseteq Clusters \cup {0}, m.cdir \in C, NEW F, F \subseteq FILs,
           NEW r, Passing(r.t, Machines(Calm(C, F), Cards, C, F)),
           r.res # "DISK_ERR" => r.t.now.disk.raw = {},
           r.res = "OK" /\ call \in Synced => r.t.now.vol = r.t.now.disk
    PROVE  Ends(call, r, Fits)
<1> DEFINE M == Machines(Calm(C, F), Cards, C, F)
<1>1. r.t.now \in M /\ r.t.seen \subseteq M
  BY DEF Passing
<1>2. \A w \in M : w \in Fits
  BY CalmFits
<1>3. \A w \in M : AfterError(call, w) \in M
  <2> SUFFICES ASSUME NEW w \in M PROVE AfterError(call, w) \in M
    OBVIOUS
  <2>1. AfterError(call, w) = [w EXCEPT !.cdir = m.cdir]
    BY DEF AfterError
  <2>2. [w EXCEPT !.cdir = m.cdir] \in M
    BY CalmChdir
  <2> QED BY <2>1, <2>2
<1> HIDE DEF M
<1> QED BY <1>1, <1>2, <1>3 DEF Ends, Finished

\* A set of one run.
LEMMA OneRun ==
    ASSUME NEW t, NEW res, NEW r \in Runs(t, res)
    PROVE  r.t = t /\ r.res = res
BY DEF Runs

\* A run that ends at the volume v without other changes than to the window.
LEMMA SteadyEnds ==
    ASSUME NEW call \in {"f_chdir", "f_mkdir", "f_unlink", "f_close"},
           NEW C, C \subseteq Clusters \cup {0}, m.cdir \in C, NEW F, F \subseteq FILs, NEW v,
           NEW t, Steady(t, Calm(C, F), Cards, C, F, v), NEW res,
           res = "OK" /\ call \in Synced => t.now.vol = t.now.disk,
           NEW r \in Runs(t, res)
    PROVE  Ends(call, r, Fits)
<1>1. r.t = t /\ r.res = res
  BY OneRun
<1>2. Passing(t, Machines(Calm(C, F), Cards, C, F)) /\ t.now.disk.raw = {}
  BY DEF Steady
<1> QED BY <1>1, <1>2, CalmEnds

\* The volume a call starts from, and what it can become with the same directories.
LEMMA StandingIs ==
    ASSUME NEW D, Standing(D)
    PROVE  /\ Single(m.vol, D) /\ RawOk(m.vol) /\ m.vol.raw = {} /\ m.cdir \in D
           /\ D \subseteq Clusters \cup {0} /\ m.fil \in FILs
           /\ m.vol \in Calm({m.cdir}, {m.fil}) /\ m.vol \in Image /\ m.disk \in Cards
           /\ m.last \in Clusters \cup {0}
<1>1. m.vol \in Image /\ D \subseteq Clusters \cup {0} /\ RawOk(m.vol)
  BY DEF Standing, Single, Forest, IsTree, RawOk
<1>2. m \in Machines({m.vol}, Cards, {m.cdir}, {m.fil})
  BY DEF Standing
<1>3. m.disk \in Cards /\ m.last \in Clusters \cup {0}
  BY <1>2, MachineIs
<1> QED BY <1>1, <1>3 DEF Standing, Calm

LEMMA ChdirIs ==
    ASSUME NEW D, Standing(D), NEW p \in Paths, NEW r \in f_chdir(p)
    PROVE  Ends("f_chdir", r, Fits)
<1> DEFINE f == follow_path(Start, p)
           F == {m.fil}
           v == m.vol
           V == Calm(D, F)
<1>1. V \subseteq Cards /\ v \in V /\ D \subseteq Clusters \cup {0} /\ F \subseteq FILs /\ m.cdir \in D
      /\ m.fil \in F /\ Single(v, D)
  BY StandingIs, CalmCards DEF Calm, Standing
<1> HIDE DEF F, V
<1>2. Steady(Start, V, Cards, D, F, v)
  BY ONLY Standing(D), <1>1, StartIs DEF v
<1> HIDE DEF v
<1>3. PathIs(f, V, Cards, D, F, v, D, p)
  BY ONLY <1>1, <1>2, p \in Paths, FollowPathIs
<1>4. f_chdir(p) = IF f.res # "OK" \/ (p.segs # <<>> /\ ~f.e.dir) THEN Runs(f.t, "NO_PATH")
                   ELSE Runs(Become(f.t, [f.t.now EXCEPT
                                 !.cdir = IF p.segs = <<>> THEN 0 ELSE f.e.clust]), "OK")
  BY DEF f_chdir, Refuse
<1> HIDE DEF f
<1>5. Steady(f.t, V, Cards, D, F, v)
  BY <1>3 DEF PathIs, LeadsTo, Leads
<1>6. CASE f.res # "OK" \/ (p.segs # <<>> /\ ~f.e.dir)
  <2>1. r \in Runs(f.t, "NO_PATH")
    BY <1>4, <1>6
  <2> QED BY <1>1, <1>5, <2>1, SteadyEnds DEF V
<1>7. CASE ~(f.res # "OK" \/ (p.segs # <<>> /\ ~f.e.dir))
  <2> DEFINE c == IF p.segs = <<>> THEN 0 ELSE f.e.clust
             n == [f.t.now EXCEPT !.cdir = c]
             u == Become(f.t, n)
  <2>1. c \in D
    <3>1. 0 \in D
      BY <1>1 DEF Single, Forest, IsTree
    <3>2. CASE p.segs # <<>>
      BY <1>3, <1>7, <3>2 DEF PathIs, LeadsTo, Leads
    <3> QED BY <3>1, <3>2
  <2>2. r \in Runs(u, "OK")
    BY <1>4, <1>7
  <2> HIDE DEF c
  <2>3. f.t.now \in Machines(V, Cards, D, F) /\ Passing(f.t, Machines(V, Cards, D, F))
        /\ f.t.now.disk.raw = {}
    BY <1>5, SteadyIs
  <2>4. n \in Machines(V, Cards, D, F) /\ n.disk = f.t.now.disk
    BY <2>1, <2>3 DEF Machines
  <2> HIDE DEF n
  <2>5. Passing(u, Machines(V, Cards, D, F)) /\ u.now = n
    BY <2>3, <2>4, BecomeIs
  <2> HIDE DEF u
  <2>6. r.t = u /\ r.res = "OK"
    BY <2>2, OneRun
  <2>7. "f_chdir" \notin Synced
    BY DEF Synced
  <2> QED BY <1>1, <2>3, <2>4, <2>5, <2>6, <2>7, CalmEnds DEF V
<1> QED BY <1>6, <1>7

----------------------------------------------------------------------------
(* The calls: f_unlink *)

LEMMA SteadyPutEntry ==
    ASSUME NEW V, NEW W, NEW C, NEW F, NEW v, NEW t, Steady(t, V, W, C, F, v),
           NEW at \in Tables \X (0..(PerSector - 1)), NEW e, WithEntry(v, at, e) \in V, v \in Image
    PROVE  Steady(PutEntry(t, at, e), V, W, C, F, WithEntry(v, at, e))
<1>1. t.now.vol = v /\ v.raw = {} /\ V \subseteq W
  BY DEF Steady
<1>2. PutEntry(t, at, e) = Write(t, Tab(at[1]), WithEntry(v, at, e))
  BY <1>1 DEF PutEntry, WithEntry
<1>3. WithEntry(v, at, e).raw = {}
  BY <1>1 DEF WithEntry, Image
<1>4. Tab(at[1]) \in Windows
  BY WindowsAre
<1> DEFINE w == WithEntry(v, at, e)
           s == Tab(at[1])
<1>5. w \in V /\ w.raw = {} /\ s \in Windows
  BY <1>3, <1>4
<1> HIDE DEF w, s
<1>6. Steady(Write(t, s, w), V, W, C, F, w)
  BY <1>1, <1>5, SteadyWrite
<1> QED BY <1>2, <1>6 DEF w, s

LEMMA DirRemoveIs ==
    ASSUME NEW V, NEW W, NEW C, NEW F, NEW v, NEW t, Steady(t, V, W, C, F, v),
           NEW at \in Tables \X (0..(PerSector - 1)), WithEntry(v, at, Deleted) \in V, v \in Image,
           NEW s
    PROVE  Steady(dir_remove(t, s, at), V, W, C, F, WithEntry(v, at, Deleted))
<1> DEFINE n == CHOOSE i \in DOMAIN Slots(t.now.vol, s) : Slots(t.now.vol, s)[i] = at
           u == Visit(t, s, n)
<1>1. dir_remove(t, s, at) = PutEntry(u, at, Deleted)
  BY DEF dir_remove
<1>2. Steady(u, V, W, C, F, v)
  BY SteadyMove DEF Visit
<1> HIDE DEF u
<1>3. Steady(PutEntry(u, at, Deleted), V, W, C, F, WithEntry(v, at, Deleted))
  BY <1>2, SteadyPutEntry
<1> QED BY <1>1, <1>3

\* A directory that f_unlink takes for empty has nothing but its two dot entries.
LEMMA IsEmptyIs ==
    ASSUME NEW v, NEW D, Single(v, D), NEW c \in D, c # 0, IsEmpty(v, c)
    PROVE  Live(v, c) = {}
<1> DEFINE S == Slots(v, c)
           z == FirstSlot(v, c, {"0"})
<1>1. Forest(v, D) /\ v \in Image /\ Linked(v.fat) /\ HasTable(v, c) /\ Ordered(v, c)
  BY DEF Single, Forest, IsTree
<1>2. Table(v, c)[1] = c
  BY <1>1, FirstSector
<1>3. /\ Len(S) \in Nat /\ Len(S) > 2 /\ DOMAIN S = 1..Len(S)
      /\ \A at \in SlotsOf(v, c) : \E n \in 1..Len(S) : S[n] = at
      /\ S[1] = <<c, 0>> /\ S[2] = <<c, 1>>
  BY ONLY <1>1, <1>2, SlotsAre
<1>4. v.tab[c][0].name = "." /\ v.tab[c][1].name = ".."
  <2>0. PICK s \in D : \E at \in Live(v, s) : EntryAt(v, at).dir /\ EntryAt(v, at).clust = c
    BY <1>1, DirNamed DEF Forest
  <2>1. PICK at \in Live(v, s) : EntryAt(v, at).dir /\ EntryAt(v, at).clust = c
    BY <2>0
  <2>2. BackFrom(v, s, c)
    BY <2>1 DEF Single, AllBack
  <2> QED BY <2>2 DEF BackFrom, Dir
<1>5. /\ z \in 1..(Len(S) + 1)
      /\ z <= Len(S) => EntryAt(v, S[z]).name \in {"0"}
  <2>1. /\ FirstSlot(v, c, {"0"}) \in 1..(Len(Slots(v, c)) + 1)
        /\ FirstSlot(v, c, {"0"}) <= Len(Slots(v, c)) =>
              EntryAt(v, Slots(v, c)[FirstSlot(v, c, {"0"})]).name \in {"0"}
    BY ONLY <1>1, FirstSlotIs
  <2> QED BY <2>1
<1> SUFFICES ASSUME NEW at \in Live(v, c) PROVE FALSE
  OBVIOUS
<1>6. at \in SlotsOf(v, c) /\ IsLive(EntryAt(v, at)) /\ ~IsDot(EntryAt(v, at).name)
  BY DEF Live
<1>7. PICK n \in 1..Len(S) : S[n] = at
  BY <1>3, <1>6
<1>8. \A k \in 1..Len(S) : k > 2 /\ k < z => ~IsLive(EntryAt(v, S[k]))
  BY <1>3 DEF IsEmpty
<1>9. \A k \in 1..Len(S) : z <= Len(S) /\ z <= k => EntryAt(v, S[k]) = Unused
  BY <1>1, <1>5 DEF Ordered
<1> HIDE DEF S, z
<1>10. CASE n \in 1..2
  <2>1. n = 1 \/ n = 2
    BY <1>10
  <2> QED BY <1>3, <1>4, <1>6, <1>7, <2>1 DEF EntryAt, IsDot, Dots
<1>11. CASE n > 2 /\ n < z
  BY <1>6, <1>7, <1>8, <1>11
<1>12. CASE n > 2 /\ ~(n < z)
  <2>1. z <= Len(S) /\ z <= n
    BY <1>3, <1>5, <1>12
  <2>2. EntryAt(v, at) = Unused
    BY <1>7, <1>9, <2>1
  <2> QED BY <1>6, <2>2 DEF IsLive, Unused, Marks
<1> QED BY <1>3, <1>10, <1>11, <1>12

\* The open file is not the one that is removed.
LEMMA HeldRemoved ==
    ASSUME NEW v, NEW D, Forest(v, D), NEW s \in D, NEW at \in Live(v, s),
           NEW w, w = WithEntry(v, at, Deleted), NEW f, Held(v, D, f), f.open => f.at # at,
           NEW E \in SUBSET D, \A t \in D \ E : Live(v, t) = {},
           Forest(w, E)
    PROVE  Held(w, E, f)
<1>1. /\ w.fat = v.fat /\ w.dirbase = v.dirbase
      /\ \A t \in D : \A bt \in Live(w, t) :
            bt # at /\ bt \in Live(v, t) /\ EntryAt(w, bt) = EntryAt(v, bt)
      /\ \A t \in D : \A bt \in Live(v, t) :
            bt # at => bt \in Live(w, t) /\ EntryAt(w, bt) = EntryAt(v, bt)
  BY Removed
<1>2. v.fat \in Fats /\ Linked(v.fat) /\ w.fat \in Fats /\ Linked(w.fat) /\ v \in Image
  BY ImageIs DEF Forest
<1>3. f.open /\ f.org \in Clusters => Grown(v, w, f.org)
  <2> SUFFICES ASSUME f.open, f.org \in Clusters PROVE Grown(v, w, f.org)
    OBVIOUS
  <2> DEFINE d == f.org
  <2>1. Proper(v.fat, d)
    BY DEF Held, OwnsStart
  <2>2. Spared(v, w, d)
    BY <1>1, <2>1 DEF Spared
  <2> HIDE DEF d
  <2>3. Grown(v, w, d)
    BY ONLY <1>2, <2>1, <2>2, SparedGrown
  <2> QED BY <2>3 DEF d
<1>4. \A t \in D : f.open /\ f.at \in Live(v, t) =>
          t \in E /\ f.at \in Live(w, t) /\ EntryAt(w, f.at) = EntryAt(v, f.at)
  BY <1>1
<1>5. \A t \in E : \A bt \in Live(w, t) :
          f.open /\ bt # f.at /\ EntryAt(w, bt).clust = f.org /\ f.org \in Clusters =>
              \E y \in D : \E x \in Live(v, y) : x # f.at /\ EntryAt(v, x).clust = f.org
  BY <1>1
<1> QED BY ONLY <1>1, <1>2, <1>3, <1>4, <1>5, Held(v, D, f), HeldKept

\* What f_unlink finds: an entry with a name of its own.
LEMMA PathLive ==
    ASSUME NEW V, NEW W, NEW C, NEW F, NEW v, NEW D, Single(v, D), NEW p, NEW f,
           PathIs(f, V, W, C, F, v, D, p), f.res = "OK", p.segs # <<>>, ~IsDot(f.name)
    PROVE  /\ f.s \in D /\ f.at \in Live(v, f.s) /\ f.e = EntryAt(v, f.at)
           /\ f.at \in Tables \X (0..(PerSector - 1))
           /\ f.e.dir \in BOOLEAN /\ f.e.clust \in Clusters \cup {0, Bad}
           /\ f.e.dir => f.e.clust \in D /\ f.e.clust # 0
<1>1. f.at \in SlotsOf(v, f.s) /\ f.e = EntryAt(v, f.at) /\ f.e.name = f.name /\ f.s \in D
      /\ f.name \in Names
  BY DEF PathIs, LeadsTo, Leads, IsDot
<1>2. f.at \in Live(v, f.s)
  <2>1. EntryAt(v, f.at).name \in Names
    BY <1>1
  <2> QED BY ONLY Single(v, D), <1>1, <2>1, SlotLeads
<1>3. Forest(v, D)
  BY DEF Single
<1>4. /\ f.at \in Tables \X (0..(PerSector - 1)) /\ EntryAt(v, f.at) \in Entry
      /\ EntryAt(v, f.at).dir => EntryAt(v, f.at).clust \in D /\ EntryAt(v, f.at).clust # 0
  BY ONLY <1>1, <1>2, <1>3, LiveTyped
<1>5. EntryAt(v, f.at).dir \in BOOLEAN /\ EntryAt(v, f.at).clust \in Clusters \cup {0, Bad}
  BY ONLY <1>4, EntryTypes
<1> QED BY <1>1, <1>2, <1>4, <1>5

\* The volume without the entry; the chain c is part of nothing.
Unnamed(w, E, c) ==
    /\ Single(w, E) /\ w.raw = {} /\ w \in Image /\ m.cdir \in E /\ Held(w, E, m.fil)
    /\ c \in Clusters => Loose(w, E, c)
    /\ m.fil.open /\ m.fil.org \in Clusters => m.fil.org # c

LEMMA UnnamedIs ==
    ASSUME NEW D, Standing(D), NEW s \in D, NEW at \in Live(m.vol, s),
           m.fil.open => m.fil.at # at,
           NEW c, c = EntryAt(m.vol, at).clust,
           EntryAt(m.vol, at).dir => Live(m.vol, c) = {} /\ c # m.cdir,
           NEW w, w = WithEntry(m.vol, at, Deleted)
    PROVE  \E E : Unnamed(w, E, c)
<1> DEFINE v == m.vol
           f == m.fil
<1>1. /\ Single(v, D) /\ Forest(v, D) /\ Held(v, D, f) /\ m.cdir \in D /\ v.raw = {}
      /\ at \in Live(v, s) /\ w = WithEntry(v, at, Deleted) /\ c = EntryAt(v, at).clust
  BY DEF Standing, Single
<1>2. f.open /\ f.org \in Clusters => f.org # c
  <2> HIDE DEF v, f
  <2> QED BY <1>1 DEF Held, OwnsStart, f
<1>3. f.open => f.at # at
  OBVIOUS
<1> HIDE DEF f
<1>4. EntryAt(v, at).dir => Live(v, c) = {} /\ c # m.cdir
  OBVIOUS
<1> HIDE DEF v
<1>5. w.raw = v.raw
  BY <1>1, Removed
<1>6. CASE ~EntryAt(v, at).dir
  <2>1. Single(w, D) /\ (c \in Clusters => Loose(w, D, c))
    BY <1>1, <1>6, RemovedFile
  <2>2. Forest(w, D) /\ w \in Image
    BY <2>1 DEF Single, Forest
  <2>3. D \in SUBSET D /\ \A t \in D \ D : Live(v, t) = {}
    OBVIOUS
  <2>4. Held(w, D, f)
    BY ONLY <1>1, <1>3, <2>2, <2>3, s \in D, HeldRemoved
  <2>5. Unnamed(w, D, c)
    BY <1>1, <1>2, <1>5, <2>1, <2>2, <2>4 DEF Unnamed, f
  <2> QED BY <2>5
<1>7. CASE EntryAt(v, at).dir
  <2> DEFINE E == D \ {c}
  <2>1. Single(w, D \ {c}) /\ Loose(w, D \ {c}, c) /\ c \in D /\ c # 0 /\ s # c
    BY <1>1, <1>4, <1>7, RemovedDir
  <2>2. E \in SUBSET D /\ \A t \in D \ E : Live(v, t) = {}
    BY <1>4, <1>7
  <2>3. Single(w, E) /\ Loose(w, E, c) /\ m.cdir \in E
    BY <1>1, <1>4, <1>7, <2>1
  <2> HIDE DEF E
  <2>4. Forest(w, E) /\ w \in Image
    BY <2>3 DEF Single, Forest
  <2>5. Held(w, E, f)
    BY ONLY <1>1, <1>3, <2>2, <2>4, s \in D, HeldRemoved
  <2>6. Unnamed(w, E, c)
    BY <1>1, <1>2, <1>5, <2>3, <2>4, <2>5 DEF Unnamed, f
  <2> QED BY <2>6
<1> QED BY <1>6, <1>7

\* The volume is in order and on the card.
Synchronised(u, V) ==
    \E w : Steady(u, V, Cards, {m.cdir}, {m.fil}, w) /\ u.now.disk = w

LEMMA UnlinkRun ==
    ASSUME NEW V, V = Calm({m.cdir}, {m.fil}), NEW t, NEW v,
           Steady(t, V, Cards, {m.cdir}, {m.fil}, v), v \in Image,
           NEW at \in Tables \X (0..(PerSector - 1)), NEW s, NEW c \in Clusters \cup {0},
           NEW E, Unnamed(WithEntry(v, at, Deleted), E, c)
    PROVE  Synchronised(Unlink(t, s, at, c), V)
<1> DEFINE C == {m.cdir}
           F == {m.fil}
           w == WithEntry(v, at, Deleted)
           u == dir_remove(t, s, at)
           x == IF c # 0 THEN remove_chain(u, c) ELSE u
<1>1. V \subseteq Cards
  BY CalmCards
<1>2. Single(w, E) /\ w \in Image /\ RawOk(w) /\ C \subseteq E
      /\ \A f \in F : Held(w, E, f) /\ (f.open /\ f.org \in Clusters => f.org # c)
  BY DEF Unnamed, RawOk
<1>3. V = Calm(C, F) /\ w.raw = {} /\ (c \in Clusters => Loose(w, E, c))
  BY DEF Unnamed
<1>4. Steady(t, V, Cards, C, F, v)
  OBVIOUS
<1> HIDE DEF C, F
<1>5. w \in V
  BY <1>2, <1>3 DEF Calm
<1>6. Steady(u, V, Cards, C, F, w)
  BY <1>4, <1>5, DirRemoveIs
<1> HIDE DEF w, u
<1>7. Less(w, E, c) \subseteq V
  BY ONLY <1>2, <1>3, LessCalm
<1>8. Passing(u, Machines(V, Cards, C, F)) /\ u.now.vol = w /\ u.now.disk.raw = {}
  BY <1>6 DEF Steady
<1>9. Unlink(t, s, at, c) = Flush(x)
  BY DEF Unlink, u
<1>10. Passing(x, Machines(V, Cards, C, F)) /\ x.now.vol.raw = {}
  <2>1. CASE c = 0
    BY <1>3, <1>8, <2>1
  <2>2. CASE c # 0
    <3>1. Single(u.now.vol, E) /\ Less(u.now.vol, E, c) \subseteq V
          /\ (c \in Clusters => Loose(u.now.vol, E, c))
      BY <1>2, <1>3, <1>7, <1>8
    <3>2. RemovedFrom(remove_chain(u, c), V, Cards, C, F, u, E, c)
      BY ONLY <1>1, <1>8, <3>1, c \in Clusters \cup {0}, RemoveChainIs
    <3>3. x = remove_chain(u, c)
      BY <2>2
    <3> HIDE DEF x
    <3> QED BY <1>3, <1>8, <3>2, <3>3 DEF RemovedFrom, Less
  <2> QED BY <2>1, <2>2
<1> HIDE DEF x
<1> DEFINE y == x.now.vol
<1>11. x.now.vol = y /\ y.raw = {}
  BY <1>10
<1> HIDE DEF y
<1>12. Steady(Flush(x), V, Cards, C, F, y) /\ Flush(x).now.disk = y
  BY ONLY <1>1, <1>10, <1>11, SteadyFlush
<1> QED BY <1>9, <1>12 DEF C, F, Synchronised

LEMMA UnlinkIs ==
    ASSUME NEW D, Standing(D), NEW p \in Paths,
           ~(m.fil.open /\ m.fil.at = follow_path(Start, p).at),
           ~(follow_path(Start, p).e.dir /\ follow_path(Start, p).e.clust = m.cdir),
           NEW r \in f_unlink(p)
    PROVE  Ends("f_unlink", r, Fits)
<1> DEFINE f == follow_path(Start, p)
           C == {m.cdir}
           F == {m.fil}
           v == m.vol
           V == Calm(C, F)
           t == IF f.e.dir THEN Visit(f.t, f.e.clust, FirstSlot(f.t.now.vol, f.e.clust, {"0"}))
                ELSE f.t
<1>1. /\ V \subseteq Cards /\ v \in V /\ F \subseteq FILs /\ m.cdir \in C /\ v \in Image
      /\ m.fil \in F /\ Single(v, D) /\ C \subseteq Clusters \cup {0} /\ C \subseteq D
  BY StandingIs, CalmCards
<1>2. V = Calm({m.cdir}, {m.fil})
  OBVIOUS
<1> HIDE DEF V
<1>3. Steady(Start, V, Cards, C, F, v)
  BY ONLY Standing(D), <1>1, StartIs DEF v
<1>4. ~(m.fil.open /\ m.fil.at = f.at) /\ ~(f.e.dir /\ f.e.clust = m.cdir)
  OBVIOUS
<1>5. PathIs(f, V, Cards, C, F, v, D, p)
  BY ONLY <1>1, <1>3, p \in Paths, FollowPathIs
<1>6. r \in UnlinkFound(p, f)
  BY DEF f_unlink
<1> HIDE DEF f
<1>7. Steady(f.t, V, Cards, C, F, v)
  BY <1>5 DEF PathIs, LeadsTo, Leads
<1>8. Steady(t, V, Cards, C, F, v)
  BY <1>7, SteadyMove DEF Visit
<1>9. UnlinkFound(p, f) =
         IF f.res # "OK" THEN Runs(f.t, f.res)
         ELSE IF p.segs = <<>> \/ IsDot(f.name) THEN Runs(f.t, "INVALID_NAME")
         ELSE IF f.e.dir /\ ~IsEmpty(t.now.vol, f.e.clust) THEN Runs(t, "DENIED")
         ELSE IF f.e.clust = Bad THEN Runs(dir_remove(t, f.s, f.at), "INT_ERR")
         ELSE Runs(Unlink(t, f.s, f.at, f.e.clust), "OK")
  BY DEF UnlinkFound, Refuse
<1> HIDE DEF t, v
<1>10. ASSUME NEW x, Steady(x, V, Cards, C, F, v), NEW res, res # "OK", r \in Runs(x, res)
       PROVE  Ends("f_unlink", r, Fits)
  <2>1. "f_unlink" \in {"f_chdir", "f_mkdir", "f_unlink", "f_close"}
    OBVIOUS
  <2> QED BY ONLY <1>1, <1>2, <1>10, <2>1, SteadyEnds DEF C, F
<1>11. CASE f.res # "OK"
  BY <1>6, <1>7, <1>9, <1>10, <1>11
<1>12. CASE f.res = "OK" /\ (p.segs = <<>> \/ IsDot(f.name))
  <2>1. r \in Runs(f.t, "INVALID_NAME")
    BY <1>6, <1>9, <1>12
  <2> QED BY <1>7, <1>10, <2>1
<1>13. CASE f.res = "OK" /\ ~(p.segs = <<>> \/ IsDot(f.name))
  <2>1. /\ f.s \in D /\ f.at \in Live(v, f.s) /\ f.e = EntryAt(v, f.at)
        /\ f.at \in Tables \X (0..(PerSector - 1))
        /\ f.e.dir \in BOOLEAN /\ f.e.clust \in Clusters \cup {0, Bad}
        /\ f.e.dir => f.e.clust \in D /\ f.e.clust # 0
    BY <1>1, <1>5, <1>13, PathLive
  <2>2. t.now.vol = v
    BY <1>8 DEF Steady
  <2>3. CASE f.e.dir /\ ~IsEmpty(v, f.e.clust)
    <3>1. r \in Runs(t, "DENIED")
      BY <1>6, <1>9, <1>13, <2>2, <2>3
    <3> QED BY <1>8, <1>10, <3>1
  <2>4. CASE ~(f.e.dir /\ ~IsEmpty(v, f.e.clust))
    <3> DEFINE c == f.e.clust
               at == f.at
               w == WithEntry(v, at, Deleted)
    <3>1. f.e.dir => Live(v, c) = {} /\ c # m.cdir
      <4> SUFFICES ASSUME f.e.dir PROVE Live(v, c) = {} /\ c # m.cdir
        OBVIOUS
      <4>1. IsEmpty(v, c) /\ c \in D /\ c # 0
        BY <2>1, <2>4
      <4> HIDE DEF c
      <4>2. Live(v, c) = {}
        BY ONLY <1>1, <4>1, IsEmptyIs
      <4> QED BY <1>4, <4>2 DEF c
    <3>2. /\ Standing(D) /\ f.s \in D /\ at \in Live(m.vol, f.s) /\ (m.fil.open => m.fil.at # at)
          /\ c = EntryAt(m.vol, at).clust
          /\ EntryAt(m.vol, at).dir => Live(m.vol, c) = {} /\ c # m.cdir
          /\ w = WithEntry(m.vol, at, Deleted)
      BY <1>4, <2>1, <3>1 DEF v
    <3> HIDE DEF c, at, w
    <3>3. \E E : Unnamed(w, E, c)
      BY ONLY <3>2, UnnamedIs
    <3>4. PICK E : Unnamed(w, E, c)
      BY <3>3
    <3>5. at \in Tables \X (0..(PerSector - 1))
      BY <2>1 DEF at
    <3>6. CASE c = Bad
      <4> DEFINE x == dir_remove(t, f.s, at)
      <4>1. r \in Runs(x, "INT_ERR")
        BY <1>6, <1>9, <1>13, <2>2, <2>4, <3>6 DEF c, at
      <4>2. w \in V
        BY <1>2, <3>4 DEF Unnamed, Calm, RawOk
      <4>3. Steady(x, V, Cards, C, F, w)
        BY <1>1, <1>8, <3>5, <4>2, DirRemoveIs DEF w
      <4> HIDE DEF x
      <4> QED BY <1>1, <1>2, <4>1, <4>3, SteadyEnds DEF C, F
    <3>7. CASE c # Bad
      <4> DEFINE x == Unlink(t, f.s, at, c)
      <4>1. r \in Runs(x, "OK")
        BY <1>6, <1>9, <1>13, <2>2, <2>4, <3>7 DEF c, at
      <4>2. c \in Clusters \cup {0}
        BY <2>1, <3>7 DEF c
      <4>3. Unnamed(WithEntry(v, at, Deleted), E, c)
        BY <3>4 DEF w
      <4>4. Synchronised(x, V)
        <5>1. Steady(t, V, Cards, {m.cdir}, {m.fil}, v)
          BY <1>8 DEF C, F
        <5>2. v \in Image
          BY <1>1
        <5> QED BY ONLY <1>2, <3>5, <4>2, <4>3, <5>1, <5>2, UnlinkRun
      <4> HIDE DEF x
      <4>5. PICK y : Steady(x, V, Cards, C, F, y) /\ x.now.disk = y
        BY <4>4 DEF C, F, Synchronised
      <4>6. x.now.vol = x.now.disk
        BY <4>5 DEF Steady
      <4> QED BY <1>1, <1>2, <4>1, <4>5, <4>6, SteadyEnds DEF C, F
    <3> QED BY <3>6, <3>7
  <2> QED BY <2>3, <2>4
<1> QED BY <1>11, <1>12, <1>13

----------------------------------------------------------------------------
(* The calls: f_mkdir *)

\* An entry is added; it has not the start cluster of the open file, or another
\* entry had that already.
LEMMA HeldAdded ==
    ASSUME NEW v, NEW D, Forest(v, D), NEW s \in D, NEW at, FirstFree(v, s, at),
           NEW e \in Entry, e.name \in Names,
           \A bt \in Live(v, s) : EntryAt(v, bt).name # e.name,
           NEW w, w = WithEntry(v, at, e), NEW f, Held(v, D, f),
           f.open /\ f.org \in Clusters /\ e.clust = f.org =>
               \E y \in D : \E x \in Live(v, y) : x # f.at /\ EntryAt(v, x).clust = f.org,
           NEW E, D \subseteq E, \A t \in E \ D : Live(w, t) = {}
    PROVE  Held(w, E, f)
<1>1. /\ PutIs(v, w, D, s, at, e)
      /\ \A t \in D : \A bt \in Live(v, t) :
            bt # at /\ bt \in Live(w, t) /\ EntryAt(w, bt) = EntryAt(v, bt)
      /\ \A t \in D : \A bt \in Live(w, t) : bt \in Live(v, t) \/ (t = s /\ bt = at)
  BY Added
<1>2. w.fat = v.fat /\ w.dirbase = v.dirbase /\ EntryAt(w, at) = e
  BY <1>1 DEF PutIs
<1>3. v.fat \in Fats /\ Linked(v.fat) /\ w.fat \in Fats /\ Linked(w.fat) /\ v \in Image
  BY <1>2, ImageIs DEF Forest
<1>4. f.open /\ f.org \in Clusters => Grown(v, w, f.org)
  <2> SUFFICES ASSUME f.open, f.org \in Clusters PROVE Grown(v, w, f.org)
    OBVIOUS
  <2> DEFINE d == f.org
  <2>1. Proper(v.fat, d)
    BY DEF Held, OwnsStart
  <2>2. Spared(v, w, d)
    BY <1>2, <2>1 DEF Spared
  <2> HIDE DEF d
  <2>3. Grown(v, w, d)
    BY ONLY <1>3, <2>1, <2>2, SparedGrown
  <2> QED BY <2>3 DEF d
<1>5. \A t \in D : f.open /\ f.at \in Live(v, t) =>
          t \in E /\ f.at \in Live(w, t) /\ EntryAt(w, f.at) = EntryAt(v, f.at)
  BY <1>1
<1>6. \A t \in E : \A bt \in Live(w, t) :
          f.open /\ bt # f.at /\ EntryAt(w, bt).clust = f.org /\ f.org \in Clusters =>
              \E y \in D : \E x \in Live(v, y) : x # f.at /\ EntryAt(v, x).clust = f.org
  BY <1>1, <1>2
<1> QED BY ONLY <1>2, <1>3, <1>4, <1>5, <1>6, Held(v, D, f), HeldKept

LEMMA RetabledFrom ==
    ASSUME NEW v, NEW D, Single(v, D), RawOk(v), NEW c, Loose(v, D, c),
           NEW es \in [0..(PerSector - 1) -> Entry], NEW w, w = WithTable(v, c, es)
    PROVE  /\ w \in From(v, D, {}) /\ Loose(w, D, c) /\ w.fat = v.fat /\ w.tab[c] = es
           /\ w.raw = v.raw
<1>1. /\ Single(w, D) /\ Alike(v, w, D) /\ Loose(w, D, c)
      /\ w.fat = v.fat /\ w.tab[c] = es /\ w.raw = v.raw
      /\ \A d : Proper(v.fat, d) => Spared(v, w, d)
  BY Retabled
<1>2. v \in Image /\ Linked(v.fat) /\ w \in Image
  BY <1>1 DEF Single, Forest
<1>3. \A d : Proper(v.fat, d) => Grown(v, w, d)
  BY <1>1, <1>2, SparedGrown
<1> QED BY <1>1, <1>2, <1>3 DEF From, RawOk

LEMMA DotEntriesAre ==
    ASSUME NEW c \in Clusters, NEW s \in Clusters \cup {0}
    PROVE  DotEntries(c, s) \in [0..(PerSector - 1) -> Entry]
<1>1. Dir(".", c) \in Entry /\ Dir("..", s) \in Entry /\ Unused \in Entry
  BY DEF Dir, Entry, Dots
<1> DEFINE a == Dir(".", c)
           b == Dir("..", s)
<1> HIDE DEF a, b
<1>2. [Blank EXCEPT ![0] = a, ![1] = b] \in [0..(PerSector - 1) -> Entry]
  BY <1>1 DEF Blank, a, b
<1> QED BY <1>2 DEF DotEntries, a, b

\* The table of the new directory c is written, and has no entry yet.
Prepared(w, D, c, s) ==
    /\ Single(w, D) /\ Loose(w, D, c) /\ w.fat[c] = Eoc /\ w.tab[c] = DotEntries(c, s)
    /\ RawOk(w) /\ m.cdir \in D /\ Held(w, D, m.fil) /\ s \in D
    /\ m.fil.open /\ m.fil.org \in Clusters => m.fil.org # c

LEMMA PreparedFrom ==
    ASSUME NEW w, NEW D, NEW c, NEW s, Prepared(w, D, c, s), NEW u \in From(w, D, {c})
    PROVE  Prepared(u, D, c, s)
<1>1. /\ Single(w, D) /\ Loose(w, D, c) /\ w.fat[c] = Eoc /\ w.tab[c] = DotEntries(c, s)
      /\ Held(w, D, m.fil) /\ Proper(w.fat, c) /\ c \in Clusters
  BY DEF Prepared, Loose, Proper
<1>2. Single(u, D) /\ RawOk(u) /\ Spared(w, u, c) /\ u.tab[c] = w.tab[c] /\ Proper(u.fat, c)
  BY DEF From, Spared
<1>3. Loose(u, D, c)
  BY ONLY <1>1, u \in From(w, D, {c}), LooseFrom
<1>4. Held(u, D, m.fil)
  BY ONLY <1>1, u \in From(w, D, {c}), HeldFrom
<1>5. u.fat[c] = Eoc
  <2>1. w.fat \in Fats /\ Linked(w.fat) /\ u.fat \in Fats /\ Linked(u.fat)
    BY <1>1, <1>2, ImageIs DEF Single, Forest
  <2> DEFINE q == <<c>>
  <2>2. q \in Seq(Clusters) /\ q # <<>> /\ Len(q) = 1 /\ q[1] = c
    BY <1>1
  <2>3. IsWalk(w.fat, c, q) /\ w.fat[q[Len(q)]] \notin Clusters
    BY <1>1, <2>2, ClustersAre DEF IsWalk
  <2> HIDE DEF q
  <2>4. Chain(w.fat, c) = q
    BY ONLY <1>1, <2>1, <2>2, <2>3, ChainBy
  <2>5. Chain(u.fat, c) = q
    BY <1>2, <2>4 DEF Spared
  <2>6. u.fat[Chain(u.fat, c)[Len(Chain(u.fat, c))]] = Eoc
    BY ONLY <1>2, <2>1, ProperChain
  <2> QED BY <2>2, <2>5, <2>6
<1> QED BY <1>1, <1>2, <1>3, <1>4, <1>5 DEF Prepared

DirAddedIs(w, u, at) ==
    /\ w \in Calm({m.cdir}, {m.fil}) /\ w.raw = u.raw
    /\ at \in Tables \X (0..(PerSector - 1))

LEMMA DirAdded ==
    ASSUME NEW u, NEW D, NEW c, NEW s, Prepared(u, D, c, s), NEW at, FirstFree(u, s, at),
           NEW n \in Names, \A x \in Live(u, s) : EntryAt(u, x).name # n,
           NEW w, w = WithEntry(u, at, Dir(n, c))
    PROVE  DirAddedIs(w, u, at)
<1> DEFINE e == Dir(n, c)
           E == D \cup {c}
           f == m.fil
<1>1. /\ Single(u, D) /\ Forest(u, D) /\ Loose(u, D, c) /\ u.fat[c] = Eoc /\ c \in Clusters
      /\ u.tab[c] = DotEntries(c, s) /\ s \in D /\ Held(u, D, f) /\ u \in Image /\ RawOk(u)
      /\ Linked(u.fat) /\ HasTable(u, s) /\ FirstFree(u, s, at) /\ m.cdir \in D
      /\ f.open /\ f.org \in Clusters => f.org # c
  BY DEF Prepared, Single, Forest, IsTree, Loose, Proper
<1>2. /\ e \in Entry /\ e.name \in Names /\ e.dir /\ e.clust = c
      /\ \A x \in Live(u, s) : EntryAt(u, x).name # e.name
  BY <1>1 DEF Dir, Entry
<1>3. w = WithEntry(u, at, e)
  OBVIOUS
<1> HIDE DEF e, f
<1>4. Single(w, D \cup {c})
  BY ONLY <1>1, <1>2, <1>3, AddedDir
<1>5. PutIs(u, w, D, s, at, e) /\ at \in SlotsOf(u, s)
  BY ONLY <1>1, <1>2, <1>3, Added
<1>6. w.fat = u.fat /\ w.raw = u.raw /\ w \in Image
  BY <1>5 DEF PutIs
<1>7. at \in Tables \X (0..(PerSector - 1)) /\ at[1] \in SectorsOf(u, s)
  BY <1>1, <1>5, SlotsTyped DEF SlotsOf
<1>8. w.tab[c] = DotEntries(c, s)
  <2>1. c \notin SectorsOf(u, s) /\ c \in Tables
    BY <1>1, LooseHead, SizesAre
  <2> QED BY <1>1, <1>5, <1>7, <2>1 DEF PutIs
<1>9. Live(w, c) = {}
  <2>1. Linked(w.fat) /\ Proper(w.fat, c) /\ w.fat[c] = Eoc
    BY <1>1, <1>6 DEF Loose
  <2> QED BY ONLY <1>6, <1>8, <2>1, DotTable
<1>10. D \subseteq E /\ \A t \in E \ D : Live(w, t) = {}
  BY <1>9
<1>11. Single(w, E) /\ m.cdir \in E
  BY <1>1, <1>4
<1> HIDE DEF E
<1>12. f.open /\ f.org \in Clusters /\ e.clust = f.org =>
           \E y \in D : \E x \in Live(u, y) : x # f.at /\ EntryAt(u, x).clust = f.org
  BY <1>1, <1>2
<1>13. Held(w, E, f)
  BY ONLY <1>1, <1>2, <1>3, <1>10, <1>12, HeldAdded
<1>14. RawOk(w)
  BY <1>1, <1>6 DEF RawOk
<1> QED BY <1>6, <1>7, <1>11, <1>13, <1>14 DEF Calm, f, DirAddedIs

\* A trail that is at the machine x after those of a set of machines.
LEMMA PassingAt ==
    ASSUME NEW M, NEW all, all \subseteq M, NEW x \in all
    PROVE  Passing([now |-> x, seen |-> all], M)
BY DEF Passing

\* The chain of a new directory that could not be registered is freed.
LEMMA FreeAgain ==
    ASSUME NEW D, NEW V, V = Calm({m.cdir}, {m.fil}), D \subseteq Clusters \cup {0},
           m.fil \in FILs,
           NEW all, all \subseteq Machines(V, Cards, {m.cdir}, {m.fil}), NEW x \in all,
           NEW c, NEW s, Prepared(x.vol, D, c, s),
           NEW res, res # "OK", res # "DISK_ERR" => x.vol.raw = {} /\ x.disk.raw = {},
           NEW r \in Runs(remove_chain([now |-> x, seen |-> all], c), res)
    PROVE  Ends("f_mkdir", r, Fits)
<1> DEFINE C == {m.cdir}
           F == {m.fil}
           t == [now |-> x, seen |-> all]
           u == remove_chain(t, c)
           v == x.vol
<1>1. /\ Single(v, D) /\ RawOk(v) /\ Loose(v, D, c) /\ c \in Clusters /\ m.cdir \in D
      /\ C \subseteq D /\ \A f \in F : Held(v, D, f) /\ (f.open /\ f.org \in Clusters => f.org # c)
  BY DEF Prepared, Loose, Proper
<1>2. V = Calm(C, F) /\ C \subseteq Clusters \cup {0} /\ F \subseteq FILs /\ m.cdir \in C
  BY <1>1
<1>3. V \subseteq Cards
  BY CalmCards
<1>4. all \subseteq Machines(V, Cards, C, F)
  OBVIOUS
<1>5. t.now = x /\ t.now.vol = v
  OBVIOUS
<1>6. r.t = u /\ r.res = res
  BY OneRun
<1> HIDE DEF C, F
<1>7. Passing(t, Machines(V, Cards, C, F))
  BY ONLY <1>4, x \in all, PassingAt
<1> HIDE DEF t
<1>8. Less(v, D, c) \subseteq V
  BY ONLY <1>1, <1>2, LessCalm
<1> HIDE DEF v
<1>9. Single(t.now.vol, D) /\ Less(t.now.vol, D, c) \subseteq V /\ Loose(t.now.vol, D, c)
      /\ c \in Clusters \cup {0}
  BY <1>1, <1>5, <1>8
<1>10. RemovedFrom(remove_chain(t, c), V, Cards, C, F, t, D, c)
  BY ONLY <1>3, <1>7, <1>9, RemoveChainIs
<1> HIDE DEF u
<1>11. Passing(u, Machines(V, Cards, C, F)) /\ (res # "DISK_ERR" => u.now.disk.raw = {})
  BY <1>5, <1>10 DEF RemovedFrom, u, v
<1>12. Passing(r.t, Machines(Calm(C, F), Cards, C, F))
       /\ (r.res # "DISK_ERR" => r.t.now.disk.raw = {})
       /\ (r.res = "OK" /\ "f_mkdir" \in Synced => r.t.now.vol = r.t.now.disk)
       /\ "f_mkdir" \in {"f_chdir", "f_mkdir", "f_unlink", "f_close"}
  BY <1>2, <1>6, <1>11
<1> QED BY ONLY <1>2, <1>12, CalmEnds

\* The machines that dir_register passes through before it puts the entry of the
\* directory into its slot, or gives up.
Registered(g, U, V, C, F, w) ==
    /\ ~g.ok => Steady(g.t, U, Cards, C, F, w)
    /\ g.ok => /\ Passing(g.t, Machines(V, Cards, C, F)) /\ g.t.now.vol.raw = {}
               /\ \A x \in g.t.seen : x # g.t.now => x \in Machines(U, Cards, C, F)

LEMMA RegisterSeen ==
    ASSUME NEW V, NEW U, U \subseteq V, V \subseteq Cards, NEW C, NEW F, NEW w, NEW D, NEW c, NEW s,
           Prepared(w, D, c, s), U = From(w, D, {c}),
           NEW n \in Names, \A y \in Live(w, s) : EntryAt(w, y).name # n,
           V = Calm({m.cdir}, {m.fil}),
           NEW g, Registers(g, U, Cards, C, F, w, D, {c}, s, Dir(n, c))
    PROVE  Registered(g, U, V, C, F, w)
<1> DEFINE e == Dir(n, c)
<1>1. CASE ~g.ok
  BY <1>1 DEF Registers, Registered
<1>2. CASE g.ok
  <2>1. \E u, p : /\ u \in From(w, D, {c}) /\ Steady(p, U, Cards, C, F, u)
                  /\ FirstFree(u, s, g.at) /\ g.t = PutEntry(p, g.at, e)
    BY <1>2 DEF Registers
  <2>2. PICK u, p : /\ u \in From(w, D, {c}) /\ Steady(p, U, Cards, C, F, u)
                    /\ FirstFree(u, s, g.at) /\ g.t = PutEntry(p, g.at, e)
    BY <2>1
  <2> DEFINE x == WithEntry(u, g.at, e)
             at == g.at
  <2>3. Prepared(u, D, c, s)
    BY <2>2, PreparedFrom
  <2>4. \A y \in Live(u, s) : EntryAt(u, y).name # n
    <3>1. Alike(w, u, D) /\ s \in D
      BY <2>2 DEF From, Prepared
    <3> QED BY <3>1 DEF Alike
  <2>5. x \in Calm({m.cdir}, {m.fil}) /\ x.raw = u.raw /\ at \in Tables \X (0..(PerSector - 1))
    <3>1. x = WithEntry(u, at, Dir(n, c)) /\ FirstFree(u, s, at)
      BY <2>2
    <3> HIDE DEF x, at
    <3>2. DirAddedIs(x, u, at)
      BY ONLY <3>1, <2>3, <2>4, n \in Names, DirAdded
    <3> QED BY <3>2 DEF DirAddedIs
  <2>6. /\ p.now.vol = u /\ u.raw = {} /\ Passing(p, Machines(U, Cards, C, F))
        /\ U \subseteq Cards /\ p.now.disk.raw = {}
    BY <2>2 DEF Steady
  <2>7. g.t = Write(p, Tab(at[1]), x)
    BY <2>2, <2>6 DEF PutEntry, WithEntry
  <2>8. Tab(at[1]) \in Windows
    BY <2>5, WindowsAre
  <2> DEFINE z == Tab(at[1])
             M == Machines(U, Cards, C, F)
  <2> HIDE DEF x, z
  <2>9. Written(Write(p, z, x), p, U, Cards, C, F, x)
    BY <2>6, <2>8, WriteIs DEF z
  <2>10. Written(g.t, p, U, Cards, C, F, x)
    BY <2>7, <2>9 DEF z
  <2>11. Machines({x}, Cards, C, F) \subseteq Machines(V, Cards, C, F)
         /\ M \subseteq Machines(V, Cards, C, F)
    <3>1. {x} \subseteq V
      BY <2>5
    <3> QED BY ONLY <3>1, U \subseteq V, MachinesMore
  <2>12. Passing(g.t, Machines(V, Cards, C, F))
    BY <2>10, <2>11 DEF Written, Passing
  <2>13. g.t.now.vol.raw = {} /\ \A y \in g.t.seen : y # g.t.now => y \in M
    BY <2>5, <2>6, <2>10 DEF Written
  <2> QED BY <1>2, <2>12, <2>13 DEF Registered
<1> QED BY <1>1, <1>2

Unregistered(t, V, D, w, c, s, n) ==
    /\ V = Calm({m.cdir}, {m.fil}) /\ D \subseteq Clusters \cup {0} /\ m.fil \in FILs
    /\ Steady(t, V, Cards, {m.cdir}, {m.fil}, w) /\ Prepared(w, D, c, s)
    /\ n \in Names /\ \A y \in Live(w, s) : EntryAt(w, y).name # n

LEMMA RegisterOrFreeIs ==
    ASSUME NEW V, NEW D, NEW w, NEW t, NEW c, NEW s, NEW n, Unregistered(t, V, D, w, c, s, n),
           NEW r \in RegisterOrFree(t, s, Dir(n, c))
    PROVE  Ends("f_mkdir", r, Fits)
<1> DEFINE C == {m.cdir}
           F == {m.fil}
           U == From(w, D, {c})
           e == Dir(n, c)
           g == dir_register(At(t.now), s, e)
           all == t.seen \cup g.t.seen
<1>0. /\ V = Calm({m.cdir}, {m.fil}) /\ D \subseteq Clusters \cup {0} /\ m.fil \in FILs
      /\ Steady(t, V, Cards, {m.cdir}, {m.fil}, w) /\ Prepared(w, D, c, s)
      /\ n \in Names /\ \A y \in Live(w, s) : EntryAt(w, y).name # n
  BY DEF Unregistered
<1> USE <1>0
<1>1. /\ Single(w, D) /\ RawOk(w) /\ Loose(w, D, c) /\ c \in Clusters /\ m.cdir \in D
      /\ Proper(w.fat, c) /\ s \in D /\ C \subseteq D /\ \A f \in F : Held(w, D, f)
      /\ Forest(w, D)
  BY DEF Prepared, Loose, Proper, Single
<1>2. V = Calm(C, F) /\ C \subseteq Clusters \cup {0} /\ F \subseteq FILs /\ m.cdir \in C
  BY <1>1
<1>3. V \subseteq Cards
  BY CalmCards
<1>4. e.clust = c
  BY DEF Dir
<1>5. \A x \in RegisterOrFree(t, s, e) :
         \/ g.ok /\ x \in Runs(Flush([g.t EXCEPT !.seen = all]), "OK")
         \/ \E y \in g.t.seen : /\ ~g.ok \/ y # g.t.now
                                /\ x \in Runs(remove_chain([now |-> y, seen |-> all], e.clust),
                                        IF g.ok \/ y # g.t.now THEN "DISK_ERR" ELSE "DENIED")
  BY DEF RegisterOrFree
<1>6. Steady(t, V, Cards, C, F, w)
  OBVIOUS
<1> HIDE DEF C, F, U
<1>7. U \subseteq V
  <2>1. From(w, D, {c}) \subseteq Calm(C, F)
    BY ONLY <1>1, FromCalm
  <2> QED BY <1>2, <2>1 DEF U
<1>8. w \in U /\ \A d \in {c} : Proper(w.fat, d)
  BY <1>1, FromItself DEF U
<1>9. Steady(At(t.now), U, Cards, C, F, w)
  <2>1. /\ t.now \in Machines(V, Cards, C, F) /\ t.now.vol = w /\ w.raw = {} /\ t.now.disk.raw = {}
        /\ t.now.disk \in Cards /\ t.now.cdir \in C /\ t.now.fil \in F
    BY <1>6, SteadyIs
  <2>2. t.now \in Machines(U, Cards, C, F)
    BY <1>8, <2>1 DEF Machines
  <2>3. At(t.now) = [now |-> t.now, seen |-> {t.now}]
    BY DEF At
  <2>4. Passing(At(t.now), Machines(U, Cards, C, F)) /\ At(t.now).now = t.now
    BY <2>2, <2>3 DEF Passing
  <2> QED BY <1>3, <1>7, <2>1, <2>4 DEF Steady
<1>10. Base(w, s) \notin {c}
  <2>1. CASE IsStatic(w, s)
    BY <1>1, <2>1, ClustersAre DEF IsStatic, Base
  <2>2. CASE ~IsStatic(w, s)
    BY <1>1, <2>2, BaseOwner DEF Loose
  <2> QED BY <2>1, <2>2
<1>11. Registers(g, U, Cards, C, F, w, D, {c}, s, e)
  <2>1. From(w, D, {c}) \subseteq U
    BY DEF U
  <2> HIDE DEF e
  <2> QED BY ONLY <1>1, <1>8, <1>9, <1>10, <2>1, RegisterIs DEF g
<1> HIDE DEF g
<1>110. Registered(g, U, V, C, F, w)
  <2>1. U = From(w, D, {c}) /\ V = Calm({m.cdir}, {m.fil})
    BY DEF U
  <2>2. /\ Prepared(w, D, c, s) /\ n \in Names /\ (\A y \in Live(w, s) : EntryAt(w, y).name # n)
        /\ Registers(g, U, Cards, C, F, w, D, {c}, s, Dir(n, c))
    BY <1>11
  <2> QED BY ONLY <1>3, <1>7, <2>1, <2>2, RegisterSeen
<1>12. /\ ~g.ok => Steady(g.t, U, Cards, C, F, w)
       /\ g.ok => /\ Passing(g.t, Machines(V, Cards, C, F)) /\ g.t.now.vol.raw = {}
                  /\ \A x \in g.t.seen : x # g.t.now => x \in Machines(U, Cards, C, F)
  BY <1>110 DEF Registered
<1>13. Machines(U, Cards, C, F) \subseteq Machines(V, Cards, C, F)
  BY ONLY <1>7, MachinesMore
<1>14. g.t.seen \subseteq Machines(V, Cards, C, F) /\ g.t.now \in g.t.seen
       /\ t.seen \subseteq Machines(V, Cards, C, F) /\ g.t = [now |-> g.t.now, seen |-> g.t.seen]
  BY <1>6, <1>12, <1>13 DEF Steady, Passing
<1>15. all \subseteq Machines(V, Cards, C, F) /\ g.t.seen \subseteq all
  BY <1>14
<1> HIDE DEF all
<1>16. CASE g.ok /\ r \in Runs(Flush([g.t EXCEPT !.seen = all]), "OK")
  <2> DEFINE a == [g.t EXCEPT !.seen = all]
             u == Flush(a)
             y == a.now.vol
  <2>1. a = [now |-> g.t.now, seen |-> all]
    BY <1>14
  <2>2. g.t.now \in all
    BY <1>14, <1>15
  <2>3. Passing(a, Machines(V, Cards, C, F))
    BY <1>15, <2>1, <2>2, PassingAt
  <2>4. a.now.vol = y /\ y.raw = {}
    BY <1>12, <1>16, <2>1
  <2> HIDE DEF a, y
  <2>5. Steady(Flush(a), V, Cards, C, F, y) /\ Flush(a).now.disk = y
    BY ONLY <1>3, <2>3, <2>4, SteadyFlush
  <2>6. r \in Runs(u, "OK")
    BY <1>16 DEF a
  <2> HIDE DEF u
  <2>7. Steady(u, Calm(C, F), Cards, C, F, y) /\ u.now.vol = u.now.disk
    BY <1>2, <2>5 DEF u, Steady
  <2>8. "f_mkdir" \in {"f_chdir", "f_mkdir", "f_unlink", "f_close"}
    OBVIOUS
  <2> QED BY ONLY <1>2, <2>6, <2>7, <2>8, SteadyEnds
<1>17. ASSUME NEW x \in g.t.seen, ~g.ok \/ x # g.t.now,
              r \in Runs(remove_chain([now |-> x, seen |-> all], e.clust),
                        IF g.ok \/ x # g.t.now THEN "DISK_ERR" ELSE "DENIED")
       PROVE  Ends("f_mkdir", r, Fits)
  <2> DEFINE res == IF g.ok \/ x # g.t.now THEN "DISK_ERR" ELSE "DENIED"
  <2>1. x \in Machines(U, Cards, C, F)
    BY <1>12, <1>17 DEF Steady, Passing
  <2>2. x.vol \in U
    BY <2>1, MachineIs
  <2>3. Prepared(x.vol, D, c, s)
    BY <2>2, PreparedFrom DEF U
  <2>4. res # "OK" /\ (res # "DISK_ERR" => x.vol.raw = {} /\ x.disk.raw = {})
    BY <1>12 DEF Steady
  <2>5. r \in Runs(remove_chain([now |-> x, seen |-> all], c), res)
    BY <1>4, <1>17
  <2> HIDE DEF res
  <2>6. all \subseteq Machines(V, Cards, {m.cdir}, {m.fil}) /\ x \in all
    BY <1>15, <1>17 DEF C, F
  <2>7. V = Calm({m.cdir}, {m.fil}) /\ D \subseteq Clusters \cup {0} /\ m.fil \in FILs
    OBVIOUS
  <2> QED BY ONLY <2>3, <2>4, <2>5, <2>6, <2>7, FreeAgain
<1> QED BY <1>5, <1>16, <1>17

LEMMA MakeTableIs ==
    ASSUME NEW D, Standing(D), NEW V, V = Calm({m.cdir}, {m.fil}),
           NEW C, C = {m.cdir}, NEW F, F = {m.fil},
           NEW c, NEW u, NewIs(m.vol, D, {}, c, u), NEW t, Steady(t, V, Cards, C, F, u),
           NEW s \in D, NEW w, w = WithTable(u, c, DotEntries(c, s))
    PROVE  /\ Prepared(w, D, c, s) /\ Alike(m.vol, w, D)
           /\ Steady(MakeTable(t, c, s), V, Cards, C, F, w)
<1> DEFINE v == m.vol
           es == DotEntries(c, s)
           f == m.fil
<1>1. /\ Single(v, D) /\ Held(v, D, f) /\ m.cdir \in D /\ v.raw = {} /\ D \subseteq Clusters \cup {0}
      /\ C \subseteq D /\ \A x \in F : Held(v, D, x)
  BY StandingIs DEF Standing
<1>2. /\ u \in From(v, D, {}) /\ Loose(u, D, c) /\ u.fat[c] = Eoc /\ c \in Clusters
      /\ u.raw = v.raw /\ \A d : Proper(v.fat, d) => d # c
  BY DEF NewIs
<1>3. Single(u, D) /\ RawOk(u) /\ Alike(v, u, D)
  BY <1>2 DEF From
<1>4. es \in [0..(PerSector - 1) -> Entry]
  BY <1>1, <1>2, DotEntriesAre
<1>5. w = WithTable(u, c, es)
  OBVIOUS
<1> HIDE DEF v, es, f
<1>6. w \in From(u, D, {}) /\ Loose(w, D, c) /\ w.fat = u.fat /\ w.tab[c] = es /\ w.raw = u.raw
  BY ONLY <1>2, <1>3, <1>4, <1>5, RetabledFrom
<1>7. Held(w, D, f)
  BY <1>1, <1>2, <1>3, <1>6, HeldFrom
<1>8. Single(w, D) /\ RawOk(w) /\ Alike(v, w, D)
  BY <1>3, <1>6, AlikeBoth DEF From
<1>9. f.open /\ f.org \in Clusters => f.org # c
  BY <1>1, <1>2 DEF Held, OwnsStart
<1>10. Prepared(w, D, c, s)
  BY <1>1, <1>2, <1>6, <1>7, <1>8, <1>9 DEF Prepared, es, f
<1>11. V \subseteq Cards
  BY CalmCards
<1>12. w \in V
  <2>1. C \subseteq D /\ \A x \in F : Held(w, D, x)
    BY <1>1, <1>7 DEF f
  <2>2. w \in Image
    BY <1>8 DEF Single, Forest
  <2> QED BY <1>8, <2>1, <2>2 DEF Calm
<1> DEFINE x == Flush(t)
           y == PutTable(x, c, es)
<1>13. MakeTable(t, c, s) = Flush(y)
  BY DEF MakeTable, es
<1>14. /\ Passing(t, Machines(V, Cards, C, F)) /\ t.now.vol = u /\ u.raw = {}
  BY DEF Steady
<1>15. Steady(x, V, Cards, C, F, u)
  BY <1>11, <1>14, SteadyFlush
<1>16. y = Write(x, Tab(c), w)
  <2>1. x.now.vol = u
    BY <1>15 DEF Steady
  <2> HIDE DEF x
  <2> QED BY <1>5, <2>1 DEF PutTable, WithTable
<1>17. Tab(c) \in Windows /\ w.raw = {} /\ V \subseteq V
  BY <1>2, <1>6, <1>14, WindowsAre, SizesAre
<1> HIDE DEF x, y
<1> DEFINE z == Tab(c)
<1> HIDE DEF z
<1>18. Steady(Write(x, z, w), V, Cards, C, F, w)
  <2>1. z \in Windows
    BY <1>17 DEF z
  <2>2. w.raw = {} /\ V \subseteq V
    BY <1>17
  <2> QED BY ONLY <1>11, <1>12, <1>15, <2>1, <2>2, SteadyWrite
<1>19. Steady(y, V, Cards, C, F, w)
  BY <1>16, <1>18 DEF z
<1>20. Passing(y, Machines(V, Cards, C, F)) /\ y.now.vol = w
  BY <1>19 DEF Steady
<1>21. Steady(Flush(y), V, Cards, C, F, w)
  BY <1>11, <1>17, <1>20, SteadyFlush
<1> QED BY <1>8, <1>10, <1>13, <1>21 DEF v

LEMMA MkdirIs ==
    ASSUME NEW D, Standing(D), NEW p \in Paths, NEW r \in f_mkdir(p)
    PROVE  Ends("f_mkdir", r, Fits)
<1> DEFINE f == follow_path(Start, p)
           C == {m.cdir}
           F == {m.fil}
           v == m.vol
           V == Calm(C, F)
           a == create_chain(f.t, 0)
<1>1. /\ V \subseteq Cards /\ v \in V /\ F \subseteq FILs /\ m.cdir \in C /\ v \in Image
      /\ m.fil \in F /\ m.fil \in FILs /\ Single(v, D) /\ C \subseteq Clusters \cup {0} /\ C \subseteq D
      /\ D \subseteq Clusters \cup {0} /\ \A x \in F : Held(v, D, x)
  BY StandingIs, CalmCards DEF Standing
<1>2. V = Calm({m.cdir}, {m.fil}) /\ C = {m.cdir} /\ F = {m.fil} /\ v = m.vol
  OBVIOUS
<1> HIDE DEF V, C, F
<1>3. Steady(Start, V, Cards, C, F, v)
  BY ONLY Standing(D), <1>1, StartIs DEF v
<1>4. PathIs(f, V, Cards, C, F, v, D, p)
  BY ONLY <1>1, <1>3, p \in Paths, FollowPathIs
<1> HIDE DEF v
<1>5. f_mkdir(p) =
         IF f.res = "OK" THEN Runs(f.t, "EXIST")
         ELSE IF f.res # "NO_FILE" THEN Runs(f.t, f.res)
         ELSE IF IsDot(f.name) THEN Runs(f.t, "INVALID_NAME")
         ELSE MakeDirectory(f, a)
  BY DEF f_mkdir, Refuse
<1> HIDE DEF f
<1>6. Steady(f.t, V, Cards, C, F, v)
  BY <1>4 DEF PathIs, LeadsTo, Leads
<1>7. ASSUME NEW x, Steady(x, V, Cards, C, F, v), NEW res, res # "OK", r \in Runs(x, res)
      PROVE  Ends("f_mkdir", r, Fits)
  <2>1. "f_mkdir" \in {"f_chdir", "f_mkdir", "f_unlink", "f_close"}
    OBVIOUS
  <2> QED BY ONLY <1>1, <1>2, <1>7, <2>1, SteadyEnds
<1>8. CASE f.res = "OK"
  <2>1. r \in Runs(f.t, "EXIST")
    BY <1>5, <1>8
  <2> QED BY <1>6, <1>7, <2>1
<1>9. CASE f.res # "OK" /\ f.res # "NO_FILE"
  BY <1>5, <1>6, <1>7, <1>9
<1>10. CASE f.res = "NO_FILE" /\ IsDot(f.name)
  <2>1. r \in Runs(f.t, "INVALID_NAME")
    BY <1>5, <1>10
  <2> QED BY <1>6, <1>7, <2>1
<1>11. CASE f.res = "NO_FILE" /\ ~IsDot(f.name)
  <2>1. r \in MakeDirectory(f, a)
    BY <1>5, <1>11
  <2>2. f.s \in D /\ f.name \in Names /\ \A x \in Live(v, f.s) : EntryAt(v, x).name # f.name
    BY <1>4, <1>11 DEF PathIs, LeadsTo, Leads, IsDot
  <2>3. Made(a, V, Cards, C, F, v, D, {})
    <3>1. From(v, D, {}) \subseteq V
      BY ONLY <1>1, <1>2, FromCalm
    <3>2. \A d \in {} : Proper(v.fat, d)
      OBVIOUS
    <3> QED BY ONLY <1>1, <1>6, <3>1, <3>2, NewChain
  <2> HIDE DEF a
  <2>4. CASE a.r = 0
    <3>1. Steady(a.t, V, Cards, C, F, v)
      BY <2>3, <2>4, ClustersAre DEF Made, NewIs
    <3>2. r \in Runs(a.t, "DENIED")
      BY <2>1, <2>4 DEF MakeDirectory
    <3> QED BY <1>7, <3>1, <3>2
  <2>5. CASE a.r # 0
    <3>1. PICK u : NewIs(v, D, {}, a.r, u) /\ Steady(a.t, V, Cards, C, F, u)
      BY <2>3, <2>5 DEF Made
    <3> DEFINE c == a.r
               s == f.s
               n == f.name
               w == WithTable(u, c, DotEntries(c, s))
               t == MakeTable(a.t, c, s)
    <3>2. r \in RegisterOrFree(t, s, Dir(n, c))
      BY <2>1, <2>5 DEF MakeDirectory
    <3>3. NewIs(m.vol, D, {}, c, u) /\ s \in D
      BY <2>2, <3>1 DEF v
    <3>4. Prepared(w, D, c, s) /\ Alike(v, w, D) /\ Steady(t, V, Cards, C, F, w)
      <4>1. w = WithTable(u, c, DotEntries(c, s)) /\ Steady(a.t, V, Cards, C, F, u)
        BY <3>1
      <4> HIDE DEF c, s, w
      <4>2. Prepared(w, D, c, s) /\ Alike(m.vol, w, D) /\ Steady(MakeTable(a.t, c, s), V, Cards, C, F, w)
        BY ONLY Standing(D), <1>2, <3>3, <4>1, MakeTableIs
      <4> QED BY <4>2 DEF v
    <3> HIDE DEF c, s, n, w, t
    <3>5. n \in Names /\ \A y \in Live(w, s) : EntryAt(w, y).name # n
      BY <2>2, <3>4 DEF Alike, s, n
    <3>6. Steady(t, V, Cards, {m.cdir}, {m.fil}, w) /\ V = Calm({m.cdir}, {m.fil})
      BY <1>2, <3>4
    <3>7. D \subseteq Clusters \cup {0} /\ m.fil \in FILs /\ Prepared(w, D, c, s)
      BY <1>1, <3>4
    <3>8. Unregistered(t, V, D, w, c, s, n)
      BY ONLY <3>5, <3>6, <3>7 DEF Unregistered
    <3> QED BY ONLY <3>2, <3>8, RegisterOrFreeIs
  <2> QED BY <2>4, <2>5
<1>12. f.res \in {"OK", "NO_FILE", "NO_PATH"}
  BY <1>4 DEF PathIs, LeadsTo, Leads
<1> QED BY <1>8, <1>9, <1>10, <1>11

----------------------------------------------------------------------------
(* The calls: f_open *)

LEMMA ClosedIs == Closed \in FILs /\ ~Closed.open /\ \A v, D : Held(v, D, Closed)
<1>1. <<0, 0>> \in Slot
  BY SizesAssumption DEF Slot
<1> DEFINE at == <<0, 0>>
<1>2. at \in Slot
  BY <1>1
<1> HIDE DEF at
<1>3. [open |-> FALSE, at |-> at, org |-> 0, cur |-> 0, written |-> FALSE, err |-> FALSE] \in FILs
  BY <1>2 DEF FILs
<1>4. Closed = [open |-> FALSE, at |-> at, org |-> 0, cur |-> 0, written |-> FALSE, err |-> FALSE]
  BY DEF Closed, at
<1>5. ~Closed.open
  BY DEF Closed
<1> QED BY <1>3, <1>4, <1>5 DEF Held

LEMMA SteadyFil ==
    ASSUME NEW V, NEW W, NEW C, NEW F, NEW v, NEW t, Steady(t, V, W, C, F, v), NEW f \in F
    PROVE  Steady(SetFil(t, f), V, W, C, F, v)
<1> DEFINE n == [t.now EXCEPT !.fil = f]
           M == Machines(V, W, C, F)
<1>1. t.now \in M /\ Passing(t, M) /\ t.now.vol = v /\ v.raw = {} /\ t.now.disk.raw = {} /\ V \subseteq W
  BY SteadyIs
<1>2. n \in M /\ n.vol = v /\ n.disk = t.now.disk
  BY <1>1 DEF Machines
<1> HIDE DEF n, M
<1>3. Passing(Become(t, n), M) /\ Become(t, n).now = n
  BY <1>1, <1>2, BecomeIs
<1> QED BY <1>1, <1>2, <1>3 DEF SetFil, n, M, Steady

\* The machine as it is, with another FIL.
LEMMA RefilIs ==
    ASSUME NEW n \in Machines(Image, Image, Clusters \cup {0}, FILs), NEW f \in FILs,
           RawOk(n.vol), n.disk \in Cards,
           NEW D, Single(n.vol, D), n.cdir \in D, Held(n.vol, D, f)
    PROVE  [n EXCEPT !.fil = f] \in Fits
<1> DEFINE x == [n EXCEPT !.fil = f]
<1>1. /\ x \in Machines(Image, Image, Clusters \cup {0}, FILs)
      /\ x.vol = n.vol /\ x.disk = n.disk /\ x.cdir = n.cdir /\ x.fil = f
  BY DEF Machines
<1> HIDE DEF x
<1>2. RawOk(n.disk)
  BY DEF Cards
<1>3. x \in Fits
  BY <1>1, <1>2 DEF Fits
<1> QED BY <1>3 DEF x

LEMMA FitsClosed ==
    ASSUME NEW n \in Fits
    PROVE  [n EXCEPT !.fil = Closed] \in Fits
<1>1. /\ n \in Machines(Image, Image, Clusters \cup {0}, FILs) /\ RawOk(n.vol) /\ n.disk \in Cards
      /\ \E D : Single(n.vol, D) /\ n.cdir \in D
  BY DEF Fits
<1>2. PICK D : Single(n.vol, D) /\ n.cdir \in D
  BY <1>1
<1> QED BY <1>1, <1>2, ClosedIs, RefilIs

\* The end of f_open: the FIL is the last thing to be set.
LEMMA OpenEnds ==
    ASSUME NEW V, NEW C, C \subseteq Clusters \cup {0}, NEW F, F \subseteq FILs, V = Calm(C, F),
           NEW v, NEW t, Steady(t, V, Cards, C, F, v),
           NEW D, Single(v, D), C \subseteq D, NEW f \in FILs, Held(v, D, f),
           NEW r, r.t = SetFil(t, f) \/ r.t = t
    PROVE  Ends("f_open", r, Fits)
<1> DEFINE n == [t.now EXCEPT !.fil = f]
           M == Machines(V, Cards, C, F)
<1>1. t.now \in M /\ Passing(t, M) /\ t.now.vol = v /\ t.now.disk.raw = {} /\ t.now.cdir \in C
      /\ t.now.disk \in Cards
  BY SteadyIs
<1>2. \A x \in M : x \in Fits
  BY CalmFits
<1>3. n \in Fits /\ n.disk = t.now.disk
  <2>1. t.now \in Machines(Image, Image, Clusters \cup {0}, FILs) /\ RawOk(t.now.vol)
    BY <1>1, <1>2 DEF Fits
  <2>2. n \in Fits
    BY <1>1, <2>1, RefilIs
  <2> QED BY <1>1, <2>2 DEF Machines
<1>4. r.t.seen \subseteq Fits /\ r.t.now \in Fits /\ r.t.now.disk.raw = {}
  <2>1. CASE r.t = t
    BY <1>1, <1>2, <2>1 DEF Passing
  <2>2. CASE r.t = SetFil(t, f)
    <3>1. r.t.now = n /\ r.t.seen = t.seen \cup {n}
      BY <2>2 DEF SetFil, Become
    <3> HIDE DEF n, M
    <3> QED BY <1>1, <1>2, <1>3, <3>1 DEF Passing
  <2> QED BY <2>1, <2>2
<1>5. \A w \in Fits : AfterError("f_open", w) \in Fits
  BY FitsClosed DEF AfterError
<1>6. "f_open" \notin Synced
  BY DEF Synced
<1> QED BY <1>4, <1>5, <1>6 DEF Ends, Finished

\* A file that was found.
LEMMA HeldFound ==
    ASSUME NEW v, NEW D, Single(v, D), NEW s \in D, NEW at \in Live(v, s), ~EntryAt(v, at).dir,
           NEW f, f.at = at, f.org = EntryAt(v, at).clust, f.cur = 0
    PROVE  Held(v, D, f)
<1>1. HasEntry(v, D, f)
  BY DEF HasEntry
<1>2. ASSUME f.org \in Clusters PROVE OwnsStart(v, D, f)
  <2>1. Proper(v.fat, f.org) /\ f.org # v.dirbase
    BY <1>2 DEF Single, Forest, HeadsProper
  <2>2. \A t \in D : \A bt \in Live(v, t) : bt # f.at => EntryAt(v, bt).clust # f.org
    BY <1>2 DEF Single, NamedOnce
  <2> QED BY <2>1, <2>2 DEF OwnsStart
<1> QED BY <1>1, <1>2 DEF Held

FileAddedIs(w, D, C, F, at) ==
    /\ w \in Calm(C, F) /\ Single(w, D) /\ at \in Tables \X (0..(PerSector - 1))
    /\ \A f : f.at = at /\ f.org = 0 /\ f.cur = 0 => Held(w, D, f)

LEMMA FileAdded ==
    ASSUME NEW u, NEW D, Single(u, D), RawOk(u), NEW C, C \subseteq D,
           NEW F, \A f \in F : Held(u, D, f),
           NEW s \in D, NEW at, FirstFree(u, s, at),
           NEW n \in Names, \A x \in Live(u, s) : EntryAt(u, x).name # n,
           NEW w, w = WithEntry(u, at, File(n, 0))
    PROVE  FileAddedIs(w, D, C, F, at)
<1> DEFINE e == File(n, 0)
<1>1. /\ e \in Entry /\ e.name \in Names /\ ~e.dir /\ e.clust = 0 /\ e.clust \notin Clusters
      /\ \A x \in Live(u, s) : EntryAt(u, x).name # e.name
  BY ClustersAre DEF File, Entry
<1>2. w = WithEntry(u, at, e)
  OBVIOUS
<1>3. Forest(u, D) /\ u \in Image /\ Linked(u.fat) /\ HasTable(u, s)
  BY DEF Single, Forest, IsTree
<1> HIDE DEF e
<1>4. Single(w, D)
  BY ONLY Single(u, D), s \in D, FirstFree(u, s, at), <1>1, <1>2, AddedFile
<1>5. /\ PutIs(u, w, D, s, at, e) /\ at \in SlotsOf(u, s) /\ Live(w, s) = Live(u, s) \cup {at}
  BY ONLY <1>1, <1>2, <1>3, s \in D, FirstFree(u, s, at), Added
<1>6. w.raw = u.raw /\ w \in Image /\ EntryAt(w, at) = e
  BY <1>5 DEF PutIs
<1>7. at \in Tables \X (0..(PerSector - 1))
  BY <1>3, <1>5, SlotsTyped
<1>8. \A f \in F : Held(w, D, f)
  <2> SUFFICES ASSUME NEW f \in F PROVE Held(w, D, f)
    OBVIOUS
  <2>1. f.open /\ f.org \in Clusters /\ e.clust = f.org =>
            \E y \in D : \E x \in Live(u, y) : x # f.at /\ EntryAt(u, x).clust = f.org
    BY <1>1
  <2>2. D \subseteq D /\ \A t \in D \ D : Live(w, t) = {}
    OBVIOUS
  <2>3. Held(u, D, f)
    OBVIOUS
  <2> QED BY ONLY <1>1, <1>2, <1>3, <2>1, <2>2, <2>3, s \in D, FirstFree(u, s, at), HeldAdded
<1>9. RawOk(w)
  BY <1>6 DEF RawOk
<1>10. \A f : f.at = at /\ f.org = 0 /\ f.cur = 0 => Held(w, D, f)
  BY <1>1, <1>5, <1>6, ClustersAre DEF Held, HasEntry
<1> QED BY <1>4, <1>6, <1>7, <1>8, <1>9, <1>10 DEF FileAddedIs, Calm

\* A FIL that was just opened, with an entry in slot at and the start cluster c.
NewIn(x, at, c) == x \in FILs /\ x.at = at /\ x.org = c /\ x.cur = 0

LEMMA NewFil ==
    ASSUME NEW at \in Tables \X (0..(PerSector - 1)), NEW c \in Clusters \cup {0, Bad},
           NEW x,
           \/ x = [Closed EXCEPT !.open = TRUE, !.at = at, !.org = c]
           \/ x = [Closed EXCEPT !.open = TRUE, !.at = at, !.written = TRUE] /\ c = 0
    PROVE  NewIn(x, at, c)
<1>1. at \in Slot
  BY DEF Slot
<1> QED BY <1>1 DEF Closed, FILs, NewIn

LEMMA OpenIs ==
    ASSUME NEW D, Standing(D), NEW p \in Paths, ~EndsInDots(p), NEW new \in BOOLEAN,
           NEW r \in f_open(p, new)
    PROVE  Ends("f_open", r, Fits)
<1> DEFINE t0 == SetFil(Start, Closed)
           f == follow_path(t0, p)
           C == {m.cdir}
           F == {m.fil, Closed}
           v == m.vol
           V == Calm(C, F)
           e == File(f.name, 0)
           g == dir_register(f.t, f.s, e)
<1>1. /\ F \subseteq FILs /\ m.cdir \in C /\ v \in Image /\ v.raw = {}
      /\ m.fil \in F /\ Closed \in F /\ Single(v, D) /\ C \subseteq Clusters \cup {0} /\ C \subseteq D
      /\ D \subseteq Clusters \cup {0} /\ RawOk(v) /\ \A x \in F : Held(v, D, x)
  BY StandingIs, ClosedIs DEF Standing
<1>2. V \subseteq Cards /\ V = Calm(C, F) /\ v \in V /\ From(v, D, {}) \subseteq V
  <2>1. V \subseteq Cards
    BY CalmCards
  <2>2. From(v, D, {}) \subseteq Calm(C, F)
    <3> HIDE DEF C, F, v
    <3> QED BY ONLY <1>1, FromCalm
  <2> HIDE DEF C, F, v
  <2> QED BY <1>1, <2>1, <2>2 DEF Calm
<1>3. f_open(p, new) = OpenFound(p, new, f, g)
  BY DEF f_open
<1> HIDE DEF V, C, F
<1>4. Steady(t0, V, Cards, C, F, v)
  <2>1. Steady(Start, V, Cards, C, F, v)
    BY ONLY Standing(D), <1>1, <1>2, StartIs DEF v
  <2> QED BY <1>1, <2>1, SteadyFil
<1> HIDE DEF t0
<1>5. PathIs(f, V, Cards, C, F, v, D, p)
  BY ONLY <1>1, <1>4, p \in Paths, FollowPathIs
<1> HIDE DEF v, f
<1>6. Steady(f.t, V, Cards, C, F, v)
  BY <1>5 DEF PathIs, LeadsTo, Leads
<1>7. CASE f.res = "OK" /\ p.segs # <<>> /\ ~f.e.dir
  <2> DEFINE x == [Closed EXCEPT !.open = TRUE, !.at = f.at, !.org = f.e.clust]
             u == SetFil(f.t, x)
  <2>1. r \in Runs(u, "OK")
    BY <1>3, <1>7 DEF OpenFound
  <2>2. ~IsDot(f.name)
    <3>1. f.at \in SlotsOf(v, f.s) /\ f.e = EntryAt(v, f.at) /\ f.e.name = f.name /\ f.s \in D
      BY <1>5, <1>7 DEF PathIs, LeadsTo, Leads
    <3>2. EntryAt(v, f.at).name \in Dots => EntryAt(v, f.at).dir
      BY ONLY <1>1, <3>1, SlotLeads
    <3> QED BY <1>7, <3>1, <3>2 DEF IsDot
  <2>3. /\ f.s \in D /\ f.at \in Live(v, f.s) /\ f.e = EntryAt(v, f.at)
        /\ f.at \in Tables \X (0..(PerSector - 1)) /\ f.e.clust \in Clusters \cup {0, Bad}
    <3>1. f.res = "OK" /\ p.segs # <<>>
      BY <1>7
    <3> QED BY ONLY <1>1, <1>5, <2>2, <3>1, PathLive
  <2>4. x \in FILs /\ x.at = f.at /\ x.org = f.e.clust /\ x.cur = 0
    <3> DEFINE at == f.at
               c == f.e.clust
    <3>1. at \in Tables \X (0..(PerSector - 1)) /\ c \in Clusters \cup {0, Bad}
      BY <2>3
    <3>2. x = [Closed EXCEPT !.open = TRUE, !.at = at, !.org = c]
      OBVIOUS
    <3> HIDE DEF at, c, x
    <3>3. NewIn(x, at, c)
      BY ONLY <3>1, <3>2, NewFil
    <3> QED BY <3>3 DEF at, c, NewIn
  <2> HIDE DEF x
  <2>5. ~EntryAt(v, f.at).dir /\ x.org = EntryAt(v, f.at).clust
    BY <1>7, <2>3, <2>4
  <2>6. Held(v, D, x)
    BY ONLY <1>1, <2>3, <2>4, <2>5, HeldFound
  <2>7. r.t = SetFil(f.t, x) \/ r.t = f.t
    BY <2>1, OneRun
  <2> QED BY ONLY <1>1, <1>2, <1>6, <2>4, <2>6, <2>7, OpenEnds
<1>8. CASE f.res = "NO_FILE" /\ new
  <2>1. /\ f.s \in D /\ f.name \in Names /\ \A x \in Live(v, f.s) : EntryAt(v, x).name # f.name
    BY <1>5, <1>8 DEF PathIs, LeadsTo, Leads, EndsInDots, IsDot
  <2>2. Registers(g, V, Cards, C, F, v, D, {}, f.s, e)
    <3>1. (\A d \in {} : Proper(v.fat, d)) /\ Base(v, f.s) \notin {}
      OBVIOUS
    <3> HIDE DEF e
    <3> QED BY ONLY <1>1, <1>2, <1>6, <2>1, <3>1, RegisterIs
  <2> HIDE DEF g
  <2>3. CASE ~g.ok
    <3>1. Steady(g.t, V, Cards, C, F, v)
      BY <2>2, <2>3 DEF Registers
    <3>2. r \in Runs(g.t, f.res)
      BY <1>3, <1>8, <2>3 DEF OpenFound, Refuse
    <3>3. r.t = SetFil(g.t, Closed) \/ r.t = g.t
      BY <3>2, OneRun
    <3>4. Held(v, D, Closed) /\ Closed \in FILs
      BY ClosedIs
    <3> QED BY ONLY <1>1, <1>2, <3>1, <3>3, <3>4, OpenEnds
  <2>4. CASE g.ok
    <3>1. \E u, q : /\ u \in From(v, D, {}) /\ Steady(q, V, Cards, C, F, u)
                    /\ FirstFree(u, f.s, g.at) /\ g.t = PutEntry(q, g.at, e)
      BY <2>2, <2>4 DEF Registers
    <3>2. PICK u, q : /\ u \in From(v, D, {}) /\ Steady(q, V, Cards, C, F, u)
                      /\ FirstFree(u, f.s, g.at) /\ g.t = PutEntry(q, g.at, e)
      BY <3>1
    <3> DEFINE at == g.at
               w == WithEntry(u, at, e)
               x == [Closed EXCEPT !.open = TRUE, !.at = at, !.written = TRUE]
    <3>3. Single(u, D) /\ Alike(v, u, D) /\ RawOk(u) /\ u \in Image
      BY <3>2 DEF From
    <3>4. \A y \in F : Held(u, D, y)
      BY <1>1, <3>2, HeldFrom
    <3>5. \A y \in Live(u, f.s) : EntryAt(u, y).name # f.name
      BY <2>1, <3>3 DEF Alike
    <3>6. w = WithEntry(u, at, File(f.name, 0)) /\ FirstFree(u, f.s, at)
      BY <3>2
    <3>7. r \in Runs(SetFil(g.t, x), "OK")
      BY <1>3, <1>8, <2>4 DEF OpenFound
    <3>8. g.t = PutEntry(q, at, e) /\ w = WithEntry(u, at, e)
      BY <3>2
    <3> HIDE DEF at, w
    <3>9. FileAddedIs(w, D, C, F, at)
      BY ONLY <1>1, <2>1, <3>3, <3>4, <3>5, <3>6, FileAdded
    <3>10. w \in V /\ Single(w, D) /\ at \in Tables \X (0..(PerSector - 1))
      BY <1>2, <3>9 DEF FileAddedIs
    <3> HIDE DEF e
    <3>11. Steady(PutEntry(q, at, e), V, Cards, C, F, w)
      <4>1. WithEntry(u, at, e) \in V
        BY <3>8, <3>10
      <4>2. Steady(PutEntry(q, at, e), V, Cards, C, F, WithEntry(u, at, e))
        BY ONLY <3>2, <3>3, <3>10, <4>1, SteadyPutEntry
      <4> QED BY <3>8, <4>2
    <3>12. Steady(g.t, V, Cards, C, F, w)
      BY <3>8, <3>11
    <3>13. x \in FILs /\ x.at = at /\ x.org = 0 /\ x.cur = 0
      <4> DEFINE c == 0
      <4>1. c \in Clusters \cup {0, Bad} /\ c = 0
            /\ x = [Closed EXCEPT !.open = TRUE, !.at = at, !.written = TRUE]
        OBVIOUS
      <4> HIDE DEF c, x
      <4>2. NewIn(x, at, c)
        BY ONLY <3>10, <4>1, NewFil
      <4> QED BY <4>1, <4>2 DEF NewIn
    <3> HIDE DEF x
    <3>14. Held(w, D, x)
      BY <3>9, <3>13 DEF FileAddedIs
    <3>15. r.t = SetFil(g.t, x) \/ r.t = g.t
      BY <3>7, OneRun
    <3> QED BY ONLY <1>1, <1>2, <3>10, <3>12, <3>13, <3>14, <3>15, OpenEnds
  <2> QED BY <2>3, <2>4
<1>9. CASE ~(f.res = "OK" /\ p.segs # <<>> /\ ~f.e.dir) /\ ~(f.res = "NO_FILE" /\ new)
  <2>1. \E res : r \in Runs(f.t, res)
    BY <1>3, <1>9 DEF OpenFound, Refuse
  <2>2. r.t = f.t
    BY <2>1, OneRun
  <2>3. r.t = SetFil(f.t, Closed) \/ r.t = f.t
    BY <2>2
  <2>4. Held(v, D, Closed) /\ Closed \in FILs
    BY ClosedIs
  <2> QED BY ONLY <1>1, <1>2, <1>6, <2>3, <2>4, OpenEnds
<1> QED BY <1>7, <1>8, <1>9

----------------------------------------------------------------------------
(* The calls: f_write *)

\* The FIL that an error leaves is as sound as it was.
Spoilt(g, f) ==
    /\ g \in FILs /\ g.open = f.open /\ g.at = f.at /\ g.cur = f.cur
    /\ g.org = f.org \/ (f.org = 0 /\ g.org = Bad)

LEMMA HeldError ==
    ASSUME NEW v, NEW D, NEW f \in FILs, Held(v, D, f), NEW g, Spoilt(g, f)
    PROVE  Held(v, D, g)
<1>0. /\ g.open = f.open /\ g.at = f.at /\ g.cur = f.cur
      /\ g.org = f.org \/ (f.org = 0 /\ g.org = Bad)
  BY DEF Spoilt
<1>1. CASE g.org = f.org
  BY <1>0, <1>1 DEF Held, HasEntry, OwnsStart
<1>2. CASE f.org = 0 /\ g.org = Bad
  <2>1. f.org \notin Clusters /\ g.org \notin Clusters
    BY <1>2, ClustersAre
  <2> QED BY <1>0, <1>2, <2>1 DEF Held, HasEntry
<1> QED BY <1>0, <1>1, <1>2

LEMMA FilError ==
    ASSUME NEW f \in FILs, NEW g,
           \/ g = [f EXCEPT !.err = TRUE]
           \/ g = [f EXCEPT !.err = TRUE, !.org = IF f.org = 0 THEN Bad ELSE @]
    PROVE  Spoilt(g, f)
BY DEF FILs, Spoilt

LEMMA FitsWrite ==
    ASSUME NEW w \in Fits, w.cdir = m.cdir, m.fil \in FILs,
           NEW D, Single(w.vol, D), w.cdir \in D, Held(w.vol, D, m.fil)
    PROVE  AfterError("f_write", w) \in Fits
<1>1. CASE m.fil.open /\ ~m.fil.err
  <2> DEFINE f == m.fil
             g == [f EXCEPT !.err = TRUE, !.org = IF f.org = 0 THEN Bad ELSE @]
  <2>1. AfterError("f_write", w) = [w EXCEPT !.fil = g]
    BY <1>1 DEF AfterError
  <2>2. f \in FILs /\ g = [f EXCEPT !.err = TRUE, !.org = IF f.org = 0 THEN Bad ELSE @]
    OBVIOUS
  <2>3. Held(w.vol, D, f)
    OBVIOUS
  <2> HIDE DEF f, g
  <2>4. Spoilt(g, f) /\ g \in FILs
    <3>1. Spoilt(g, f)
      BY ONLY <2>2, FilError
    <3> QED BY <3>1 DEF Spoilt
  <2>5. Held(w.vol, D, g)
    BY <2>2, <2>3, <2>4, HeldError
  <2>6. w \in Machines(Image, Image, Clusters \cup {0}, FILs) /\ RawOk(w.vol) /\ w.disk \in Cards
    BY DEF Fits
  <2> QED BY <2>1, <2>4, <2>5, <2>6, RefilIs
<1>2. CASE ~(m.fil.open /\ ~m.fil.err)
  <2>1. AfterError("f_write", w) = [w EXCEPT !.cdir = m.cdir]
    BY <1>2 DEF AfterError
  <2>2. [w EXCEPT !.cdir = m.cdir] = w
    BY DEF Fits, Machines
  <2> QED BY <2>1, <2>2
<1> QED BY <1>1, <1>2

\* The end of f_write: the FIL is the last thing to be set.
LEMMA WriteEnds ==
    ASSUME NEW V, NEW C, C \subseteq Clusters \cup {0}, C = {m.cdir}, m.fil \in FILs,
           V = Calm(C, {m.fil}), NEW v, NEW t, Steady(t, V, Cards, C, {m.fil}, v),
           NEW D, Single(v, D), m.cdir \in D, Held(v, D, m.fil),
           NEW f \in FILs, Held(v, D, f), NEW r, r.t = SetFil(t, f) \/ r.t = t
    PROVE  Ends("f_write", r, Fits)
<1> DEFINE n == [t.now EXCEPT !.fil = f]
           M == Machines(V, Cards, C, {m.fil})
<1>1. t.now \in M /\ Passing(t, M) /\ t.now.vol = v /\ t.now.disk.raw = {} /\ t.now.cdir \in C
      /\ t.now.disk \in Cards
  BY SteadyIs
<1>2. \A x \in M : x \in Fits
  BY CalmFits
<1>3. n \in Fits /\ n.disk = t.now.disk /\ n.vol = v /\ n.cdir = m.cdir
  <2>1. t.now \in Machines(Image, Image, Clusters \cup {0}, FILs) /\ RawOk(t.now.vol)
    BY <1>1, <1>2 DEF Fits
  <2>2. n \in Fits
    BY <1>1, <2>1, RefilIs
  <2> QED BY <1>1, <2>2 DEF Machines
<1>4. \A x \in M : AfterError("f_write", x) \in Fits
  <2> SUFFICES ASSUME NEW x \in M PROVE AfterError("f_write", x) \in Fits
    OBVIOUS
  <2>1. x.vol \in V /\ x.cdir = m.cdir
    BY MachineIs
  <2>2. PICK E : Single(x.vol, E) /\ C \subseteq E /\ \A y \in {m.fil} : Held(x.vol, E, y)
    BY <2>1 DEF Calm
  <2> QED BY <1>2, <2>1, <2>2, FitsWrite
<1>5. AfterError("f_write", n) \in Fits
  <2> HIDE DEF n
  <2> QED BY <1>3, FitsWrite
<1>6. "f_write" \notin Synced
  BY DEF Synced
<1>7. CASE r.t = t
  BY <1>1, <1>2, <1>4, <1>6, <1>7 DEF Passing, Ends, Finished
<1>8. CASE r.t = SetFil(t, f)
  <2>1. r.t.now = n /\ r.t.seen = t.seen \cup {n}
    BY <1>8 DEF SetFil, Become
  <2> HIDE DEF n, M
  <2> QED BY <1>1, <1>2, <1>3, <1>4, <1>5, <1>6, <2>1 DEF Passing, Ends, Finished
<1> QED BY <1>7, <1>8

LEMMA AdvanceIs ==
    ASSUME NEW f \in FILs, NEW c \in Clusters \cup {0}
    PROVE  /\ Advance(f, c) \in FILs /\ Advance(f, c).open = f.open /\ Advance(f, c).at = f.at
           /\ Advance(f, c).org = (IF f.org = 0 THEN c ELSE f.org)
           /\ Advance(f, c).cur = (IF c = 0 THEN f.cur ELSE c)
BY DEF Advance, FILs

\* The file goes on to a cluster of its chain.
LEMMA HeldNext ==
    ASSUME NEW v, NEW D, NEW f, Held(v, D, f), f.org \in Clusters,
           NEW g, g.open = f.open, g.at = f.at, g.org = f.org,
           NEW i \in 1..Len(Chain(v.fat, f.org)), g.cur = Chain(v.fat, f.org)[i]
    PROVE  Held(v, D, g)
BY DEF Held, HasEntry, OwnsStart

\* Its first cluster is a chain of its own.
LEMMA HeldFirst ==
    ASSUME NEW v, NEW D, Single(v, D), NEW f, Held(v, D, f), f.org = 0, NEW n, NEW u,
           NewIs(v, D, {}, n, u),
           NEW g, g.open = f.open, g.at = f.at, g.org = n, g.cur = n
    PROVE  Held(u, D, g)
<1>1. /\ u \in From(v, D, {}) /\ Loose(u, D, n) /\ n \in Clusters
  BY DEF NewIs
<1>2. Single(u, D) /\ Held(u, D, f)
  BY <1>1, HeldFrom DEF From
<1>3. OwnsStart(u, D, g)
  BY <1>1 DEF OwnsStart, Loose, Owner
<1>4. f.open => HasEntry(u, D, g)
  BY <1>2 DEF Held, HasEntry
<1>5. \E i \in 1..Len(Chain(u.fat, n)) : n = Chain(u.fat, n)[i]
  <2>1. u.fat \in Fats /\ Linked(u.fat) /\ Proper(u.fat, n)
    BY <1>1, <1>2, ImageIs DEF Single, Forest, Loose
  <2>2. Chain(u.fat, n)[1] = n /\ Len(Chain(u.fat, n)) \in 1..(MaxClust - 1)
    BY ONLY <2>1, ProperChain
  <2>3. 1 \in 1..Len(Chain(u.fat, n))
    BY <2>2, SizesAssumption
  <2> QED BY <2>2, <2>3
<1> QED BY <1>1, <1>3, <1>4, <1>5 DEF Held

\* The next cluster of the file is a new one, at the end of its chain.
LEMMA HeldLonger ==
    ASSUME NEW v, NEW D, Single(v, D), NEW f, Held(v, D, f), f.org \in Clusters, f.open,
           NEW n, NEW u, NextIs(v, D, {}, f.org, n, u),
           NEW g, g.open = f.open, g.at = f.at, g.org = f.org, g.cur = n
    PROVE  Held(u, D, g)
<1> DEFINE b == f.org
           q == Chain(v.fat, b)
<1>1. u \in From(v, D, {}) /\ Chain(u.fat, b) = Append(q, n)
  BY DEF NextIs
<1>2. Held(u, D, f)
  BY <1>1, HeldFrom
<1>3. v.fat \in Fats /\ Linked(v.fat) /\ Proper(v.fat, b)
  BY ImageIs DEF Single, Forest, Held, OwnsStart
<1>4. q \in Seq(Clusters) /\ Len(q) \in Nat
  <2>1. Chain(v.fat, b) \in Seq(Clusters)
    BY ONLY <1>3, ProperChain
  <2> QED BY <2>1
<1> DEFINE k == Len(q) + 1
           p == Chain(u.fat, b)
<1>5. k \in 1..Len(p) /\ n = p[k]
  <2> HIDE DEF q
  <2>1. Len(Append(q, n)) = Len(q) + 1 /\ Append(q, n)[Len(q) + 1] = n
    BY <1>4
  <2> QED BY <1>1, <1>4, <2>1
<1> HIDE DEF k
<1>6. k \in 1..Len(Chain(u.fat, f.org)) /\ g.cur = Chain(u.fat, f.org)[k]
  BY <1>5
<1> QED BY ONLY <1>2, <1>6, f.org \in Clusters, g.open = f.open, g.at = f.at, g.org = f.org,
            HeldNext

\* What create_chain does at a cluster of the chain that starts at b.
OnIs(a, V, W, C, F, v, D, b) ==
    \/ Stretched(a, V, W, C, F, v, D, {}, b)
    \/ /\ Steady(a.t, V, W, C, F, v) /\ a.r \in Clusters
       /\ \E k \in 1..Len(Chain(v.fat, b)) : a.r = Chain(v.fat, b)[k]

LEMMA ChainOn ==
    ASSUME NEW V, NEW W, NEW C, NEW F, NEW v, NEW t, Steady(t, V, W, C, F, v),
           NEW D, Single(v, D), From(v, D, {}) \subseteq V,
           NEW b, Proper(v.fat, b), NEW i \in 1..Len(Chain(v.fat, b)),
           NEW c, c = Chain(v.fat, b)[i]
    PROVE  OnIs(create_chain(t, c), V, W, C, F, v, D, b)
<1> DEFINE q == Chain(v.fat, b)
           a == create_chain(t, c)
<1>1. v.fat \in Fats /\ Linked(v.fat)
  BY ImageIs DEF Single, Forest
<1>2. /\ IsWalk(v.fat, b, q) /\ q # <<>> /\ Len(q) \in 1..(MaxClust - 1)
      /\ v.fat[q[Len(q)]] = Eoc
      /\ \A j \in 1..Len(q) : q[j] \in Clusters /\ v.fat[q[j]] # 0
  BY ONLY <1>1, Proper(v.fat, b), ProperChain
<1> HIDE DEF q
<1>3. c = q[i] /\ i \in 1..Len(q) /\ c \in Clusters /\ v.fat[c] # 0 /\ Len(q) \in Nat
  BY <1>2, SizesAssumption DEF q
<1>4. CASE i = Len(q)
  <2>1. c = Chain(v.fat, b)[Len(Chain(v.fat, b))]
    BY <1>3, <1>4 DEF q
  <2>2. (\A d \in {} : Proper(v.fat, d)) /\ b \notin {}
    OBVIOUS
  <2>3. Stretched(create_chain(t, c), V, W, C, F, v, D, {}, b)
    BY ONLY <2>1, <2>2, Steady(t, V, W, C, F, v), Single(v, D), From(v, D, {}) \subseteq V,
            Proper(v.fat, b), NextChain
  <2> QED BY <2>3 DEF OnIs
<1>5. CASE i # Len(q)
  <2>1. i \in 1..(Len(q) - 1) /\ i + 1 \in 1..Len(q)
    BY <1>3, <1>5
  <2>2. q[i + 1] = v.fat[q[i]]
    BY <1>2, <2>1 DEF IsWalk
  <2>3. v.fat[c] \in Clusters /\ v.fat[c] = q[i + 1]
    BY <1>2, <1>3, <2>1, <2>2
  <2>4. v.fat[c] # 0 /\ v.fat[c] # Eoc /\ c # 0
    BY <1>3, <2>3, ClustersAre
  <2>5. t.now.vol = v
    BY DEF Steady
  <2>6. a.t = move_window(t, {FatOf(c)}) /\ a.r = v.fat[c]
    BY <2>4, <2>5 DEF create_chain
  <2>7. Steady(a.t, V, W, C, F, v)
    BY <2>6, SteadyMove
  <2> HIDE DEF a
  <2>8. \E k \in 1..Len(q) : a.r = q[k]
    BY <2>1, <2>3, <2>6
  <2> QED BY <2>3, <2>6, <2>7, <2>8 DEF q, a, OnIs
<1> QED BY <1>4, <1>5

LEMMA WriteOnIs ==
    ASSUME NEW D, Standing(D), NEW r \in f_write
    PROVE  Ends("f_write", r, Fits)
<1> DEFINE C == {m.cdir}
           F == {m.fil}
           v == m.vol
           f == m.fil
           V == Calm(C, F)
           a == create_chain(Start, f.cur)
<1>1. /\ F \subseteq FILs /\ m.cdir \in C /\ v \in Image /\ v.raw = {} /\ f \in FILs /\ m.cdir \in D
      /\ f \in F /\ Single(v, D) /\ C \subseteq Clusters \cup {0} /\ C \subseteq D /\ C = {m.cdir}
      /\ RawOk(v) /\ \A x \in F : Held(v, D, x)
  BY StandingIs DEF Standing
<1>2. V \subseteq Cards /\ V = Calm(C, F) /\ v \in V /\ From(v, D, {}) \subseteq V
  <2>1. V \subseteq Cards
    BY CalmCards
  <2>2. From(v, D, {}) \subseteq Calm(C, F)
    <3> HIDE DEF C, F, v, f
    <3> QED BY ONLY <1>1, FromCalm
  <2> HIDE DEF C, F, v, f
  <2> QED BY <1>1, <2>1, <2>2 DEF Calm
<1> HIDE DEF V, C
<1>3. Steady(Start, V, Cards, C, F, v)
  BY ONLY Standing(D), <1>1, <1>2, StartIs DEF v
<1>4. f_write =
         IF ~f.open \/ f.err THEN Runs(Start, "INT_ERR")
         ELSE IF f.cur = 0 /\ f.org = Bad
              THEN Runs(SetFil(Start, [f EXCEPT !.err = TRUE]), "DISK_ERR")
         ELSE IF f.cur = 0 /\ f.org # 0 THEN Runs(SetFil(Start, Advance(f, f.org)), "OK")
         ELSE IF a.r = 1 THEN Runs(SetFil(a.t, [f EXCEPT !.err = TRUE]), "INT_ERR")
         ELSE Runs(SetFil(a.t, Advance(f, a.r)), "OK")
  BY DEF f_write
<1>5. F = {m.fil} /\ f = m.fil /\ V = Calm(C, {m.fil})
  BY <1>2
<1> HIDE DEF v, f, F, a
<1>6. ASSUME NEW u, NEW t, Steady(t, V, Cards, C, F, u), Single(u, D), Held(u, D, f),
             NEW g \in FILs, Held(u, D, g), NEW res, r \in Runs(SetFil(t, g), res) \/ r \in Runs(t, res)
      PROVE  Ends("f_write", r, Fits)
  <2>1. r.t = SetFil(t, g) \/ r.t = t
    BY <1>6, OneRun
  <2>2. Steady(t, V, Cards, C, {m.fil}, u) /\ Held(u, D, m.fil) /\ m.fil \in FILs
    BY <1>1, <1>5, <1>6
  <2> QED BY ONLY <1>1, <1>5, <1>6, <2>1, <2>2, WriteEnds
<1>7. f.org \in Clusters \cup {0, Bad} /\ f.cur \in Clusters \cup {0} /\ Held(v, D, f)
  BY <1>1 DEF FILs
<1> DEFINE g == [f EXCEPT !.err = TRUE]
<1>8. g \in FILs /\ Held(v, D, g)
  <2>1. f \in FILs /\ g = [f EXCEPT !.err = TRUE]
    BY <1>1
  <2> HIDE DEF g
  <2>2. Spoilt(g, f)
    BY ONLY <2>1, FilError
  <2>3. Held(v, D, g)
    BY ONLY <1>7, <2>1, <2>2, HeldError
  <2> QED BY <2>2, <2>3 DEF Spoilt
<1>9. CASE ~f.open \/ f.err
  <2>1. r \in Runs(Start, "INT_ERR")
    BY <1>4, <1>9
  <2> HIDE DEF g
  <2> QED BY <1>1, <1>3, <1>6, <1>7, <1>8, <2>1
<1>10. CASE f.open /\ ~f.err /\ f.cur = 0 /\ f.org = Bad
  <2>1. r \in Runs(SetFil(Start, g), "DISK_ERR")
    BY <1>4, <1>10
  <2> HIDE DEF g
  <2> QED BY <1>1, <1>3, <1>6, <1>7, <1>8, <2>1
<1> DEFINE h == Advance(f, f.org)
<1>11. CASE f.open /\ ~f.err /\ f.cur = 0 /\ f.org # 0 /\ f.org # Bad
  <2>1. r \in Runs(SetFil(Start, h), "OK")
    BY <1>4, <1>11
  <2>2. f.org \in Clusters
    BY <1>7, <1>11
  <2>3. h \in FILs /\ h.open = f.open /\ h.at = f.at /\ h.org = f.org /\ h.cur = f.org
    BY <1>1, <1>11, <2>2, AdvanceIs
  <2> HIDE DEF h
  <2>4. v.fat \in Fats /\ Linked(v.fat) /\ Proper(v.fat, f.org)
    BY <1>1, <1>7, <1>11, <2>2, ImageIs DEF Single, Forest, Held, OwnsStart
  <2> DEFINE b == f.org
  <2>5. Proper(v.fat, b)
    BY <2>4
  <2> HIDE DEF b
  <2>6. Chain(v.fat, b)[1] = b /\ Len(Chain(v.fat, b)) \in 1..(MaxClust - 1)
    BY ONLY <2>4, <2>5, ProperChain
  <2>7. 1 \in 1..Len(Chain(v.fat, f.org)) /\ h.cur = Chain(v.fat, f.org)[1]
    BY <2>3, <2>6, SizesAssumption DEF b
  <2>8. Held(v, D, h)
    BY ONLY <1>7, <2>2, <2>3, <2>7, HeldNext
  <2> QED BY <1>1, <1>3, <1>6, <1>7, <2>1, <2>3, <2>8
<1>12. CASE f.open /\ ~f.err /\ f.cur = 0 /\ f.org = 0
  <2>1. Made(a, V, Cards, C, F, v, D, {})
    <3>1. \A d \in {} : Proper(v.fat, d)
      OBVIOUS
    <3>2. Made(create_chain(Start, 0), V, Cards, C, F, v, D, {})
      BY ONLY <1>1, <1>2, <1>3, <3>1, NewChain
    <3> QED BY <1>12, <3>2 DEF a
  <2> DEFINE x == Advance(f, a.r)
  <2>2. a.r \in Clusters \cup {0}
    BY <2>1 DEF Made, NewIs
  <2>3. r \in Runs(SetFil(a.t, x), "OK")
    BY <1>4, <1>12, <2>2, ClustersAre
  <2>4. /\ x \in FILs /\ x.open = f.open /\ x.at = f.at
        /\ x.org = a.r /\ x.cur = a.r
    BY <1>1, <1>12, <2>2, AdvanceIs
  <2> HIDE DEF x
  <2>5. CASE a.r = 0
    <3>1. Steady(a.t, V, Cards, C, F, v)
      BY <2>1, <2>5, ClustersAre DEF Made, NewIs
    <3>2. Held(v, D, x)
      <4>1. x.open = f.open /\ x.at = f.at /\ x.org = f.org /\ x.cur = 0 /\ x.org \notin Clusters
        BY <1>12, <2>4, <2>5, ClustersAre
      <4> QED BY <1>7, <4>1 DEF Held, HasEntry
    <3> QED BY <1>1, <1>6, <1>7, <2>3, <2>4, <3>1, <3>2
  <2>6. CASE a.r # 0
    <3>1. PICK u : NewIs(v, D, {}, a.r, u) /\ Steady(a.t, V, Cards, C, F, u)
      BY <2>1, <2>6 DEF Made
    <3>2. u \in From(v, D, {})
      BY <3>1 DEF NewIs
    <3>3. Single(u, D) /\ Held(u, D, f)
      BY <1>1, <1>7, <3>2, HeldFrom DEF From
    <3> DEFINE n == a.r
    <3>4. NewIs(v, D, {}, n, u) /\ x.org = n /\ x.cur = n /\ f.org = 0
      BY <1>12, <2>4, <3>1
    <3> HIDE DEF n
    <3>5. Held(u, D, x)
      BY ONLY <1>1, <1>7, <2>4, <3>4, HeldFirst
    <3> QED BY <1>6, <2>3, <2>4, <3>1, <3>3, <3>5
  <2> QED BY <2>5, <2>6
<1>13. CASE f.open /\ ~f.err /\ f.cur # 0
  <2> DEFINE b == f.org
             x == Advance(f, a.r)
  <2>1. b \in Clusters /\ Proper(v.fat, b) /\ \E i \in 1..Len(Chain(v.fat, b)) : f.cur = Chain(v.fat, b)[i]
    BY <1>7, <1>13 DEF Held, OwnsStart
  <2>2. PICK i \in 1..Len(Chain(v.fat, b)) : f.cur = Chain(v.fat, b)[i]
    BY <2>1
  <2> DEFINE c == f.cur
  <2>3. c = Chain(v.fat, b)[i] /\ a = create_chain(Start, c)
    BY <2>2 DEF a
  <2>4. f.org = b /\ b # 0
    BY <2>1, ClustersAre
  <2> HIDE DEF b, c
  <2>5. \/ Stretched(a, V, Cards, C, F, v, D, {}, b)
        \/ /\ Steady(a.t, V, Cards, C, F, v) /\ a.r \in Clusters
           /\ \E k \in 1..Len(Chain(v.fat, b)) : a.r = Chain(v.fat, b)[k]
    <3>1. i \in 1..Len(Chain(v.fat, b))
      BY DEF b
    <3>2. OnIs(create_chain(Start, c), V, Cards, C, F, v, D, b)
      BY ONLY <1>1, <1>2, <1>3, <2>1, <2>3, <3>1, ChainOn
    <3> QED BY <2>3, <3>2 DEF OnIs
  <2>6. a.r \in Clusters \cup {0}
    BY <2>5 DEF Stretched, NextIs
  <2>7. r \in Runs(SetFil(a.t, x), "OK")
    BY <1>4, <1>13, <2>6, ClustersAre
  <2>8. /\ x \in FILs /\ x.open = f.open /\ x.at = f.at /\ x.org = f.org
        /\ x.cur = (IF a.r = 0 THEN f.cur ELSE a.r)
    BY <1>1, <2>4, <2>6, AdvanceIs
  <2> HIDE DEF x
  <2>9. CASE Steady(a.t, V, Cards, C, F, v) /\ a.r = 0
    <3>1. Held(v, D, x)
      BY <1>7, <2>8, <2>9 DEF Held, HasEntry, OwnsStart
    <3> QED BY <1>1, <1>6, <1>7, <2>7, <2>8, <2>9, <3>1
  <2>10. CASE /\ Steady(a.t, V, Cards, C, F, v) /\ a.r \in Clusters
              /\ \E k \in 1..Len(Chain(v.fat, b)) : a.r = Chain(v.fat, b)[k]
    <3>1. PICK k \in 1..Len(Chain(v.fat, b)) : a.r = Chain(v.fat, b)[k]
      BY <2>10
    <3>2. k \in 1..Len(Chain(v.fat, f.org)) /\ x.cur = Chain(v.fat, f.org)[k] /\ f.org \in Clusters
      BY <2>1, <2>4, <2>8, <2>10, <3>1, ClustersAre
    <3>3. Held(v, D, x)
      BY ONLY <1>7, <2>8, <3>2, HeldNext
    <3> QED BY <1>1, <1>6, <1>7, <2>7, <2>8, <2>10, <3>3
  <2>11. CASE \E u : NextIs(v, D, {}, b, a.r, u) /\ Steady(a.t, V, Cards, C, F, u)
    <3>1. PICK u : NextIs(v, D, {}, b, a.r, u) /\ Steady(a.t, V, Cards, C, F, u)
      BY <2>11
    <3>2. u \in From(v, D, {}) /\ a.r \in Clusters
      BY <3>1 DEF NextIs
    <3>3. Single(u, D) /\ Held(u, D, f)
      BY <1>1, <1>7, <3>2, HeldFrom DEF From
    <3> DEFINE n == a.r
    <3>4. NextIs(v, D, {}, f.org, n, u) /\ x.cur = n /\ f.org \in Clusters /\ f.open
      BY <1>13, <2>1, <2>4, <2>8, <3>1, <3>2, ClustersAre
    <3> HIDE DEF n
    <3>5. Held(u, D, x)
      BY ONLY <1>1, <1>7, <2>8, <3>4, HeldLonger
    <3> QED BY <1>6, <2>7, <2>8, <3>1, <3>3, <3>5
  <2> QED BY <2>5, <2>9, <2>10, <2>11 DEF Stretched
<1>14. f.open \in BOOLEAN /\ f.err \in BOOLEAN
  BY <1>1 DEF FILs
<1> QED BY <1>9, <1>10, <1>11, <1>12, <1>13, <1>14

----------------------------------------------------------------------------
(* The calls: f_close *)
\* The entry of the open file gets its start cluster.
SyncedIs(w, v, D, f) ==
    /\ Single(w, D) /\ w.raw = v.raw /\ Held(w, D, f)
    /\ f.at \in Tables \X (0..(PerSector - 1))

LEMMA StartSynced ==
    ASSUME NEW v, NEW D, Single(v, D), NEW f \in FILs, f.open, Held(v, D, f),
           NEW w, w = WithEntry(v, f.at, WithStart(EntryAt(v, f.at), f.org))
    PROVE  SyncedIs(w, v, D, f)
<1> DEFINE at == f.at
           c == f.org
           e == WithStart(EntryAt(v, at), c)
<1>1. PICK s \in D : at \in Live(v, s) /\ ~EntryAt(v, at).dir
  BY DEF Held, HasEntry
<1>2. c \in Clusters \cup {0, Bad}
  BY DEF FILs
<1>3. c \in Clusters => OwnsStart(v, D, f)
  BY DEF Held
<1>4. c \in Clusters => /\ Proper(v.fat, c) /\ c # v.dirbase
                        /\ \A t \in D : \A bt \in Live(v, t) :
                              bt # at => EntryAt(v, bt).clust # c
  BY <1>3 DEF OwnsStart
<1>5. e = WithStart(EntryAt(v, at), c) /\ w = WithEntry(v, at, e)
  OBVIOUS
<1>6. at = f.at /\ c = f.org
  OBVIOUS
<1>7. at \in Tables \X (0..(PerSector - 1))
  BY <1>1, LiveTyped DEF Single
<1> HIDE DEF at, c, e
<1>8. /\ Single(w, D) /\ w.fat = v.fat /\ w.raw = v.raw /\ w.dirbase = v.dirbase
      /\ \A t \in D : Live(w, t) = Live(v, t)
      /\ \A t \in D : \A bt \in Live(v, t) : bt # at => EntryAt(w, bt) = EntryAt(v, bt)
      /\ EntryAt(w, at) = e /\ e.clust = c /\ e.dir = FALSE
  <2>1. UpdatedIs(v, w, D, at, e, c)
    BY ONLY <1>1, <1>2, <1>4, <1>5, Single(v, D), s \in D, Updated
  <2> QED BY <2>1 DEF UpdatedIs
<1>9. HasEntry(w, D, f)
  BY <1>1, <1>6, <1>8 DEF HasEntry
<1>10. f.org \in Clusters => OwnsStart(w, D, f)
  <2>1. Proper(v.fat, f.org) => Proper(w.fat, f.org)
    BY <1>8
  <2> QED BY <1>3, <1>6, <1>8, <2>1 DEF OwnsStart
<1>11. Held(w, D, f)
  BY <1>8, <1>9, <1>10 DEF Held
<1> QED BY <1>6, <1>7, <1>8, <1>11 DEF SyncedIs

LEMMA CloseIs ==
    ASSUME NEW D, Standing(D), NEW r \in f_close
    PROVE  Ends("f_close", r, Fits)
<1> DEFINE C == {m.cdir}
           v == m.vol
           f == m.fil
           g == [f EXCEPT !.written = FALSE]
           F == {f, g, Closed}
           V == Calm(C, F)
           at == f.at
           e == WithStart(EntryAt(v, at), f.org)
           u == PutEntry(Start, at, e)
           w == WithEntry(v, at, e)
<1>1. /\ m.cdir \in C /\ v \in Image /\ v.raw = {} /\ f \in FILs /\ m.cdir \in D
      /\ Single(v, D) /\ C \subseteq Clusters \cup {0} /\ C \subseteq D
      /\ RawOk(v) /\ Held(v, D, f)
  BY StandingIs DEF Standing
<1>2. g \in FILs /\ Spoilt(g, f) /\ Closed \in FILs
  <2>1. g \in FILs
    BY <1>1 DEF FILs
  <2>2. g.open = f.open /\ g.at = f.at /\ g.cur = f.cur /\ g.org = f.org
    BY <1>1 DEF FILs
  <2> QED BY <2>1, <2>2, ClosedIs DEF Spoilt
<1> HIDE DEF g
<1>3. \A x : Held(x, D, f) => \A y \in F : Held(x, D, y)
  BY <1>1, <1>2, HeldError, ClosedIs
<1>4. F \subseteq FILs /\ Closed \in F /\ m.fil \in F
  BY <1>1, <1>2
<1>5. \A y \in F : [y EXCEPT !.written = FALSE] \in F
  <2>1. [g EXCEPT !.written = FALSE] = g
    BY <1>1 DEF g, FILs
  <2>2. [Closed EXCEPT !.written = FALSE] = Closed
    BY ClosedIs DEF Closed, FILs
  <2> QED BY <2>1, <2>2 DEF g
<1>6. V \subseteq Cards /\ V = Calm(C, F) /\ v \in V
  <2>1. V \subseteq Cards
    BY CalmCards
  <2>2. \A y \in F : Held(v, D, y)
    BY <1>1, <1>3
  <2> HIDE DEF C, F, v, f
  <2> QED BY <1>1, <2>1, <2>2 DEF Calm
<1>7. f_close = IF ~f.open THEN Runs(Start, "INVALID_OBJECT")
                ELSE Runs(SetFil(Flush(IF f.written
                         THEN Become(u, [u.now EXCEPT !.fil.written = FALSE]) ELSE Start), Closed),
                         "OK")
  BY DEF f_close, WithStart
<1>8. v = m.vol
  OBVIOUS
<1> HIDE DEF V, C, F
<1>9. Steady(Start, V, Cards, C, F, v)
  BY ONLY Standing(D), <1>1, <1>4, <1>6, <1>8, StartIs
<1>10. f \in F /\ \A y \in F : [y EXCEPT !.written = FALSE] \in F
  BY <1>4, <1>5
<1> HIDE DEF v, f, u, w, at, e
<1>11. ASSUME NEW x, NEW t, Steady(t, V, Cards, C, F, x),
              r \in Runs(SetFil(Flush(t), Closed), "OK")
       PROVE  Ends("f_close", r, Fits)
  <2> DEFINE k == SetFil(Flush(t), Closed)
  <2>1. Steady(Flush(t), V, Cards, C, F, x) /\ Flush(t).now.disk = x
    BY <1>11, SteadyFlush DEF Steady
  <2>2. Steady(k, V, Cards, C, F, x)
    BY <1>4, <2>1, SteadyFil
  <2>3. k.now.disk = x /\ k.now.vol = x
    <3>1. k.now = [Flush(t).now EXCEPT !.fil = Closed]
      BY DEF SetFil, Become
    <3>2. Flush(t).now \in Machines(V, Cards, C, F)
      BY <2>1, SteadyIs
    <3>3. k.now.disk = x
      BY <2>1, <3>1, <3>2 DEF Machines
    <3> QED BY <2>2, <3>3 DEF Steady
  <2> HIDE DEF k
  <2>4. "f_close" \in {"f_chdir", "f_mkdir", "f_unlink", "f_close"} /\ r \in Runs(k, "OK")
    BY <1>11 DEF k
  <2>5. Steady(k, Calm(C, F), Cards, C, F, x)
    BY <1>6, <2>2
  <2> QED BY <1>1, <1>4, <2>3, <2>4, <2>5, SteadyEnds
<1>12. CASE ~f.open
  <2>1. r \in Runs(Start, "INVALID_OBJECT")
    BY <1>7, <1>12
  <2>2. "f_close" \in {"f_chdir", "f_mkdir", "f_unlink", "f_close"}
        /\ Steady(Start, Calm(C, F), Cards, C, F, v) /\ "INVALID_OBJECT" # "OK"
    BY <1>6, <1>9
  <2> QED BY <1>1, <1>4, <2>1, <2>2, SteadyEnds
<1>13. CASE f.open /\ ~f.written
  <2>1. r \in Runs(SetFil(Flush(Start), Closed), "OK")
    BY <1>7, <1>13
  <2> QED BY <1>9, <1>11, <2>1
<1>14. CASE f.open /\ f.written
  <2> DEFINE n == [u.now EXCEPT !.fil.written = FALSE]
             j == Become(u, n)
  <2>1. r \in Runs(SetFil(Flush(j), Closed), "OK")
    BY <1>7, <1>14
  <2>2. SyncedIs(w, v, D, f)
    BY <1>1, <1>14, StartSynced DEF w, at, e
  <2>3. w \in Image /\ RawOk(w) /\ \A y \in F : Held(w, D, y)
    BY <1>1, <1>3, <2>2 DEF SyncedIs, RawOk, Single, Forest
  <2>4. w \in V /\ at \in Tables \X (0..(PerSector - 1))
    <3>1. w \in Calm(C, F)
      BY <1>1, <2>2, <2>3 DEF Calm, SyncedIs
    <3> QED BY <1>6, <2>2, <3>1 DEF SyncedIs, at
  <2>5. w = WithEntry(v, at, e)
    BY DEF w
  <2>6. Steady(PutEntry(Start, at, e), V, Cards, C, F, WithEntry(v, at, e))
    BY ONLY <1>1, <1>9, <2>4, <2>5, SteadyPutEntry
  <2>7. Steady(u, V, Cards, C, F, w)
    BY <2>5, <2>6 DEF u
  <2> DEFINE y == [u.now.fil EXCEPT !.written = FALSE]
  <2>8. y \in F
    BY <1>10, <2>7, SteadyIs
  <2>9. j = SetFil(u, y)
    BY DEF SetFil
  <2> HIDE DEF y, n, j
  <2>10. Steady(j, V, Cards, C, F, w)
    BY <2>7, <2>8, <2>9, SteadyFil
  <2> QED BY <1>11, <2>1, <2>10
<1>15. f.open \in BOOLEAN /\ f.written \in BOOLEAN
  BY <1>1 DEF FILs
<1> QED BY <1>12, <1>13, <1>14, <1>15

----------------------------------------------------------------------------
(* The calls: f_rename *)
\* What becomes of u when the object named at in table s gets the name bt in table
\* t as well; if it is a directory it leads back to b.
Renaming(u, D, s, at, t, bt, n) ==
    /\ Single(u, D) /\ u.raw = {} /\ Held(u, D, m.fil) /\ s \in D /\ at \in Live(u, s)
    /\ t \in D /\ FirstFree(u, t, bt) /\ n \in Names
    /\ \A x \in Live(u, t) : EntryAt(u, x).name # n
    /\ m.fil.open => m.fil.at # at

TwoNames(x, u, D, s, at, t, bt, b) ==
    /\ Forest(x, D) /\ x.raw = {} /\ Held(x, D, m.fil)
    /\ s \in D /\ at \in Live(x, s) /\ EntryAt(x, at) = EntryAt(u, at)
    /\ t \in D /\ bt \in Live(x, t) /\ at # bt
    /\ EntryAt(x, bt).dir = EntryAt(x, at).dir /\ EntryAt(x, bt).clust = EntryAt(x, at).clust
    /\ \A y \in D : \A z \in Live(x, y) :
          \/ z \in Live(u, y) /\ EntryAt(x, z) = EntryAt(u, z)
          \/ y = t /\ z = bt
    /\ EntryAt(x, at).clust \in Clusters => Doubled(x, D, s, at, t, bt)
    /\ EntryAt(x, at).clust \notin Clusters => Single(x, D)
    /\ \A y \in D : \A z \in Live(u, y) :
          z # at /\ EntryAt(u, z).dir => /\ BackFrom(x, y, EntryAt(u, z).clust)
                                         /\ EntryAt(u, z).clust # EntryAt(u, at).clust
    /\ EntryAt(x, at).dir => BackFrom(x, b, EntryAt(x, at).clust)

NamedTwiceIs(u, w, D, s, at, t, bt, e) ==
    /\ e \in Entry /\ e.dir = EntryAt(u, at).dir /\ e.clust = EntryAt(u, at).clust
    /\ e.name \in Names /\ \A x \in Live(u, t) : EntryAt(u, x).name # e.name
    /\ PutIs(u, w, D, t, bt, e) /\ Forest(w, D)
    /\ e.clust \in Clusters => Doubled(w, D, s, at, t, bt)
    /\ e.clust \notin Clusters => Single(w, D)

LEMMA NamingTwice ==
    ASSUME NEW u, NEW D, NEW s, NEW at, NEW t, NEW bt, NEW n, Renaming(u, D, s, at, t, bt, n),
           NEW e, e = WithName(EntryAt(u, at), n), NEW w, w = WithEntry(u, bt, e)
    PROVE  NamedTwiceIs(u, w, D, s, at, t, bt, e)
<1>1. /\ Single(u, D) /\ s \in D /\ at \in Live(u, s) /\ t \in D /\ FirstFree(u, t, bt)
      /\ n \in Names /\ \A x \in Live(u, t) : EntryAt(u, x).name # n
  BY DEF Renaming
<1>2. e = WithName(EntryAt(u, at), n) /\ w = WithEntry(u, bt, e)
  OBVIOUS
<1>3. /\ e \in Entry /\ e.dir = EntryAt(u, at).dir /\ e.clust = EntryAt(u, at).clust
      /\ e.name = n
      /\ PutIs(u, w, D, t, bt, e) /\ Forest(w, D)
      /\ e.clust \in Clusters => Doubled(w, D, s, at, t, bt)
      /\ e.clust \notin Clusters => Single(w, D)
  BY ONLY <1>1, <1>2, NamedTwice
<1> QED BY <1>1, <1>3 DEF NamedTwiceIs

AddedIs(vol, w, D, s, at) ==
    /\ Live(w, s) = Live(vol, s) \cup {at} /\ at \notin Live(vol, s)
    /\ \A t \in D : \A bt \in Live(vol, t) :
          bt # at /\ bt \in Live(w, t) /\ EntryAt(w, bt) = EntryAt(vol, bt)
    /\ \A t \in D : \A bt \in Live(w, t) : bt \in Live(vol, t) \/ (t = s /\ bt = at)
    /\ ~IsDot(EntryAt(vol, at).name)

LEMMA NameAdded ==
    ASSUME NEW vol, NEW D, Forest(vol, D), NEW s \in D, NEW at, FirstFree(vol, s, at),
           NEW e \in Entry, e.name \in Names,
           \A bt \in Live(vol, s) : EntryAt(vol, bt).name # e.name,
           NEW w, w = WithEntry(vol, at, e)
    PROVE  AddedIs(vol, w, D, s, at)
BY Added DEF AddedIs

\* The new name is there.
LEMMA SecondName ==
    ASSUME NEW u, NEW D, NEW s, NEW at, NEW t, NEW bt, NEW n, Renaming(u, D, s, at, t, bt, n),
           NEW e, e = WithName(EntryAt(u, at), n), NEW w, w = WithEntry(u, bt, e)
    PROVE  TwoNames(w, u, D, s, at, t, bt, s)
<1>1. /\ Single(u, D) /\ s \in D /\ at \in Live(u, s) /\ t \in D /\ FirstFree(u, t, bt)
      /\ n \in Names /\ u.raw = {} /\ Held(u, D, m.fil) /\ (m.fil.open => m.fil.at # at)
      /\ Forest(u, D) /\ NamedOnce(u, D) /\ AllBack(u, D)
  BY DEF Renaming, Single
<1>2. e = WithName(EntryAt(u, at), n) /\ w = WithEntry(u, bt, e)
  OBVIOUS
<1>3. NamedTwiceIs(u, w, D, s, at, t, bt, e)
  BY ONLY Renaming(u, D, s, at, t, bt, n), <1>2, NamingTwice
<1>4. /\ e \in Entry /\ e.dir = EntryAt(u, at).dir /\ e.clust = EntryAt(u, at).clust
      /\ e.name \in Names /\ \A x \in Live(u, t) : EntryAt(u, x).name # e.name
      /\ PutIs(u, w, D, t, bt, e) /\ Forest(w, D)
      /\ e.clust \in Clusters => Doubled(w, D, s, at, t, bt)
      /\ e.clust \notin Clusters => Single(w, D)
  BY <1>3 DEF NamedTwiceIs
<1>5. AddedIs(u, w, D, t, bt)
  BY ONLY <1>1, <1>2, <1>4, NameAdded
<1>6. EntryAt(w, bt) = e /\ w.raw = u.raw
  BY <1>4 DEF PutIs
<1>7. m.fil.open /\ m.fil.org \in Clusters /\ e.clust = m.fil.org =>
          \E y \in D : \E x \in Live(u, y) : x # m.fil.at /\ EntryAt(u, x).clust = m.fil.org
  BY <1>1, <1>4
<1>8. Held(w, D, m.fil)
  <2> DEFINE f == m.fil
  <2>1. /\ Held(u, D, f)
        /\ f.open /\ f.org \in Clusters /\ e.clust = f.org =>
               \E y \in D : \E x \in Live(u, y) : x # f.at /\ EntryAt(u, x).clust = f.org
        /\ D \subseteq D /\ \A y \in D \ D : Live(w, y) = {}
    BY <1>1, <1>7
  <2> HIDE DEF f
  <2>2. Held(w, D, f)
    BY ONLY <1>1, <1>2, <1>4, <2>1, HeldAdded
  <2> QED BY <2>2 DEF f
<1>9. at \in Live(w, s) /\ EntryAt(w, at) = EntryAt(u, at) /\ bt \in Live(w, t) /\ at # bt
  BY <1>1, <1>5 DEF AddedIs
<1>10. \A y \in D : \A z \in Live(w, y) :
          \/ z \in Live(u, y) /\ EntryAt(w, z) = EntryAt(u, z)
          \/ y = t /\ z = bt
  BY <1>5 DEF AddedIs
<1>11. ASSUME NEW y \in D, NEW z \in Live(u, y), EntryAt(u, z).dir
       PROVE  BackFrom(w, y, EntryAt(u, z).clust)
  <2>1. EntryAt(u, z).clust \in D /\ EntryAt(u, z).clust # 0
    BY <1>1, <1>11, LiveTyped
  <2>2. BackFrom(u, y, EntryAt(u, z).clust)
    BY <1>1, <1>11 DEF AllBack
  <2>3. ~IsDot(EntryAt(u, bt).name)
    BY <1>5 DEF AddedIs
  <2> QED BY ONLY <1>1, <1>4, <2>1, <2>2, <2>3, BackKept
<1>12. ASSUME NEW y \in D, NEW z \in Live(u, y), z # at, EntryAt(u, z).dir
       PROVE  EntryAt(u, z).clust # EntryAt(u, at).clust
  <2>1. EntryAt(u, z).clust \in Clusters
    BY <1>1, <1>12, LiveTyped
  <2> QED BY <1>1, <1>12, <2>1 DEF NamedOnce
<1>13. EntryAt(w, at).dir => BackFrom(w, s, EntryAt(w, at).clust)
  BY <1>1, <1>9, <1>11
<1> QED BY <1>1, <1>4, <1>6, <1>8, <1>9, <1>10, <1>11, <1>12, <1>13 DEF TwoNames

LEMMA HeldAlike ==
    ASSUME NEW v, NEW w, NEW D, NEW f, Held(v, D, f), w.fat = v.fat, w.dirbase = v.dirbase,
           \A x \in D : Live(w, x) = Live(v, x),
           \A x \in D : \A at \in Live(v, x) : EntryAt(w, at) = EntryAt(v, at)
    PROVE  Held(w, D, f)
<1>1. f.open => HasEntry(w, D, f)
  BY DEF Held, HasEntry
<1>2. f.open /\ f.org \in Clusters => OwnsStart(w, D, f)
  BY DEF Held, OwnsStart
<1> QED BY <1>1, <1>2 DEF Held

\* ".." of the directory is pointed to its new parent.
LEMMA NewParent ==
    ASSUME NEW x, NEW u, NEW D, NEW s, NEW at, NEW t, NEW bt, TwoNames(x, u, D, s, at, t, bt, s),
           Forest(u, D), EntryAt(x, at).dir, NEW c, c = EntryAt(x, at).clust,
           NEW w, w = WithEntry(x, <<c, 1>>, Dir("..", t))
    PROVE  /\ TwoNames(w, u, D, s, at, t, bt, t)
           /\ <<c, 1>> \in Tables \X (0..(PerSector - 1))
<1>1. /\ Forest(x, D) /\ x.raw = {} /\ Held(x, D, m.fil)
      /\ s \in D /\ at \in Live(x, s) /\ EntryAt(x, at) = EntryAt(u, at)
      /\ t \in D /\ bt \in Live(x, t) /\ at # bt
      /\ EntryAt(x, bt).dir = EntryAt(x, at).dir /\ EntryAt(x, bt).clust = EntryAt(x, at).clust
      /\ \A y \in D : \A z \in Live(x, y) :
            \/ z \in Live(u, y) /\ EntryAt(x, z) = EntryAt(u, z)
            \/ y = t /\ z = bt
      /\ \A y \in D : \A z \in Live(u, y) :
            z # at /\ EntryAt(u, z).dir => /\ BackFrom(x, y, EntryAt(u, z).clust)
                                           /\ EntryAt(u, z).clust # EntryAt(u, at).clust
  BY DEF TwoNames
<1>2. c \in D /\ c # 0 /\ c \in Clusters
  BY <1>1, LiveTyped
<1>3. BackFrom(x, s, c) /\ Doubled(x, D, s, at, t, bt)
  BY <1>2 DEF TwoNames
<1>4. RepointedIs(x, w, D, t, c)
  <2>1. w = WithEntry(x, <<c, 1>>, Dir("..", t))
    OBVIOUS
  <2> QED BY ONLY <1>1, <1>2, <1>3, <2>1, Repointed
<1>5. /\ Forest(w, D) /\ BackFrom(w, t, c) /\ w.raw = x.raw
      /\ \A y \in D : Live(w, y) = Live(x, y)
      /\ \A y \in D : \A z \in Live(x, y) : EntryAt(w, z) = EntryAt(x, z)
      /\ \A y \in Tables : y # c => w.tab[y] = x.tab[y]
      /\ w.fat = x.fat /\ w.dirbase = x.dirbase
  BY <1>4 DEF RepointedIs
<1>6. Held(w, D, m.fil)
  <2> DEFINE f == m.fil
  <2>1. Held(x, D, f)
    BY <1>1
  <2> HIDE DEF f
  <2>2. Held(w, D, f)
    BY ONLY <1>5, <2>1, HeldAlike
  <2> QED BY <2>2 DEF f
<1>7. Doubled(w, D, s, at, t, bt)
  BY <1>3, <1>5 DEF Doubled
<1>8. ASSUME NEW y \in D, NEW z \in Live(u, y), z # at, EntryAt(u, z).dir
      PROVE  BackFrom(w, y, EntryAt(u, z).clust)
  <2>1. EntryAt(u, z).clust \in Tables
    BY <1>8, LiveTyped, SizesAre
  <2>2. BackFrom(x, y, EntryAt(u, z).clust) /\ EntryAt(u, z).clust # c
    BY <1>1, <1>8
  <2> QED BY <1>5, <2>1, <2>2 DEF BackFrom
<1>9. <<c, 1>> \in Tables \X (0..(PerSector - 1))
  BY <1>2, SizesAre
<1>10. /\ at \in Live(w, s) /\ EntryAt(w, at) = EntryAt(u, at) /\ bt \in Live(w, t)
       /\ EntryAt(w, at) = EntryAt(x, at) /\ EntryAt(w, bt) = EntryAt(x, bt)
  BY <1>1, <1>5
<1>11. \A y \in D : \A z \in Live(w, y) :
            \/ z \in Live(u, y) /\ EntryAt(w, z) = EntryAt(u, z)
            \/ y = t /\ z = bt
  BY <1>1, <1>5
<1> QED BY <1>1, <1>2, <1>5, <1>6, <1>7, <1>8, <1>9, <1>10, <1>11 DEF TwoNames

\* The old name is removed.
LEMMA OldNameGone ==
    ASSUME NEW x, NEW u, NEW D, NEW s, NEW at, NEW t, NEW bt, NEW b,
           TwoNames(x, u, D, s, at, t, bt, b), EntryAt(x, at).dir => b = t,
           m.fil.open => m.fil.at # at,
           NEW U, UpClosed(u, D, U), t \in U,
           EntryAt(u, at).dir => EntryAt(u, at).clust \notin U,
           NEW w, w = WithEntry(x, at, Deleted)
    PROVE  Single(w, D) /\ w.raw = {} /\ Held(w, D, m.fil)
<1>1. /\ Forest(x, D) /\ x.raw = {} /\ Held(x, D, m.fil)
      /\ s \in D /\ at \in Live(x, s) /\ EntryAt(x, at) = EntryAt(u, at)
      /\ t \in D /\ bt \in Live(x, t) /\ at # bt
      /\ EntryAt(x, bt).dir = EntryAt(x, at).dir /\ EntryAt(x, bt).clust = EntryAt(x, at).clust
      /\ \A y \in D : \A z \in Live(x, y) :
            \/ z \in Live(u, y) /\ EntryAt(x, z) = EntryAt(u, z)
            \/ y = t /\ z = bt
      /\ \A y \in D : \A z \in Live(u, y) :
            z # at /\ EntryAt(u, z).dir => BackFrom(x, y, EntryAt(u, z).clust)
      /\ EntryAt(x, at).clust \in Clusters => Doubled(x, D, s, at, t, bt)
      /\ EntryAt(x, at).clust \notin Clusters => Single(x, D)
      /\ EntryAt(x, at).dir => BackFrom(x, b, EntryAt(x, at).clust)
  BY DEF TwoNames
<1>2. UpClosed(x, D, U)
  <2> SUFFICES ASSUME NEW y \in D, NEW z \in Live(x, y), EntryAt(x, z).dir,
                      EntryAt(x, z).clust \in U
               PROVE  y \in U
    BY DEF UpClosed
  <2> QED BY <1>1 DEF UpClosed
<1>3. EntryAt(x, at).dir => EntryAt(x, at).clust \notin U
  BY <1>1
<1>4. \A y \in D : \A z \in Live(x, y) :
         z # at /\ EntryAt(x, z).dir => BackFrom(x, y, EntryAt(x, z).clust)
  BY <1>1
<1>5. Single(w, D)
  <2>1. CASE EntryAt(x, at).clust \in Clusters
    <3>1. Doubled(x, D, s, at, t, bt) /\ EntryAt(x, at).dir = EntryAt(x, bt).dir
      BY <1>1, <2>1
    <3>2. w = WithEntry(x, at, Deleted)
      OBVIOUS
    <3> QED BY ONLY <1>2, <1>3, <1>4, <3>1, <3>2, t \in U, Moved
  <2>2. CASE EntryAt(x, at).clust \notin Clusters
    <3>1. ~EntryAt(x, at).dir /\ Single(x, D)
      BY <1>1, <2>2, LiveTyped
    <3> QED BY <1>1, <3>1, RemovedFile
  <2> QED BY <2>1, <2>2
<1>6. w.raw = {}
  BY <1>1 DEF WithEntry, Forest, Image
<1>7. Held(w, D, m.fil)
  <2> DEFINE f == m.fil
  <2>1. Held(x, D, f) /\ (f.open => f.at # at) /\ D \in SUBSET D
        /\ (\A y \in D \ D : Live(x, y) = {}) /\ Forest(w, D)
    BY <1>1, <1>5 DEF Single
  <2>2. w = WithEntry(x, at, Deleted)
    OBVIOUS
  <2> HIDE DEF f
  <2>3. Held(w, D, f)
    BY ONLY <1>1, <2>1, <2>2, HeldRemoved
  <2> QED BY <2>3 DEF f
<1> QED BY <1>5, <1>6, <1>7

\* Above leads from a directory to where it is named, and on to the root.
LEMMA AboveUp ==
    ASSUME NEW v, NEW D, Single(v, D), NEW R, NEW u \in From(v, D, R), NEW t
    PROVE  UpClosed(u, D, Above(v, t)) /\ t \in Above(v, t)
<1> DEFINE links == {<<c, v.tab[c][1].clust>> : c \in Clusters}
           U == Closure(t, links)
<1>1. t \in U /\ \A l \in links : l[1] \in U => l[2] \in U
  BY ClosureHas
<1>2. U = Above(v, t)
  BY DEF Above
<1>3. \A c \in Clusters : c \in U => v.tab[c][1].clust \in U
  <2> SUFFICES ASSUME NEW c \in Clusters, c \in U PROVE v.tab[c][1].clust \in U
    OBVIOUS
  <2> DEFINE l == <<c, v.tab[c][1].clust>>
  <2>1. l \in links /\ l[1] = c /\ l[2] = v.tab[c][1].clust
    OBVIOUS
  <2> QED BY <1>1, <2>1
<1> HIDE DEF links, U
<1>4. ASSUME NEW s \in D, NEW at \in Live(u, s), EntryAt(u, at).dir, EntryAt(u, at).clust \in U
      PROVE  s \in U
  <2>1. at \in Live(v, s) /\ EntryAt(u, at) = EntryAt(v, at)
    BY DEF From, Alike
  <2> DEFINE c == EntryAt(v, at).clust
  <2>2. c \in Clusters
    BY <1>4, <2>1, LiveTyped DEF Single
  <2>3. v.tab[c][1] = Dir("..", s)
    BY <1>4, <2>1 DEF Single, AllBack, BackFrom
  <2> QED BY <1>3, <1>4, <2>1, <2>2, <2>3 DEF Dir
<1> QED BY <1>1, <1>2, <1>4 DEF UpClosed

\* What a rename leaves on its way: one object may have two names.
Either(v, D) == Single(v, D) \/ \E s, at, u, bt : Doubled(v, D, s, at, u, bt)
EitherCards == {v \in Image : RawOk(v) /\ \E D : Either(v, D)}
EitherCalm(C, F) ==
    {v \in Image : RawOk(v) /\ \E D : Either(v, D) /\ C \subseteq D /\ \A f \in F : Held(v, D, f)}

FitsEither ==
    {n \in Machines(Image, Image, Clusters \cup {0}, FILs) :
        /\ RawOk(n.vol) /\ RawOk(n.disk) /\ n.disk \in EitherCards
        /\ \E D : Either(n.vol, D) /\ n.cdir \in D /\ Held(n.vol, D, n.fil)}

LEMMA EitherMore ==
    ASSUME NEW C, NEW F
    PROVE  /\ Calm(C, F) \subseteq EitherCalm(C, F) /\ Cards \subseteq EitherCards
           /\ EitherCalm(C, F) \subseteq EitherCards
           /\ Machines(Calm(C, F), Cards, C, F)
                 \subseteq Machines(EitherCalm(C, F), EitherCards, C, F)
<1>1. Calm(C, F) \subseteq EitherCalm(C, F)
  BY DEF Calm, EitherCalm, Either
<1>2. Cards \subseteq EitherCards
  BY DEF Cards, EitherCards, Either
<1>3. EitherCalm(C, F) \subseteq EitherCards
  BY DEF EitherCalm, EitherCards
<1>4. Machines(Calm(C, F), Cards, C, F) \subseteq Machines(EitherCalm(C, F), EitherCards, C, F)
  BY ONLY <1>1, <1>2, MachinesMore, C \subseteq C, F \subseteq F
<1> QED BY <1>1, <1>2, <1>3, <1>4

LEMMA EitherFits ==
    ASSUME NEW C, C \subseteq Clusters \cup {0}, NEW F, F \subseteq FILs,
           NEW n \in Machines(EitherCalm(C, F), EitherCards, C, F)
    PROVE  n \in FitsEither
<1>1. n.vol \in EitherCalm(C, F) /\ n.disk \in EitherCards /\ n.cdir \in C /\ n.fil \in F
  BY MachineIs
<1>2. n \in Machines(Image, Image, Clusters \cup {0}, FILs)
  <2>1. EitherCalm(C, F) \subseteq Image /\ EitherCards \subseteq Image
    BY DEF EitherCalm, EitherCards
  <2>2. Machines(EitherCalm(C, F), EitherCards, C, F)
           \subseteq Machines(Image, Image, Clusters \cup {0}, FILs)
    BY ONLY <2>1, C \subseteq Clusters \cup {0}, F \subseteq FILs, MachinesMore
  <2> QED BY <2>2
<1>3. RawOk(n.vol) /\ RawOk(n.disk)
  BY <1>1 DEF EitherCalm, EitherCards
<1>4. PICK D : Either(n.vol, D) /\ C \subseteq D /\ \A f \in F : Held(n.vol, D, f)
  BY <1>1 DEF EitherCalm
<1> QED BY <1>1, <1>2, <1>3, <1>4 DEF FitsEither

LEMMA RenameEnds ==
    ASSUME NEW C, C \subseteq Clusters \cup {0}, m.cdir \in C, NEW F, F \subseteq FILs,
           NEW r, Passing(r.t, Machines(EitherCalm(C, F), EitherCards, C, F)),
           r.t.now \in Machines(Calm(C, F), Cards, C, F),
           r.res # "DISK_ERR" => r.t.now.disk.raw = {},
           r.res = "OK" => r.t.now.vol = r.t.now.disk
    PROVE  Ends("f_rename", r, FitsEither)
<1> DEFINE M == Machines(EitherCalm(C, F), EitherCards, C, F)
<1>1. r.t.seen \subseteq M /\ r.t.now \in Fits
  BY CalmFits DEF Passing
<1>2. \A w \in M : w \in FitsEither
  BY EitherFits
<1>3. \A w \in M : AfterError("f_rename", w) \in M
  <2> SUFFICES ASSUME NEW w \in M PROVE AfterError("f_rename", w) \in M
    OBVIOUS
  <2>1. AfterError("f_rename", w) = [w EXCEPT !.cdir = m.cdir]
    BY DEF AfterError
  <2>2. [w EXCEPT !.cdir = m.cdir] \in M
    BY DEF Machines
  <2> QED BY <2>1, <2>2
<1> HIDE DEF M
<1> QED BY <1>1, <1>2, <1>3 DEF Ends, Finished

\* A rename that comes to nothing.
LEMMA RenameRefused ==
    ASSUME NEW C, C \subseteq Clusters \cup {0}, m.cdir \in C, NEW F, F \subseteq FILs, NEW v,
           NEW t, Steady(t, Calm(C, F), Cards, C, F, v), NEW res, res # "OK",
           NEW r \in Runs(t, res)
    PROVE  Ends("f_rename", r, FitsEither)
<1>1. r.t = t /\ r.res = res
  BY OneRun
<1>2. /\ t.now \in Machines(Calm(C, F), Cards, C, F) /\ t.now.disk.raw = {}
      /\ Passing(t, Machines(Calm(C, F), Cards, C, F))
  BY SteadyIs
<1>3. Passing(t, Machines(EitherCalm(C, F), EitherCards, C, F))
  BY <1>2, EitherMore DEF Passing
<1> QED BY <1>1, <1>2, <1>3, RenameEnds

LEMMA TwoNamesCalm ==
    ASSUME NEW x, NEW u, NEW D, NEW s, NEW at, NEW t, NEW bt, NEW b,
           TwoNames(x, u, D, s, at, t, bt, b), NEW C, C \subseteq D, NEW F, F = {m.fil}
    PROVE  /\ x \in EitherCalm(C, F) /\ x.raw = {} /\ x \in Image
           /\ at \in Tables \X (0..(PerSector - 1)) /\ bt \in Tables \X (0..(PerSector - 1))
<1>1. /\ Forest(x, D) /\ x.raw = {} /\ Held(x, D, m.fil) /\ s \in D /\ at \in Live(x, s)
      /\ t \in D /\ bt \in Live(x, t)
      /\ EntryAt(x, at).clust \in Clusters => Doubled(x, D, s, at, t, bt)
      /\ EntryAt(x, at).clust \notin Clusters => Single(x, D)
  BY DEF TwoNames
<1>2. Either(x, D)
  BY <1>1 DEF Either
<1>3. x \in Image /\ RawOk(x)
  BY <1>1 DEF Forest, RawOk
<1> QED BY <1>1, <1>2, <1>3, LiveTyped DEF EitherCalm

\* The three changes of a rename, and its sync.
MovedTo(z, V, W, C, F) ==
    \E w : Steady(z, V, W, C, F, w) /\ z.now.disk = w /\ w \in Calm(C, F)

LEMMA Moves ==
    ASSUME NEW C, C = {m.cdir}, NEW F, F = {m.fil}, NEW D, C \subseteq D, F \subseteq FILs,
           NEW V, V = EitherCalm(C, F), NEW W, W = EitherCards,
           NEW u, NEW s, NEW at, NEW t, NEW bt, NEW n, Renaming(u, D, s, at, t, bt, n),
           NEW p, Steady(p, Calm(C, F), Cards, C, F, u),
           NEW U, UpClosed(u, D, U), t \in U,
           EntryAt(u, at).dir => EntryAt(u, at).clust \notin U,
           NEW e, e = WithName(EntryAt(u, at), n),
           NEW x, x = PutEntry(p, bt, e),
           NEW y, y = IF EntryAt(u, at).dir
                      THEN PutEntry(x, <<EntryAt(u, at).clust, 1>>, Dir("..", t)) ELSE x
    PROVE  MovedTo(Flush(dir_remove(y, s, at)), V, W, C, F)
<1> DEFINE v1 == WithEntry(u, bt, e)
<1>1. V \subseteq W /\ Calm(C, F) \subseteq V /\ Cards \subseteq W
  BY EitherMore
<1>2. Steady(p, V, W, C, F, u)
  <2>1. Passing(p, Machines(V, W, C, F))
    BY EitherMore DEF Steady, Passing
  <2> QED BY <1>1, <2>1 DEF Steady
<1>3. v1 = WithEntry(u, bt, e) /\ e = WithName(EntryAt(u, at), n)
  OBVIOUS
<1> HIDE DEF v1
<1>4. TwoNames(v1, u, D, s, at, t, bt, s)
  BY ONLY <1>3, Renaming(u, D, s, at, t, bt, n), SecondName
<1>5. /\ v1 \in V /\ v1.raw = {} /\ v1 \in Image
      /\ at \in Tables \X (0..(PerSector - 1)) /\ bt \in Tables \X (0..(PerSector - 1))
  BY <1>4, TwoNamesCalm
<1>6. Forest(u, D) /\ u \in Image /\ (m.fil.open => m.fil.at # at)
  BY DEF Renaming, Single, Forest
<1>7. Steady(x, V, W, C, F, v1)
  <2>1. WithEntry(u, bt, e) \in V
    BY <1>3, <1>5
  <2>2. Steady(PutEntry(p, bt, e), V, W, C, F, WithEntry(u, bt, e))
    BY ONLY <1>2, <1>5, <1>6, <2>1, SteadyPutEntry
  <2> QED BY <1>3, <2>2
<1>8. EntryAt(v1, at) = EntryAt(u, at)
  BY <1>4 DEF TwoNames
<1>9. \E v2, b : /\ Steady(y, V, W, C, F, v2) /\ TwoNames(v2, u, D, s, at, t, bt, b)
                 /\ EntryAt(v2, at).dir => b = t
  <2>1. CASE EntryAt(u, at).dir
    <3> DEFINE c == EntryAt(u, at).clust
               k == <<c, 1>>
               d == Dir("..", t)
               v2 == WithEntry(v1, k, d)
    <3>1. v2 = WithEntry(v1, <<c, 1>>, Dir("..", t)) /\ c = EntryAt(v1, at).clust
          /\ EntryAt(v1, at).dir
      BY <1>8, <2>1
    <3>2. k = <<c, 1>> /\ d = Dir("..", t) /\ v2 = WithEntry(v1, k, d) /\ y = PutEntry(x, k, d)
      BY <2>1
    <3> HIDE DEF c, d, k, v2
    <3>3. /\ TwoNames(v2, u, D, s, at, t, bt, t)
          /\ <<c, 1>> \in Tables \X (0..(PerSector - 1))
      BY ONLY <1>4, <1>6, <3>1, NewParent
    <3>4. v2 \in V /\ v2.raw = {} /\ k \in Tables \X (0..(PerSector - 1))
      BY <3>2, <3>3, TwoNamesCalm
    <3>5. WithEntry(v1, k, d) \in V
      BY <3>2, <3>4
    <3>6. Steady(PutEntry(x, k, d), V, W, C, F, WithEntry(v1, k, d))
      BY ONLY <1>5, <1>7, <3>4, <3>5, SteadyPutEntry
    <3>7. Steady(y, V, W, C, F, v2)
      BY <3>2, <3>6
    <3> QED BY <3>3, <3>7
  <2>2. CASE ~EntryAt(u, at).dir
    <3>1. y = x /\ ~EntryAt(v1, at).dir
      BY <1>8, <2>2
    <3> QED BY <1>4, <1>7, <3>1
  <2> QED BY <2>1, <2>2
<1>10. PICK v2, b : /\ Steady(y, V, W, C, F, v2) /\ TwoNames(v2, u, D, s, at, t, bt, b)
                    /\ EntryAt(v2, at).dir => b = t
  BY <1>9
<1> DEFINE v3 == WithEntry(v2, at, Deleted)
<1>11. v3 = WithEntry(v2, at, Deleted)
  OBVIOUS
<1> HIDE DEF v3
<1>12. Single(v3, D) /\ v3.raw = {} /\ Held(v3, D, m.fil)
  <2>1. EntryAt(v2, at).dir => b = t
    BY <1>10
  <2>2. (m.fil.open => m.fil.at # at) /\ (EntryAt(u, at).dir => EntryAt(u, at).clust \notin U)
    BY <1>6
  <2>3. TwoNames(v2, u, D, s, at, t, bt, b)
    BY <1>10
  <2> QED BY ONLY <1>11, <2>1, <2>2, <2>3, UpClosed(u, D, U), t \in U, OldNameGone
<1>13. v3 \in Image /\ v3 \in Calm(C, F) /\ v3 \in V
  <2>1. v3 \in Image /\ RawOk(v3)
    BY <1>12 DEF Single, Forest, RawOk
  <2>2. v3 \in Calm(C, F)
    BY <1>12, <2>1 DEF Calm
  <2> QED BY <1>1, <2>1, <2>2
<1>14. v2 \in Image
  BY <1>10, TwoNamesCalm
<1>15. Steady(dir_remove(y, s, at), V, W, C, F, v3)
  <2>1. WithEntry(v2, at, Deleted) \in V
    BY <1>11, <1>13
  <2>2. Steady(y, V, W, C, F, v2)
    BY <1>10
  <2>3. Steady(dir_remove(y, s, at), V, W, C, F, WithEntry(v2, at, Deleted))
    BY ONLY <1>5, <1>14, <2>1, <2>2, DirRemoveIs
  <2> QED BY <1>11, <2>3
<1> DEFINE z == Flush(dir_remove(y, s, at))
<1>16. Steady(z, V, W, C, F, v3) /\ z.now.disk = v3
  <2> DEFINE a == dir_remove(y, s, at)
  <2>1. Steady(a, V, W, C, F, v3)
    BY <1>15
  <2> HIDE DEF a
  <2>3. Passing(a, Machines(V, W, C, F)) /\ V \subseteq W /\ a.now.vol = v3 /\ v3.raw = {}
    BY <2>1 DEF Steady
  <2>2. Steady(Flush(a), V, W, C, F, v3) /\ Flush(a).now.disk = v3
    BY ONLY <2>3, SteadyFlush
  <2> QED BY <2>2 DEF a
<1> QED BY <1>13, <1>16 DEF MovedTo

\* The result of Move once the new name is registered.
LEMMA RenameDone ==
    ASSUME NEW C, C \subseteq Clusters \cup {0}, m.cdir \in C, NEW F, F \subseteq FILs,
           NEW V, V = EitherCalm(C, F), NEW W, W = EitherCards,
           NEW z, MovedTo(z, V, W, C, F), NEW r \in Runs(z, "OK")
    PROVE  Ends("f_rename", r, FitsEither)
<1>1. PICK w : Steady(z, V, W, C, F, w) /\ z.now.disk = w /\ w \in Calm(C, F)
  BY DEF MovedTo
<1>2. z.now \in Machines(V, W, C, F) /\ z.now.vol = w /\ w.raw = {} /\ Passing(z, Machines(V, W, C, F))
  BY <1>1, SteadyIs
<1>3. z.now \in Machines(Calm(C, F), Cards, C, F)
  <2>1. w \in Cards
    BY <1>1, CalmCards
  <2> QED BY <1>1, <1>2, <2>1 DEF Machines
<1>4. r.t = z /\ r.res = "OK"
  BY OneRun
<1> QED BY <1>1, <1>2, <1>3, <1>4, RenameEnds

LEMMA RenameIs ==
    ASSUME NEW D, Standing(D), NEW p \in Paths, NEW q \in Paths, NEW f, f = follow_path(Start, p),
           NEW g, g = follow_path(f.t, q),
           ~(m.fil.open /\ m.fil.at = f.at),
           ~(f.e.dir /\ f.e.clust \in Above(m.vol, g.s)),
           ~EndsInDots(q), NEW r \in f_rename(p, q)
    PROVE  Ends("f_rename", r, FitsEither)
<1> DEFINE C == {m.cdir}
           F == {m.fil}
           v == m.vol
           V == Calm(C, F)
           e == WithName(f.e, g.name)
           a == dir_register(g.t, g.s, e)
           y == IF f.e.dir THEN PutEntry(a.t, <<f.e.clust, 1>>, Dir("..", g.s)) ELSE a.t
           z == Flush(dir_remove(y, f.s, f.at))
<1>1. /\ F \subseteq FILs /\ m.cdir \in C /\ v \in Image /\ v.raw = {} /\ C = {m.cdir}
      /\ m.fil \in F /\ Single(v, D) /\ C \subseteq Clusters \cup {0} /\ C \subseteq D /\ F = {m.fil}
      /\ RawOk(v) /\ \A k \in F : Held(v, D, k)
  BY StandingIs DEF Standing
<1>2. V \subseteq Cards /\ V = Calm(C, F) /\ v \in V /\ From(v, D, {}) \subseteq V
  <2>1. V \subseteq Cards
    BY CalmCards
  <2>2. From(v, D, {}) \subseteq Calm(C, F)
    <3> HIDE DEF C, F, v
    <3> QED BY ONLY <1>1, FromCalm
  <2> HIDE DEF C, F, v
  <2> QED BY <1>1, <2>1, <2>2 DEF Calm
<1>3. f_rename(p, q) =
         IF f.res # "OK" THEN Runs(f.t, f.res)
         ELSE IF IsDot(f.name) THEN Runs(f.t, "INVALID_NAME")
         ELSE IF p.segs = <<>> THEN Runs(f.t, "NO_FILE")
         ELSE IF g.res # "NO_FILE" THEN Runs(g.t, IF g.res = "OK" THEN "EXIST" ELSE g.res)
         ELSE Runs(IF a.ok THEN z ELSE a.t, IF a.ok THEN "OK" ELSE "DENIED")
  <2>1. f_rename(p, q) = RenameFound(p, f, g)
    BY DEF f_rename
  <2>2. Move(g.t, f, g).t = (IF a.ok THEN z ELSE a.t) /\ Move(g.t, f, g).ok = a.ok
    BY DEF Move, WithName
  <2> QED BY <2>1, <2>2 DEF RenameFound, Refuse
<1> HIDE DEF V, C, F
<1>4. Steady(Start, V, Cards, C, F, v)
  BY ONLY Standing(D), <1>1, <1>2, StartIs DEF v
<1>5. PathIs(f, V, Cards, C, F, v, D, p)
  <2>1. PathIs(follow_path(Start, p), V, Cards, C, F, v, D, p)
    BY ONLY <1>1, <1>4, p \in Paths, FollowPathIs
  <2> QED BY <2>1
<1> HIDE DEF v
<1>6. Steady(f.t, V, Cards, C, F, v)
  BY <1>5 DEF PathIs, LeadsTo, Leads
<1>7. PathIs(g, V, Cards, C, F, v, D, q)
  <2> DEFINE t == f.t
  <2>1. Steady(t, V, Cards, C, F, v)
    BY <1>6
  <2> HIDE DEF t
  <2>2. PathIs(follow_path(t, q), V, Cards, C, F, v, D, q)
    BY ONLY <1>1, <2>1, q \in Paths, FollowPathIs
  <2> QED BY <2>2 DEF t
<1>8. Steady(g.t, V, Cards, C, F, v)
  BY <1>7 DEF PathIs, LeadsTo, Leads
<1>9. ASSUME NEW t, Steady(t, V, Cards, C, F, v), NEW res, res # "OK", r \in Runs(t, res)
      PROVE  Ends("f_rename", r, FitsEither)
  BY ONLY <1>1, <1>2, <1>9, RenameRefused
<1> HIDE DEF z, y, a
<1>10. CASE f.res # "OK"
  BY <1>3, <1>6, <1>9, <1>10
<1>11. CASE f.res = "OK" /\ (IsDot(f.name) \/ p.segs = <<>>)
  <2>1. r \in Runs(f.t, "INVALID_NAME") \/ r \in Runs(f.t, "NO_FILE")
    BY <1>3, <1>11
  <2> QED BY <1>6, <1>9, <2>1
<1>12. CASE f.res = "OK" /\ ~IsDot(f.name) /\ p.segs # <<>> /\ g.res # "NO_FILE"
  <2>1. r \in Runs(g.t, "EXIST") \/ (r \in Runs(g.t, g.res) /\ g.res # "OK")
    BY <1>3, <1>12
  <2> QED BY <1>8, <1>9, <2>1
<1>13. CASE f.res = "OK" /\ ~IsDot(f.name) /\ p.segs # <<>> /\ g.res = "NO_FILE"
  <2> DEFINE s == f.s
             at == f.at
             t == g.s
             n == g.name
  <2>1. /\ f.s \in D /\ f.at \in Live(v, f.s) /\ f.e = EntryAt(v, f.at)
        /\ f.e.dir \in BOOLEAN
    BY <1>1, <1>5, <1>13, PathLive
  <2>2. /\ t \in D /\ n \in Names /\ \A x \in Live(v, t) : EntryAt(v, x).name # n
    BY <1>7, <1>13 DEF PathIs, LeadsTo, Leads, EndsInDots, IsDot
  <2>3. Registers(a, V, Cards, C, F, v, D, {}, t, e)
    <3> DEFINE b == g.t
    <3>1. (\A d \in {} : Proper(v.fat, d)) /\ Base(v, t) \notin {} /\ Steady(b, V, Cards, C, F, v)
      BY <1>8
    <3> HIDE DEF e, t, b
    <3>2. Registers(dir_register(b, t, e), V, Cards, C, F, v, D, {}, t, e)
      BY ONLY <1>1, <1>2, <2>2, <3>1, RegisterIs
    <3> QED BY <3>2 DEF a, b, t
  <2>4. CASE ~a.ok
    <3>1. Steady(a.t, V, Cards, C, F, v)
      BY <2>3, <2>4 DEF Registers
    <3>2. r \in Runs(a.t, "DENIED")
      BY <1>3, <1>13, <2>4
    <3> QED BY <1>9, <3>1, <3>2
  <2>5. CASE a.ok
    <3>1. \E u, x : /\ u \in From(v, D, {}) /\ Steady(x, V, Cards, C, F, u)
                    /\ FirstFree(u, t, a.at) /\ a.t = PutEntry(x, a.at, e)
      BY <2>3, <2>5 DEF Registers
    <3>2. PICK u, x : /\ u \in From(v, D, {}) /\ Steady(x, V, Cards, C, F, u)
                      /\ FirstFree(u, t, a.at) /\ a.t = PutEntry(x, a.at, e)
      BY <3>1
    <3> DEFINE bt == a.at
               U == Above(v, t)
               w == a.t
    <3>3. Single(u, D) /\ Alike(v, u, D) /\ u.raw = {}
      BY <3>2 DEF From, Steady
    <3>4. Held(u, D, m.fil)
      BY <1>1, <3>2, HeldFrom
    <3>5. /\ at \in Live(u, s) /\ EntryAt(u, at) = f.e
          /\ \A k \in Live(u, t) : EntryAt(u, k).name # n
      BY <2>1, <2>2, <3>3 DEF Alike
    <3>6. FirstFree(u, t, bt) /\ w = PutEntry(x, bt, e)
      BY <3>2
    <3>7. (m.fil.open => m.fil.at # at) /\ s \in D
      BY <2>1
    <3>8. (EntryAt(u, at).dir => EntryAt(u, at).clust \notin U) /\ e = WithName(EntryAt(u, at), n)
      BY <3>5 DEF v
    <3>9. y = IF EntryAt(u, at).dir
              THEN PutEntry(w, <<EntryAt(u, at).clust, 1>>, Dir("..", t)) ELSE w
      BY <3>5 DEF y
    <3>10. UpClosed(u, D, U) /\ t \in U
      <4> HIDE DEF t
      <4> QED BY <1>1, <3>2, AboveUp
    <3>11. z = Flush(dir_remove(y, s, at))
      BY DEF z
    <3> HIDE DEF s, at, t, n, bt, U, w, e
    <3>12. Renaming(u, D, s, at, t, bt, n)
      BY <2>2, <3>3, <3>4, <3>5, <3>6, <3>7 DEF Renaming
    <3> DEFINE X == EitherCalm(C, F)
               W == EitherCards
    <3>13. X = EitherCalm(C, F) /\ W = EitherCards /\ Steady(x, Calm(C, F), Cards, C, F, u)
      BY <1>2, <3>2
    <3> HIDE DEF X, W
    <3>14. MovedTo(Flush(dir_remove(y, s, at)), X, W, C, F)
      BY ONLY <1>1, <3>6, <3>8, <3>9, <3>10, <3>12, <3>13, Moves
    <3>15. MovedTo(z, X, W, C, F) /\ r \in Runs(z, "OK")
      BY <1>3, <1>13, <2>5, <3>11, <3>14
    <3> QED BY ONLY <1>1, <3>13, <3>15, RenameDone
  <2> QED BY <2>4, <2>5
<1> QED BY <1>10, <1>11, <1>12, <1>13

----------------------------------------------------------------------------
(* The properties of a volume *)
ObjectsOf(v, D) ==
    /\ Directories(v) = D
    /\ \A o : o \in Objects(v) <=>
          \E s \in D : \E at \in Live(v, s) : o = [s |-> s, at |-> at, e |-> EntryAt(v, at)]

LEMMA ObjectsAre ==
    ASSUME NEW v, NEW D, Forest(v, D)
    PROVE  ObjectsOf(v, D)
<1>1. v \in Image /\ Linked(v.fat) /\ IsTree(v, D)
  BY DEF Forest
<1>2. Directories(v) = D /\ Objects(v) = UNION {Named(v, s) : s \in D}
  BY <1>1, TreeIs
<1>3. ASSUME NEW o PROVE o \in UNION {Named(v, s) : s \in D} <=>
          \E s \in D : \E at \in Live(v, s) : o = [s |-> s, at |-> at, e |-> EntryAt(v, at)]
  BY DEF Named
<1> QED BY <1>2, <1>3 DEF ObjectsOf

LEMMA SameObject ==
    ASSUME NEW v, NEW D, Forest(v, D), NEW o \in Objects(v), NEW q \in Objects(v), o.at = q.at
    PROVE  o = q
<1>1. PICK s \in D : \E at \in Live(v, s) : o = [s |-> s, at |-> at, e |-> EntryAt(v, at)]
  BY ObjectsAre DEF ObjectsOf
<1>2. PICK at \in Live(v, s) : o = [s |-> s, at |-> at, e |-> EntryAt(v, at)]
  BY <1>1
<1>3. PICK t \in D : \E bt \in Live(v, t) : q = [s |-> t, at |-> bt, e |-> EntryAt(v, bt)]
  BY ObjectsAre DEF ObjectsOf
<1>4. PICK bt \in Live(v, t) : q = [s |-> t, at |-> bt, e |-> EntryAt(v, bt)]
  BY <1>3
<1>5. at = bt /\ at \in SlotsOf(v, s) /\ at \in SlotsOf(v, t)
  BY <1>2, <1>4 DEF Live
<1>6. s = t
  BY <1>5, SlotsApart
<1> QED BY <1>2, <1>4, <1>5, <1>6

\* What an object is.
ObjectIs(v, D, o) ==
    /\ o.s \in D /\ o.at \in Live(v, o.s) /\ o.e = EntryAt(v, o.at)
    /\ o = [s |-> o.s, at |-> o.at, e |-> o.e]

LEMMA AnObject ==
    ASSUME NEW v, NEW D, Forest(v, D), NEW o \in Objects(v)
    PROVE  ObjectIs(v, D, o)
<1>1. PICK s \in D : \E at \in Live(v, s) : o = [s |-> s, at |-> at, e |-> EntryAt(v, at)]
  BY ObjectsAre DEF ObjectsOf
<1>2. PICK at \in Live(v, s) : o = [s |-> s, at |-> at, e |-> EntryAt(v, at)]
  BY <1>1
<1> QED BY <1>2 DEF ObjectIs

LEMMA ObjectAt ==
    ASSUME NEW v, NEW D, Forest(v, D), NEW s \in D, NEW at \in Live(v, s)
    PROVE  \E o \in Objects(v) : o.s = s /\ o.at = at /\ o.e = EntryAt(v, at)
<1> DEFINE o == [s |-> s, at |-> at, e |-> EntryAt(v, at)]
<1>1. o \in Objects(v)
  BY ObjectsAre DEF ObjectsOf
<1> QED BY <1>1

LEMMA ForestNames ==
    ASSUME NEW v, NEW D, Forest(v, D)
    PROVE  NamedApart(v)
<1> SUFFICES ASSUME NEW o \in Objects(v), NEW q \in Objects(v), o.s = q.s, o.e.name = q.e.name
             PROVE  o = q
  BY DEF NamedApart
<1>1. ObjectIs(v, D, o) /\ ObjectIs(v, D, q)
  BY AnObject
<1>2. o.at = q.at
  BY <1>1 DEF Forest, NamesApart, ObjectIs
<1> QED BY <1>2, SameObject

LEMMA SingleNames ==
    ASSUME NEW v, NEW D, Single(v, D)
    PROVE  ~DoublyNamed(v) /\ LeadsBack(v)
<1>0. Forest(v, D) /\ NamedOnce(v, D) /\ AllBack(v, D)
  BY DEF Single
<1>1. ASSUME NEW o \in Objects(v), NEW q \in Objects(v), o.e.clust = q.e.clust, o.e.clust \in Clusters
      PROVE  o = q
  <2>1. ObjectIs(v, D, o) /\ ObjectIs(v, D, q)
    BY <1>0, AnObject
  <2>2. o.at = q.at
    BY <1>0, <1>1, <2>1 DEF NamedOnce, ObjectIs
  <2> QED BY <1>0, <2>2, SameObject
<1>2. ASSUME NEW o \in Objects(v), o.e.dir
      PROVE  BackFrom(v, o.s, o.e.clust)
  <2>1. ObjectIs(v, D, o)
    BY <1>0, AnObject
  <2> QED BY <1>0, <1>2, <2>1 DEF AllBack, ObjectIs
<1> QED BY <1>1, <1>2 DEF DoublyNamed, LeadsBack, BackFrom

LEMMA DoubledNames ==
    ASSUME NEW v, NEW D, NEW s, NEW at, NEW u, NEW bt, Doubled(v, D, s, at, u, bt)
    PROVE  DoublyNamed(v)
<1>1. /\ Forest(v, D) /\ s \in D /\ u \in D /\ at \in Live(v, s) /\ bt \in Live(v, u)
      /\ at # bt /\ EntryAt(v, at).clust = EntryAt(v, bt).clust
      /\ EntryAt(v, at).clust \in Clusters
  BY DEF Doubled
<1>2. PICK o \in Objects(v) : o.s = s /\ o.at = at /\ o.e = EntryAt(v, at)
  BY <1>1, ObjectAt
<1>3. PICK q \in Objects(v) : q.s = u /\ q.at = bt /\ q.e = EntryAt(v, bt)
  BY <1>1, ObjectAt
<1> QED BY <1>1, <1>2, <1>3 DEF DoublyNamed

LEMMA ClustersFinite == IsFiniteSet(Clusters) /\ \A S \in SUBSET Clusters : IsFiniteSet(S)
<1>1. IsFiniteSet(2..(MaxClust - 1))
  BY SizesAssumption, FS_Interval
<1> QED BY <1>1, ClustersAre, FS_Subset

\* The links that lead to a cluster: at most one, and none to the start of a chain.
LinksTo(v, c) == {x \in Clusters : v.fat[x] = c}
LEMMA LinksToIs ==
    ASSUME NEW v, Linked(v.fat), NEW c \in Clusters
    PROVE  /\ Cardinality(LinksTo(v, c)) \in {0, 1}
           /\ Cardinality(LinksTo(v, c)) > 0 => v.fat[c] # 0
           /\ Proper(v.fat, c) => Cardinality(LinksTo(v, c)) = 0
<1>1. CASE LinksTo(v, c) = {}
  BY <1>1, FS_EmptySet
<1>2. CASE LinksTo(v, c) # {}
  <2>1. PICK x : x \in LinksTo(v, c)
    BY <1>2
  <2>2. LinksTo(v, c) = {x} /\ v.fat[c] # 0 /\ ~Proper(v.fat, c)
    BY <2>1 DEF LinksTo, Linked, Proper
  <2> QED BY <2>2, FS_Singleton
<1> QED BY <1>1, <1>2

NamesOf(v, c) == {o \in Objects(v) : o.e.clust = c}
\* A cluster that an entry or the volume starts at, and the entries that do.
LEMMA PointersAre ==
    ASSUME NEW v, NEW D, Forest(v, D), NEW n \in {1, 2},
           \A c \in Clusters : Cardinality(NamesOf(v, c)) \in 0..n /\
               (NamesOf(v, c) = {} => Cardinality(NamesOf(v, c)) = 0)
    PROVE  PointedAt(v, n)
<1> SUFFICES ASSUME NEW c \in Clusters
             PROVE  LET k == Cardinality(NamesOf(v, c)) + (IF c = v.dirbase THEN 1 ELSE 0)
                               + Cardinality(LinksTo(v, c))
                    IN  k <= n /\ (k > 0 => v.fat[c] # 0)
  BY DEF PointedAt, NamesOf, LinksTo
<1> DEFINE a == Cardinality(NamesOf(v, c))
           b == Cardinality(LinksTo(v, c))
<1>1. Linked(v.fat) /\ v \in Image
  BY DEF Forest
<1>2. b \in {0, 1} /\ (b > 0 => v.fat[c] # 0) /\ (Proper(v.fat, c) => b = 0)
  BY <1>1, LinksToIs
<1>3. a \in 0..n /\ (NamesOf(v, c) = {} => a = 0)
  OBVIOUS
<1> HIDE DEF a, b
<1>4. CASE NamesOf(v, c) # {}
  <2>1. PICK o \in Objects(v) : o.e.clust = c
    BY <1>4 DEF NamesOf
  <2>2. Proper(v.fat, c) /\ c # v.dirbase
    BY <2>1, AnObject DEF Forest, HeadsProper, ObjectIs
  <2>3. b = 0 /\ v.fat[c] # 0
    BY <1>2, <2>2 DEF Proper
  <2> QED BY <1>3, <2>2, <2>3 DEF a, b
<1>5. CASE NamesOf(v, c) = {} /\ c = v.dirbase
  <2>1. HasTable(v, 0) /\ ~IsStatic(v, 0)
    BY <1>5, ClustersAre DEF Forest, IsTree, IsStatic
  <2>2. Proper(v.fat, c)
    BY <1>5, <2>1 DEF HasTable, Base
  <2>3. b = 0 /\ v.fat[c] # 0
    BY <1>2, <2>2 DEF Proper
  <2> QED BY <1>3, <1>5, <2>3 DEF a, b
<1>6. CASE NamesOf(v, c) = {} /\ c # v.dirbase
  BY <1>2, <1>3, <1>6 DEF a, b
<1> QED BY <1>4, <1>5, <1>6

LEMMA SinglePointed ==
    ASSUME NEW v, NEW D, Single(v, D)
    PROVE  PointedAt(v, 1)
<1>0. Forest(v, D) /\ ~DoublyNamed(v)
  BY SingleNames DEF Single
<1>1. ASSUME NEW c \in Clusters
      PROVE  /\ Cardinality(NamesOf(v, c)) \in 0..1
             /\ NamesOf(v, c) = {} => Cardinality(NamesOf(v, c)) = 0
  <2>1. CASE NamesOf(v, c) = {}
    BY <2>1, FS_EmptySet
  <2>2. CASE NamesOf(v, c) # {}
    <3>1. PICK o : o \in NamesOf(v, c)
      BY <2>2
    <3>2. NamesOf(v, c) = {o}
      BY <1>0, <3>1 DEF NamesOf, DoublyNamed
    <3>3. Cardinality({o}) = 1
      BY FS_Singleton
    <3> QED BY <2>2, <3>2, <3>3
  <2> QED BY <2>1, <2>2
<1>2. 1 \in {1, 2}
  OBVIOUS
<1> QED BY ONLY <1>0, <1>1, <1>2, PointersAre

LEMMA DoubledPointed ==
    ASSUME NEW v, NEW D, NEW s, NEW at, NEW u, NEW bt, Doubled(v, D, s, at, u, bt)
    PROVE  PointedAt(v, 2)
<1>1. /\ Forest(v, D) /\ s \in D /\ u \in D /\ at \in Live(v, s) /\ bt \in Live(v, u)
      /\ \A t, w \in D : \A x \in Live(v, t), y \in Live(v, w) :
            EntryAt(v, x).clust = EntryAt(v, y).clust /\ EntryAt(v, x).clust \in Clusters
            => x = y \/ (x = at /\ y = bt) \/ (x = bt /\ y = at)
  BY DEF Doubled
<1>2. PICK o \in Objects(v) : o.s = s /\ o.at = at
  BY <1>1, ObjectAt
<1>3. PICK q \in Objects(v) : q.s = u /\ q.at = bt
  BY <1>1, ObjectAt
<1>4. ASSUME NEW c \in Clusters
      PROVE  /\ Cardinality(NamesOf(v, c)) \in 0..2
             /\ NamesOf(v, c) = {} => Cardinality(NamesOf(v, c)) = 0
  <2>1. ASSUME NEW x \in NamesOf(v, c), NEW y \in NamesOf(v, c)
        PROVE  x = y \/ (x = o /\ y = q) \/ (x = q /\ y = o)
    <3>1. x \in Objects(v) /\ y \in Objects(v) /\ x.e.clust = c /\ y.e.clust = c
      BY DEF NamesOf
    <3>2. ObjectIs(v, D, x) /\ ObjectIs(v, D, y)
      BY <1>1, <3>1, AnObject
    <3>3. x.at = y.at \/ (x.at = at /\ y.at = bt) \/ (x.at = bt /\ y.at = at)
      BY <1>1, <3>1, <3>2 DEF ObjectIs
    <3> QED BY <1>1, <1>2, <1>3, <3>1, <3>3, SameObject
  <2>2. NamesOf(v, c) = {} \/ NamesOf(v, c) = {o, q} \/ \E x : NamesOf(v, c) = {x}
    <3> SUFFICES ASSUME NamesOf(v, c) # {}, ~\E x : NamesOf(v, c) = {x}
                 PROVE  NamesOf(v, c) = {o, q}
      OBVIOUS
    <3>1. PICK x : x \in NamesOf(v, c)
      OBVIOUS
    <3>2. PICK y : y \in NamesOf(v, c) /\ y # x
      BY <3>1
    <3>3. o \in NamesOf(v, c) /\ q \in NamesOf(v, c) /\ o # q /\ {x, y} = {o, q}
      BY <2>1, <3>1, <3>2
    <3>4. ASSUME NEW z \in NamesOf(v, c) PROVE z \in {o, q}
      BY <2>1, <3>3
    <3> QED BY <3>3, <3>4
  <2>3. Cardinality({o, q}) \in 0..2 /\ {o, q} # {}
    <3>1. {o, q} = {o} \cup {q}
      OBVIOUS
    <3>2. IsFiniteSet({o}) /\ Cardinality({o}) = 1
      BY FS_Singleton
    <3> DEFINE S == {o}
    <3>3. IsFiniteSet(S) /\ Cardinality(S) = 1 /\ {o, q} = S \cup {q}
      BY <3>1, <3>2
    <3> HIDE DEF S
    <3>4. Cardinality(S \cup {q}) = IF q \in S THEN Cardinality(S) ELSE Cardinality(S) + 1
      BY ONLY <3>3, FS_AddElement
    <3> QED BY <3>3, <3>4
  <2>4. Cardinality({}) = 0 /\ \A x : Cardinality({x}) = 1
    BY FS_EmptySet, FS_Singleton
  <2>5. CASE NamesOf(v, c) = {}
    BY <2>4, <2>5
  <2>6. CASE NamesOf(v, c) = {o, q}
    BY <2>3, <2>6
  <2>7. CASE \E x : NamesOf(v, c) = {x}
    <3>1. PICK x : NamesOf(v, c) = {x}
      BY <2>7
    <3>2. Cardinality({x}) = 1 /\ {x} # {}
      BY <2>4
    <3> QED BY <3>1, <3>2
  <2> QED BY <2>2, <2>5, <2>6, <2>7
<1>5. 2 \in {1, 2}
  OBVIOUS
<1> QED BY ONLY <1>1, <1>4, <1>5, PointersAre

\* The current directory and the open file on a volume that holds them.
LEMMA HeldInUse ==
    ASSUME NEW v, NEW D, Forest(v, D), NEW f, Held(v, D, f), f.open,
           NEW mine, mine = {o \in Objects(v) : o.at = f.at}
    PROVE  /\ Cardinality(mine) = 1
           /\ \A o \in mine : ~o.e.dir /\ o.e.clust \in {0, f.org}
           /\ f.org \notin Heads(Objects(v) \ mine)
           /\ f.cur # 0 => f.cur \in ToSet(Chain(v.fat, f.org))
<1>1. PICK s \in D : f.at \in Live(v, s) /\ ~EntryAt(v, f.at).dir
                     /\ EntryAt(v, f.at).clust \in {0, f.org}
  BY DEF Held, HasEntry
<1>2. PICK q \in Objects(v) : q.s = s /\ q.at = f.at /\ q.e = EntryAt(v, f.at)
  BY <1>1, ObjectAt
<1>3. mine = {q}
  BY <1>2, SameObject
<1>4. Cardinality(mine) = 1
  BY <1>3, FS_Singleton
<1>5. f.org \notin Heads(Objects(v) \ mine)
  <2> SUFFICES ASSUME f.org \in Clusters, NEW o \in Objects(v), o.at # f.at PROVE o.e.clust # f.org
    BY DEF Heads
  <2>1. ObjectIs(v, D, o)
    BY AnObject
  <2> QED BY <2>1 DEF ObjectIs, Held, OwnsStart
<1>6. f.cur # 0 => f.cur \in ToSet(Chain(v.fat, f.org))
  <2> SUFFICES ASSUME f.cur # 0 PROVE f.cur \in ToSet(Chain(v.fat, f.org))
    OBVIOUS
  <2>1. PICK i \in 1..Len(Chain(v.fat, f.org)) : f.cur = Chain(v.fat, f.org)[i]
    BY DEF Held
  <2> DEFINE q1 == Chain(v.fat, f.org)
  <2>2. q1 \in Seq(Clusters)
    <3> DEFINE b == f.org
               fat == v.fat
    <3>1. IsWalk(fat, b, Chain(fat, b))
      <4> HIDE DEF b, fat
      <4> QED BY ChainIs
    <3> QED BY <3>1 DEF IsWalk
  <2> HIDE DEF q1
  <2>3. i \in DOMAIN q1 /\ f.cur = q1[i]
    BY <2>1, <2>2 DEF q1
  <2>4. f.cur \in ToSet(q1)
    BY <2>3 DEF ToSet
  <2> QED BY <2>4 DEF q1
<1> QED BY <1>1, <1>2, <1>3, <1>4, <1>5, <1>6

----------------------------------------------------------------------------
(* The inductive invariant *)
\* The machine is one that a call can leave; after a call that was not left half
\* way no table is uncleared, and what is done is on the card.
Inv ==
    /\ m \in FitsEither /\ (op # "left rename" => m \in Fits)
    /\ m.disk.raw # {} => op \in {"left", "left rename"}
    /\ op = "done" => m.vol = m.disk
    /\ op \in {"none", "done", "left", "left rename"}
    /\ gone \in Clusters \cup {0, Bad} /\ calls \in 0..MaxCalls

LEMMA EitherForest ==
    ASSUME NEW v, NEW D, Either(v, D)
    PROVE  Forest(v, D)
BY DEF Either, Single, Doubled

LEMMA EitherSingle ==
    ASSUME NEW v, NEW D, Either(v, D), ~DoublyNamed(v)
    PROVE  Single(v, D)
BY DoubledNames DEF Either

LEMMA NotDamaged ==
    ASSUME m \in FitsEither, ~Damaged
    PROVE  \E D : Standing(D)
<1>1. /\ m \in Machines(Image, Image, Clusters \cup {0}, FILs) /\ RawOk(m.vol) /\ RawOk(m.disk)
      /\ m.disk \in EitherCards
  BY DEF FitsEither
<1>2. PICK D : Either(m.vol, D) /\ m.cdir \in D /\ Held(m.vol, D, m.fil)
  BY DEF FitsEither
<1>3. ~DoublyNamed(m.vol) /\ m.vol.raw = {} /\ ~DoublyNamed(m.disk) /\ m.disk.raw = {}
  BY DEF Damaged
<1>4. Single(m.vol, D)
  BY <1>2, <1>3, EitherSingle
<1>5. m.disk \in Cards
  BY <1>1, <1>3, EitherSingle DEF EitherCards, Cards
<1>6. m \in Machines({m.vol}, Cards, {m.cdir}, {m.fil}) /\ m.fil \in FILs
  BY <1>1, <1>5 DEF Machines
<1> QED BY <1>2, <1>3, <1>4, <1>6 DEF Standing

\* After the power went.
LEMMA MountedFits ==
    ASSUME NEW w, w \in FitsEither, NEW last \in Clusters \cup {0}
    PROVE  /\ Mounted(w.disk, last) \in FitsEither
           /\ w \in Fits => Mounted(w.disk, last) \in Fits
<1> DEFINE n == Mounted(w.disk, last)
           v == w.disk
<1>1. v \in EitherCards /\ v \in Image /\ RawOk(v) /\ Closed \in FILs /\ NoSector \in Windows
  BY ClosedIs, WindowsAre DEF FitsEither, EitherCards
<1>2. n \in Machines(Image, Image, Clusters \cup {0}, FILs)
  BY <1>1 DEF Mounted, Machines
<1>3. n.vol = v /\ n.disk = v /\ n.cdir = 0 /\ n.fil = Closed
  BY DEF Mounted
<1>4. \A D : Forest(v, D) => 0 \in D /\ Held(v, D, Closed)
  BY ClosedIs DEF Forest, IsTree
<1>5. \E D : Either(v, D)
  BY <1>1 DEF EitherCards
<1> HIDE DEF n, v
<1>6. n \in FitsEither
  BY <1>1, <1>2, <1>3, <1>4, <1>5, EitherForest DEF FitsEither
<1>7. ASSUME w \in Fits PROVE n \in Fits
  <2>1. v \in Cards
    BY <1>7 DEF Fits, v
  <2>2. PICK D : Single(v, D)
    BY <2>1 DEF Cards
  <2>3. 0 \in D /\ Held(v, D, Closed)
    BY <1>4, <2>2 DEF Single
  <2> QED BY <1>1, <1>2, <1>3, <2>1, <2>2, <2>3 DEF Fits
<1> QED BY <1>6, <1>7 DEF n, v

\* A call: it ends, is left by a disk error, or loses the power.
CallEnds(call, runs) ==
    \A r \in runs : Ends(call, r, IF call = "f_rename" THEN FitsEither ELSE Fits)

LEMMA FitsAre == Fits \subseteq FitsEither
BY DEF Fits, FitsEither, Cards, EitherCards, Either

LEMMA DoKeeps ==
    ASSUME Inv, NEW call, NEW runs, CallEnds(call, runs), NEW c \in Clusters \cup {0, Bad},
           calls < MaxCalls, Do(call, runs, c)
    PROVE  Inv'
<1> DEFINE Q == IF call = "f_rename" THEN FitsEither ELSE Fits
<1>1. PICK r \in runs :
          \/ m' = r.t.now /\ Ended(call, r.res)
          \/ \E w \in r.t.seen :
                /\ w # r.t.now \/ r.t.seen = {w}
                /\ m' = AfterError(call, w)
                /\ Ended(call, "DISK_ERR")
          \/ \E w \in r.t.seen, last \in {0} \cup (IF m.vol.dirbase = 0 THEN {} ELSE {m.last}) :
                /\ m' = Mounted(w.disk, last)
                /\ Ended(call, "power cut")
  BY DEF Do
<1>2. Ends(call, r, Q)
  BY DEF CallEnds
<1>3. gone' = c /\ calls' \in 0..MaxCalls
  <2>1. gone' = c /\ calls' = calls + 1
    BY DEF Do
  <2>2. calls \in 0..MaxCalls /\ MaxCalls \in Nat
    BY SizesAssumption DEF Inv
  <2> QED BY <2>1, <2>2
<1>4. Q \subseteq FitsEither /\ (call # "f_rename" => Q = Fits)
  BY FitsAre
<1> HIDE DEF Q
<1>5. CASE m' = r.t.now /\ Ended(call, r.res)
  <2>1. /\ r.t.now \in Fits
        /\ r.res # "DISK_ERR" => r.t.now.disk.raw = {}
        /\ r.res = "OK" /\ call \in Synced => r.t.now.vol = r.t.now.disk
    BY <1>2 DEF Ends, Finished
  <2>2. op' \in {"none", "done", "left", "left rename"}
        /\ (r.res = "DISK_ERR" => op' \in {"left", "left rename"})
        /\ (op' = "done" => r.res = "OK" /\ call \in Synced)
    BY <1>5 DEF Ended
  <2> QED BY <1>3, <1>5, <2>1, <2>2, FitsAre DEF Inv
<1>6. CASE \E w \in r.t.seen :
                /\ w # r.t.now \/ r.t.seen = {w}
                /\ m' = AfterError(call, w)
                /\ Ended(call, "DISK_ERR")
  <2>1. PICK w \in r.t.seen : m' = AfterError(call, w) /\ Ended(call, "DISK_ERR")
    BY <1>6
  <2>2. m' \in Q
    BY <1>2, <2>1 DEF Ends
  <2>3. op' = IF call = "f_rename" THEN "left rename" ELSE "left"
    BY <2>1 DEF Ended
  <2> QED BY <1>3, <1>4, <2>2, <2>3 DEF Inv
<1>7. CASE \E w \in r.t.seen, last \in {0} \cup (IF m.vol.dirbase = 0 THEN {} ELSE {m.last}) :
                /\ m' = Mounted(w.disk, last)
                /\ Ended(call, "power cut")
  <2>1. PICK w \in r.t.seen, last \in {0} \cup (IF m.vol.dirbase = 0 THEN {} ELSE {m.last}) :
                /\ m' = Mounted(w.disk, last)
                /\ Ended(call, "power cut")
    BY <1>7
  <2>2. w \in Q
    BY <1>2, <2>1 DEF Ends
  <2>3. last \in Clusters \cup {0}
    BY DEF Inv, FitsEither, Machines
  <2>4. op' = IF call = "f_rename" THEN "left rename" ELSE "left"
    BY <2>1 DEF Ended
  <2>5. m' \in FitsEither /\ (w \in Fits => m' \in Fits)
    BY <1>4, <2>1, <2>2, <2>3, MountedFits
  <2> QED BY <1>3, <1>4, <2>2, <2>4, <2>5 DEF Inv
<1> QED BY <1>1, <1>5, <1>6, <1>7

\* What f_unlink is to remove starts at a cluster, or at none.
LEMMA PathStart ==
    ASSUME NEW D, Standing(D), NEW p \in Paths
    PROVE  follow_path(Start, p).e.clust \in Clusters \cup {0, Bad}
<1> DEFINE f == follow_path(Start, p)
           C == {m.cdir}
           F == {m.fil}
           v == m.vol
           V == Calm(C, F)
<1>1. /\ V \subseteq Cards /\ v \in V /\ m.cdir \in C /\ v \in Image
      /\ m.fil \in F /\ Single(v, D) /\ C \subseteq D
  BY StandingIs, CalmCards
<1> HIDE DEF V
<1>2. Steady(Start, V, Cards, C, F, v)
  BY ONLY Standing(D), <1>1, StartIs DEF v
<1>3. PathIs(f, V, Cards, C, F, v, D, p)
  BY ONLY <1>1, <1>2, p \in Paths, FollowPathIs
<1> HIDE DEF f
<1>4. f.e = Unused \/ f.e \in Entry
  <2>1. CASE p.segs = <<>>
    BY <1>3, <2>1 DEF PathIs
  <2>2. CASE p.segs # <<>> /\ f.res # "OK"
    BY <1>3, <2>2 DEF PathIs, LeadsTo
  <2>3. CASE p.segs # <<>> /\ f.res = "OK"
    <3>1. f.at \in SlotsOf(v, f.s) /\ f.e = EntryAt(v, f.at) /\ f.s \in D
      BY <1>3, <2>3 DEF PathIs, LeadsTo, Leads
    <3> QED BY <1>1, <3>1, SlotLeads
  <2> QED BY <2>1, <2>2, <2>3
<1>5. f.e.clust \in Clusters \cup {0, Bad}
  BY <1>4, EntryTypes DEF Unused
<1> QED BY <1>5 DEF f

LEMMA NextKeeps == Inv /\ [Next]_vars => Inv'
<1> SUFFICES ASSUME Inv, [Next]_vars PROVE Inv'
  OBVIOUS
<1>1. CASE UNCHANGED vars
  <2>1. FitsEither' = FitsEither /\ Fits' = Fits
    BY DEF FitsEither, Fits, Machines, FILs, EitherCards, Cards, Either, RawOk
  <2> QED BY <1>1, <2>1 DEF Inv, vars
<1> SUFFICES ASSUME Next PROVE Inv'
  BY <1>1
<1>2. calls < MaxCalls /\ ~Damaged
  BY DEF Next
<1>3. PICK D : Standing(D)
  BY <1>2, NotDamaged DEF Inv
<1>4. 0 \in Clusters \cup {0, Bad}
  OBVIOUS
<1>5. ASSUME NEW p \in Paths, Chdir(p) PROVE Inv'
  <2>1. CallEnds("f_chdir", f_chdir(p))
    BY <1>3, ChdirIs DEF CallEnds
  <2> QED BY <1>2, <1>4, <1>5, <2>1, DoKeeps DEF Chdir
<1>6. ASSUME NEW p \in Paths, Mkdir(p) PROVE Inv'
  <2>1. CallEnds("f_mkdir", f_mkdir(p))
    BY <1>3, MkdirIs DEF CallEnds
  <2> QED BY <1>2, <1>4, <1>6, <2>1, DoKeeps DEF Mkdir
<1>7. ASSUME NEW p \in Paths, RemoveObject(p) PROVE Inv'
  <2> DEFINE f == follow_path(Start, p)
             c == f.e.clust
  <2>1. /\ ~(m.fil.open /\ m.fil.at = f.at)
        /\ ~(f.e.dir /\ f.e.clust = m.cdir)
        /\ Do("f_unlink", f_unlink(p), c)
    BY <1>7 DEF RemoveObject
  <2>2. CallEnds("f_unlink", f_unlink(p))
    BY <1>3, <2>1, UnlinkIs DEF CallEnds
  <2>3. c \in Clusters \cup {0, Bad}
    BY <1>3, PathStart
  <2> HIDE DEF c, f
  <2> QED BY <1>2, <2>1, <2>2, <2>3, DoKeeps
<1>8. ASSUME NEW p \in Paths, NEW q \in Paths, Rename(p, q) PROVE Inv'
  <2> DEFINE f == follow_path(Start, p)
             g == follow_path(f.t, q)
  <2>1. /\ ~(m.fil.open /\ m.fil.at = f.at)
        /\ ~(f.e.dir /\ f.e.clust \in Above(m.vol, g.s))
        /\ ~EndsInDots(q)
        /\ Do("f_rename", f_rename(p, q), 0)
    BY <1>8 DEF Rename
  <2>2. f = follow_path(Start, p) /\ g = follow_path(f.t, q)
    OBVIOUS
  <2> HIDE DEF f, g
  <2>3. \A r \in f_rename(p, q) : Ends("f_rename", r, FitsEither)
    BY <1>3, <2>1, <2>2, RenameIs
  <2>4. CallEnds("f_rename", f_rename(p, q))
    BY <2>3 DEF CallEnds
  <2> QED BY <1>2, <1>4, <2>1, <2>4, DoKeeps
<1>9. ASSUME NEW p \in Paths, NEW new \in BOOLEAN, Open(p, new) PROVE Inv'
  <2>1. CallEnds("f_open", f_open(p, new))
    BY <1>3, <1>9, OpenIs DEF CallEnds, Open
  <2> QED BY <1>2, <1>4, <1>9, <2>1, DoKeeps DEF Open
<1>10. CASE WriteOn
  <2>1. CallEnds("f_write", f_write)
    BY <1>3, WriteOnIs DEF CallEnds
  <2> QED BY <1>2, <1>4, <1>10, <2>1, DoKeeps DEF WriteOn
<1>11. CASE Close
  <2>1. CallEnds("f_close", f_close)
    BY <1>3, CloseIs DEF CallEnds
  <2> QED BY <1>2, <1>4, <1>11, <2>1, DoKeeps DEF Close
<1> QED BY <1>5, <1>6, <1>7, <1>8, <1>9, <1>10, <1>11 DEF Next

LEMMA InvTypes == Inv => TypeOK
<1> SUFFICES ASSUME Inv PROVE TypeOK
  OBVIOUS
<1>1. m \in Machines(Image, Image, Clusters \cup {0}, FILs)
  BY DEF Inv, FitsEither
<1>2. /\ m.vol \in Image /\ m.disk \in Image /\ m.last \in Clusters \cup {0}
      /\ m.cdir \in Clusters \cup {0} /\ m.fil \in FILs
  BY <1>1, MachineIs
<1> QED BY <1>2 DEF Inv, TypeOK, FILs

\* A volume that a call leaves: only a rename leaves two names.
LEMMA EitherSound ==
    ASSUME NEW v, NEW D, Either(v, D), op # "left rename" => \E E : Single(v, E)
    PROVE  Sound(v)
<1>1. NamedApart(v)
  BY EitherForest, ForestNames
<1>2. CASE Single(v, D)
  BY <1>1, <1>2, SingleNames, SinglePointed DEF Sound
<1>3. CASE ~Single(v, D)
  <2>1. PICK s, at, u, bt : Doubled(v, D, s, at, u, bt)
    BY <1>3 DEF Either
  <2>2. DoublyNamed(v) /\ PointedAt(v, 2)
    BY <2>1, DoubledNames, DoubledPointed
  <2>3. op = "left rename"
    BY <2>2, SingleNames
  <2> QED BY <1>1, <2>2, <2>3 DEF Sound
<1> QED BY <1>2, <1>3

LEMMA InvSound == Inv => CardSound /\ VolumeSound
<1> SUFFICES ASSUME Inv PROVE CardSound /\ VolumeSound
  OBVIOUS
<1>1. Sound(m.disk)
  <2> DEFINE v == m.disk
  <2>1. PICK D : Either(v, D)
    BY DEF Inv, FitsEither, EitherCards
  <2>2. op # "left rename" => \E E : Single(v, E)
    BY DEF Inv, Fits, Cards
  <2> HIDE DEF v
  <2>3. Sound(v)
    BY <2>1, <2>2, EitherSound
  <2> QED BY <2>3 DEF v
<1>2. Sound(m.vol)
  <2> DEFINE v == m.vol
  <2>1. PICK D : Either(v, D)
    BY DEF Inv, FitsEither
  <2>2. op # "left rename" => \E E : Single(v, E)
    BY DEF Inv, Fits
  <2> HIDE DEF v
  <2>3. Sound(v)
    BY <2>1, <2>2, EitherSound
  <2> QED BY <2>3 DEF v
<1> QED BY <1>1, <1>2 DEF CardSound, VolumeSound

LEMMA InvCleared == Inv => TablesCleared /\ DoneIsOnCard
<1> SUFFICES ASSUME Inv, m.disk.raw # {} PROVE Cardinality(m.disk.raw) = 1
  BY DEF Inv, TablesCleared, DoneIsOnCard
<1>1. RawOk(m.disk)
  BY DEF Inv, FitsEither
<1>2. PICK c \in Clusters : m.disk.raw = {c}
  BY <1>1 DEF RawOk
<1> QED BY <1>2, FS_Singleton

LEMMA InvInUse == Inv => InUseIsSound
<1> SUFFICES ASSUME Inv PROVE InUseIsSound
  OBVIOUS
<1> DEFINE v == m.vol
           f == m.fil
           mine == {o \in Objects(v) : o.at = f.at}
<1>1. PICK D : Either(v, D) /\ m.cdir \in D /\ Held(v, D, f)
  BY DEF Inv, FitsEither
<1>2. Forest(v, D)
  BY <1>1, EitherForest
<1>3. Directories(v) = D
  BY <1>2, ObjectsAre DEF ObjectsOf
<1>4. mine = {o \in Objects(v) : o.at = f.at}
  OBVIOUS
<1>5. InUseIsSound <=>
         /\ m.cdir \in Directories(v)
         /\ f.open => /\ Cardinality(mine) = 1
                      /\ \A o \in mine : ~o.e.dir /\ o.e.clust \in {0, f.org}
                      /\ f.org \notin Heads(Objects(v) \ mine)
                      /\ f.cur # 0 => f.cur \in ToSet(Chain(v.fat, f.org))
  BY DEF InUseIsSound
<1> HIDE DEF v, f, mine
<1>6. ASSUME f.open
      PROVE  /\ Cardinality(mine) = 1
             /\ \A o \in mine : ~o.e.dir /\ o.e.clust \in {0, f.org}
             /\ f.org \notin Heads(Objects(v) \ mine)
             /\ f.cur # 0 => f.cur \in ToSet(Chain(v.fat, f.org))
  BY ONLY <1>1, <1>2, <1>4, <1>6, HeldInUse
<1> QED BY <1>1, <1>3, <1>5, <1>6

----------------------------------------------------------------------------
(* The volumes a run starts from *)

\* Tables of any volume, in order or not.
LEMMA RoughTable ==
    ASSUME NEW vol \in Image, NEW s
    PROVE  Table(vol, s) \in Seq(Tables) /\ Len(Table(vol, s)) \in Nat
<1>1. CASE IsStatic(vol, s)
  <2> DEFINE T == [r \in 1..RootSectors |-> -r]
  <2>1. Table(vol, s) = T
    BY <1>1 DEF Table
  <2>2. T \in Seq(Tables) /\ Len(T) = RootSectors
    BY SizesAre
  <2> HIDE DEF T
  <2> QED BY <2>1, <2>2, SizesAre
<1>2. CASE ~IsStatic(vol, s)
  <2>1. Table(vol, s) = Chain(vol.fat, Base(vol, s))
    BY <1>2 DEF Table, Base
  <2>2. Chain(vol.fat, Base(vol, s)) \in Seq(Clusters)
    BY ChainIs DEF IsWalk
  <2> DEFINE q == Chain(vol.fat, Base(vol, s))
  <2>3. q \in Seq(Clusters) /\ Clusters \subseteq Tables /\ Table(vol, s) = q
    BY <2>1, <2>2, SizesAre
  <2> HIDE DEF q
  <2> QED BY <2>3
<1> QED BY <1>1, <1>2

LEMMA RoughSlots ==
    ASSUME NEW vol \in Image, NEW s
    PROVE  LET S == Slots(vol, s)
           IN  /\ Len(S) \in Nat /\ DOMAIN S = 1..Len(S)
               /\ \A n \in 1..Len(S) : S[n] \in Tables \X (0..(PerSector - 1))
<1> DEFINE T == Table(vol, s)
           P == PerSector
           L == Len(T)
           N == L * P
           S == [n \in 1..N |-> <<T[(n - 1) \div P + 1], (n - 1) % P>>]
<1>1. Slots(vol, s) = S
  BY DEF Slots
<1>2. L \in Nat /\ T \in Seq(Tables) /\ P \in Nat /\ P > 0
  BY RoughTable, SizesAre
<1>3. \A i \in 1..L : T[i] \in Tables
  BY <1>2
<1> HIDE DEF T, P, L
<1>4. N \in Nat
  BY <1>2
<1>5. \A n \in 1..(L * P) : \E q \in 0..(L - 1), k \in 0..(P - 1) :
          n = q * P + k + 1 /\ (n - 1) \div P = q /\ (n - 1) % P = k
  BY ONLY <1>2, SlotPlace
<1>6. \A n \in 1..N : S[n] \in Tables \X (0..(P - 1))
  <2> SUFFICES ASSUME NEW n \in 1..N PROVE S[n] \in Tables \X (0..(P - 1))
    OBVIOUS
  <2>1. PICK q \in 0..(L - 1), k \in 0..(P - 1) :
          n = q * P + k + 1 /\ (n - 1) \div P = q /\ (n - 1) % P = k
    BY <1>5
  <2>2. S[n] = <<T[q + 1], k>>
    BY <2>1
  <2>3. q + 1 \in 1..L
    BY <1>2
  <2> HIDE DEF S
  <2> QED BY <1>3, <2>2, <2>3
<1> HIDE DEF N
<1>7. Len(S) = N /\ DOMAIN S = 1..N
  <2>1. S \in Seq(STRING \cup {S[n] : n \in 1..N}) /\ Len(S) = N /\ DOMAIN S = 1..N
    BY <1>4
  <2> QED BY <2>1
<1> HIDE DEF S
<1> QED BY <1>1, <1>4, <1>6, <1>7 DEF P

LEMMA RoughFirst ==
    ASSUME NEW vol \in Image, NEW s, NEW N
    PROVE  FirstSlot(vol, s, N) \in 1..(Len(Slots(vol, s)) + 1)
<1> DEFINE S == Slots(vol, s)
           hits == {n \in DOMAIN S : EntryAt(vol, S[n]).name \in N}
<1>1. Len(S) \in Nat /\ DOMAIN S = 1..Len(S)
  BY RoughSlots
<1>2. FirstSlot(vol, s, N)
        = IF hits = {} THEN Len(S) + 1 ELSE CHOOSE n \in hits : \A k \in hits : n <= k
  BY DEF FirstSlot, FirstHit
<1>3. hits \subseteq 1..Len(S)
  BY <1>1
<1> HIDE DEF hits
<1>4. CASE hits = {}
  BY <1>1, <1>2, <1>4
<1>5. CASE hits # {}
  <2>1. hits \subseteq Nat
    BY <1>1, <1>3
  <2>2. \E n \in hits : \A k \in hits : n <= k
    BY <2>1, <1>5, LeastOf
  <2>3. FirstSlot(vol, s, N) \in hits
    BY <1>2, <1>5, <2>2
  <2> DEFINE f == FirstSlot(vol, s, N)
  <2>4. f \in hits
    BY <2>3
  <2> HIDE DEF f, S
  <2>5. f \in 1..(Len(S) + 1)
    BY <1>1, <1>3, <2>4
  <2> QED BY <2>5 DEF f, S
<1> QED BY <1>4, <1>5

\* What an entry of a table is.
RoughIs(vol, s, o) ==
    /\ o.s = s /\ o.at \in Tables \X (0..(PerSector - 1)) /\ o.e = EntryAt(vol, o.at)
    /\ o.e \in Entry /\ IsLive(o.e) /\ ~IsDot(o.e.name) /\ o.e.name \in Names
    /\ o.e.dir => o.e.clust \in Clusters

LEMMA RoughEntries ==
    ASSUME NEW vol \in Image, NEW s, NEW o \in Entries(vol, s)
    PROVE  RoughIs(vol, s, o)
<1> DEFINE S == Slots(vol, s)
           f == FirstSlot(vol, s, {"0"})
           Obj(at) == [s |-> s, at |-> at, e |-> EntryAt(vol, at)]
<1>1. /\ Len(S) \in Nat
      /\ \A n \in 1..Len(S) : S[n] \in Tables \X (0..(PerSector - 1))
  BY RoughSlots
<1>2. f \in 1..(Len(S) + 1)
  BY RoughFirst
<1>3. Entries(vol, s) = {x \in {Obj(S[n]) : n \in 1..(f - 1)} : IsLive(x.e) /\ ~IsDot(x.e.name)}
  BY DEF Entries
<1> HIDE DEF f, S
<1>4. PICK n \in 1..(f - 1) : o = Obj(S[n]) /\ IsLive(o.e) /\ ~IsDot(o.e.name)
  BY <1>3
<1>5. S[n] \in Tables \X (0..(PerSector - 1))
  BY <1>1, <1>2
<1>6. o.s = s /\ o.at = S[n] /\ o.e = EntryAt(vol, o.at)
  BY <1>4
<1>7. o.e \in Entry
  BY <1>5, <1>6, EntryIs
<1>8. o.e.name \in Names
  BY <1>4, <1>7, EntryTypes DEF IsLive, IsDot
<1>9. o.e.dir => o.e.clust \in Clusters
  BY <1>7, <1>8, EntryTypes
<1> QED BY <1>4, <1>5, <1>6, <1>7, <1>8, <1>9 DEF RoughIs

\* Every directory but the root has a name.
LEMMA RoughDirs ==
    ASSUME NEW vol \in Image
    PROVE  /\ Directories(vol) \subseteq {0} \cup Clusters
           /\ \A s \in Directories(vol) :
                 s # 0 => \E o \in Objects(vol) : o.e.dir /\ o.e.clust = s
<1> DEFINE D == Directories(vol)
           Y == {0} \cup {o.e.clust : o \in {x \in Objects(vol) : x.e.dir}}
<1>1. ASSUME NEW s \in Y \cap D, NEW o \in Entries(vol, s), o.e.dir
      PROVE  o.e.clust \in Y
  BY <1>1 DEF Objects
<1>2. D \subseteq Y
  BY <1>1, DirectoriesLeast
<1>3. \A o \in Objects(vol) : o.e.dir => o.e.clust \in Clusters
  BY RoughEntries DEF Objects, RoughIs
<1> QED BY <1>2, <1>3

\* What leads to a cluster when no object has two names.
LEMMA RoughPointers ==
    ASSUME NEW vol \in Image, ~DoublyNamed(vol), PointedAt(vol, 1), NEW c \in Clusters
    PROVE  /\ \A o \in Objects(vol) :
                 o.e.clust = c => Proper(vol.fat, c) /\ c # vol.dirbase
           /\ c = vol.dirbase => Proper(vol.fat, c)
           /\ \A x, y \in LinksTo(vol, c) : x = y /\ vol.fat[c] # 0
<1> DEFINE a == Cardinality(NamesOf(vol, c))
           b == Cardinality(LinksTo(vol, c))
           d == IF c = vol.dirbase THEN 1 ELSE 0
<1>1. (a + d) + b <= 1 /\ ((a + d) + b > 0 => vol.fat[c] # 0)
  BY DEF PointedAt, NamesOf, LinksTo
<1>2. IF NamesOf(vol, c) = {} THEN a = 0 ELSE a = 1
  <2>1. CASE NamesOf(vol, c) = {}
    BY <2>1, FS_EmptySet
  <2>2. CASE NamesOf(vol, c) # {}
    <3>1. PICK o : o \in NamesOf(vol, c)
      BY <2>2
    <3>2. NamesOf(vol, c) = {o}
      BY <3>1 DEF NamesOf, DoublyNamed
    <3>3. Cardinality({o}) = 1
      BY FS_Singleton
    <3> QED BY <2>2, <3>2, <3>3
  <2> QED BY <2>1, <2>2
<1>3. /\ b \in Nat /\ (b = 0 <=> LinksTo(vol, c) = {})
      /\ b = 1 => \E x : LinksTo(vol, c) = {x}
  <2>1. IsFiniteSet(LinksTo(vol, c))
    BY ClustersFinite DEF LinksTo
  <2> QED BY <2>1, FS_CardinalityType, FS_EmptySet, FS_Singleton
<1>4. d \in {0, 1} /\ (c = vol.dirbase <=> d = 1)
  OBVIOUS
<1> HIDE DEF a, b, d
<1>5. ASSUME NEW o \in Objects(vol), o.e.clust = c
      PROVE  Proper(vol.fat, c) /\ c # vol.dirbase
  <2>1. a = 1
    BY <1>2, <1>5 DEF NamesOf
  <2>2. b = 0 /\ d = 0 /\ vol.fat[c] # 0
    BY <1>1, <1>3, <1>4, <2>1
  <2> QED BY <1>3, <1>4, <2>2 DEF Proper, LinksTo
<1>6. ASSUME c = vol.dirbase
      PROVE  Proper(vol.fat, c)
  <2>1. a \in {0, 1} /\ d = 1
    BY <1>2, <1>4, <1>6
  <2>2. b = 0 /\ vol.fat[c] # 0
    BY <1>1, <1>3, <2>1
  <2> QED BY <1>3, <2>2 DEF Proper, LinksTo
<1>7. ASSUME NEW x \in LinksTo(vol, c), NEW y \in LinksTo(vol, c)
      PROVE  x = y /\ vol.fat[c] # 0
  <2>1. a \in {0, 1} /\ d \in {0, 1} /\ b # 0
    BY <1>2, <1>3, <1>4
  <2>2. b = 1 /\ vol.fat[c] # 0
    BY <1>1, <1>3, <2>1
  <2> QED BY <1>3, <2>2
<1> QED BY <1>5, <1>6, <1>7

LEMMA OrderLinked ==
    ASSUME NEW vol, InOrder(vol)
    PROVE  /\ vol \in Image /\ Linked(vol.fat) /\ IsTree(vol, Directories(vol))
           /\ \A o \in Objects(vol) : o.e.clust \in Clusters =>
                 Proper(vol.fat, o.e.clust) /\ o.e.clust # vol.dirbase
<1> DEFINE D == Directories(vol)
<1>1. vol \in Image /\ ~DoublyNamed(vol) /\ PointedAt(vol, 1) /\ UnusedLast(vol)
  BY DEF InOrder
<1>2. vol.dirbase \in Clusters \cup {0}
  BY <1>1, ImageIs
<1>3. Linked(vol.fat)
  <2> SUFFICES ASSUME NEW x \in Clusters, vol.fat[x] \in Clusters
               PROVE  /\ vol.fat[vol.fat[x]] # 0
                      /\ \A y \in Clusters : vol.fat[y] = vol.fat[x] => y = x
    BY DEF Linked
  <2>1. \A v, w \in LinksTo(vol, vol.fat[x]) : v = w /\ vol.fat[vol.fat[x]] # 0
    BY <1>1, RoughPointers
  <2> QED BY <2>1 DEF LinksTo
<1>4. \A o \in Objects(vol) : o.e.clust \in Clusters =>
         Proper(vol.fat, o.e.clust) /\ o.e.clust # vol.dirbase
  BY <1>1, RoughPointers
<1>5. ASSUME NEW s \in D
      PROVE  s \in {0} \cup Clusters /\ HasTable(vol, s)
  <2>1. s \in {0} \cup Clusters
    BY <1>1, RoughDirs
  <2>2. CASE s = 0 /\ vol.dirbase = 0
    BY <2>1, <2>2 DEF HasTable, IsStatic
  <2>3. CASE s = 0 /\ vol.dirbase # 0
    BY <1>1, <1>2, <2>1, <2>3, RoughPointers DEF HasTable, Base
  <2>4. CASE s # 0
    <3>1. PICK o \in Objects(vol) : o.e.clust = s
      BY <1>1, <2>4, RoughDirs
    <3> QED BY <1>4, <2>1, <2>4, <3>1 DEF HasTable, Base
  <2> QED BY <2>2, <2>3, <2>4
<1>6. ASSUME NEW s \in D
      PROVE  Ordered(vol, s)
  <2> DEFINE S == Slots(vol, s)
             f == FirstSlot(vol, s, {"0"})
  <2>1. Len(S) \in Nat /\ DOMAIN S = 1..Len(S)
    BY <1>1, RoughSlots
  <2>2. f \in 1..(Len(S) + 1) /\ \A k \in 1..Len(S) : k < f => EntryAt(vol, S[k]).name # "0"
    BY <1>1, <1>3, <1>5, FirstSlotIs
  <2>3. \A n \in 1..Len(S) : n >= f => EntryAt(vol, S[n]) = Unused
    BY <1>1, <2>1 DEF UnusedLast
  <2> HIDE DEF S, f
  <2>4. ASSUME NEW n \in 1..Len(S), NEW k \in 1..Len(S), n <= k, EntryAt(vol, S[n]).name = "0"
        PROVE  EntryAt(vol, S[k]) = Unused
    <3>1. ~(n < f)
      BY <2>2, <2>4
    <3>2. k >= f
      BY <2>1, <2>2, <2>4, <3>1
    <3> QED BY <2>3, <3>2
  <2> QED BY <2>4 DEF Ordered, S
<1>7. IsTree(vol, D)
  BY <1>1, <1>3, <1>5, <1>6, TreeOf
<1> QED BY <1>1, <1>3, <1>4, <1>7

LEMMA OrderDots ==
    ASSUME NEW vol, InOrder(vol)
    PROVE  DotsInPlace(vol, Directories(vol))
<1> SUFFICES ASSUME NEW s \in Directories(vol), NEW at \in SlotsOf(vol, s),
                    IsDot(EntryAt(vol, at).name)
             PROVE  s # 0 /\ at \in {<<s, 0>>, <<s, 1>>}
  BY DEF DotsInPlace
<1> DEFINE S == Slots(vol, s)
<1>1. vol \in Image /\ Linked(vol.fat) /\ HasTable(vol, s)
  BY OrderLinked DEF IsTree
<1>2. /\ Len(S) \in Nat /\ DOMAIN S = 1..Len(S)
      /\ S[1] = <<Table(vol, s)[1], 0>> /\ S[2] = <<Table(vol, s)[1], 1>>
  BY <1>1, SlotsAre
<1>3. PICK n \in 1..Len(S) : S[n] = at
  BY <1>1, SlotsAre
<1>4. s # 0 /\ n <= 2
  BY <1>2, <1>3 DEF InOrder, DotsFirst
<1>5. Table(vol, s)[1] = s
  <2>1. ~IsStatic(vol, s) /\ Base(vol, s) = s
    BY <1>4 DEF IsStatic, Base
  <2>2. Proper(vol.fat, s) /\ Table(vol, s) = Chain(vol.fat, s)
    BY <1>1, <1>4, <2>1 DEF HasTable, Table
  <2> QED BY <1>1, <2>2, ImageIs, ProperChain
<1>6. n = 1 \/ n = 2
  BY <1>2, <1>3, <1>4
<1> QED BY <1>2, <1>3, <1>4, <1>5, <1>6

LEMMA OrderSingle ==
    ASSUME NEW vol, InOrder(vol)
    PROVE  Single(vol, Directories(vol)) /\ vol.raw = {}
<1> DEFINE D == Directories(vol)
<1>1. vol \in Image /\ Linked(vol.fat) /\ IsTree(vol, D) /\ DotsInPlace(vol, D)
  BY OrderLinked, OrderDots
<1>2. /\ vol.raw = {} /\ ~DoublyNamed(vol) /\ LeadsBack(vol) /\ NamedApart(vol)
      /\ FreeIsBlank(vol)
  BY DEF InOrder, FreeIsBlank
<1>3. ASSUME NEW s \in D, NEW at \in Live(vol, s)
      PROVE  \E o \in Objects(vol) : o.s = s /\ o.at = at /\ o.e = EntryAt(vol, at)
  <2> DEFINE o == [s |-> s, at |-> at, e |-> EntryAt(vol, at)]
  <2>1. o \in Named(vol, s)
    BY DEF Named
  <2>2. o \in Objects(vol)
    BY <1>1, <2>1, TreeIs
  <2> QED BY <2>2
<1>4. HeadsProper(vol, D)
  BY <1>3, OrderLinked DEF HeadsProper
<1>5. NamesApart(vol, D)
  <2> SUFFICES ASSUME NEW s \in D, NEW at \in Live(vol, s), NEW bt \in Live(vol, s),
                      EntryAt(vol, at).name = EntryAt(vol, bt).name
               PROVE  at = bt
    BY DEF NamesApart
  <2>1. PICK o \in Objects(vol) : o.s = s /\ o.at = at /\ o.e = EntryAt(vol, at)
    BY <1>3
  <2>2. PICK q \in Objects(vol) : q.s = s /\ q.at = bt /\ q.e = EntryAt(vol, bt)
    BY <1>3
  <2>3. o = q
    BY <1>2, <2>1, <2>2 DEF NamedApart
  <2> QED BY <2>1, <2>2, <2>3
<1>6. NamedOnce(vol, D)
  <2> SUFFICES ASSUME NEW s \in D, NEW t \in D, NEW at \in Live(vol, s), NEW bt \in Live(vol, t),
                      EntryAt(vol, at).clust = EntryAt(vol, bt).clust,
                      EntryAt(vol, at).clust \in Clusters
               PROVE  at = bt
    BY DEF NamedOnce
  <2>1. PICK o \in Objects(vol) : o.s = s /\ o.at = at /\ o.e = EntryAt(vol, at)
    BY <1>3
  <2>2. PICK q \in Objects(vol) : q.s = t /\ q.at = bt /\ q.e = EntryAt(vol, bt)
    BY <1>3
  <2>3. o = q
    BY <1>2, <2>1, <2>2 DEF DoublyNamed
  <2> QED BY <2>1, <2>2, <2>3
<1>7. AllBack(vol, D)
  <2> SUFFICES ASSUME NEW s \in D, NEW at \in Live(vol, s), EntryAt(vol, at).dir
               PROVE  BackFrom(vol, s, EntryAt(vol, at).clust)
    BY DEF AllBack
  <2>1. PICK o \in Objects(vol) : o.s = s /\ o.at = at /\ o.e = EntryAt(vol, at)
    BY <1>3
  <2> QED BY <1>2, <2>1 DEF LeadsBack, BackFrom
<1>8. Forest(vol, D)
  BY <1>1, <1>2, <1>4, <1>5 DEF Forest
<1> QED BY <1>2, <1>6, <1>7, <1>8 DEF Single

LEMMA InitInv == Init => Inv
<1> SUFFICES ASSUME Init PROVE Inv
  OBVIOUS
<1>1. PICK v \in Volumes : m = Mounted(ImageOf(v), 0)
  BY DEF Init
<1> DEFINE vol == ImageOf(v)
           D == Directories(vol)
<1>2. InOrder(vol)
  BY VolumesAssumption
<1> HIDE DEF vol
<1>3. Single(vol, D) /\ vol.raw = {} /\ vol \in Image
  BY <1>2, OrderSingle DEF InOrder
<1> HIDE DEF D
<1>4. RawOk(vol) /\ vol \in Cards /\ Closed \in FILs /\ NoSector \in Windows
  BY <1>3, ClosedIs, WindowsAre DEF RawOk, Cards
<1>5. m = Mounted(vol, 0)
  BY <1>1 DEF vol
<1>6. m \in Machines(Image, Image, Clusters \cup {0}, FILs)
  BY <1>3, <1>4, <1>5 DEF Mounted, Machines
<1>7. m.vol = vol /\ m.disk = vol /\ m.cdir = 0 /\ m.fil = Closed
  BY <1>5 DEF Mounted
<1>8. 0 \in D /\ Held(vol, D, Closed)
  BY <1>3, ClosedIs DEF Single, Forest, IsTree
<1>9. m \in Fits
  BY <1>3, <1>4, <1>6, <1>7, <1>8 DEF Fits
<1>10. m \in FitsEither
  BY <1>9, FitsAre
<1>11. m.disk.raw = {} /\ m.vol = m.disk
  BY <1>3, <1>7
<1>12. MaxCalls \in Nat
  BY SizesAssumption
<1>13. calls \in 0..MaxCalls /\ op = "none" /\ gone = 0
  BY <1>12 DEF Init
<1> QED BY <1>9, <1>10, <1>11, <1>13 DEF Inv

----------------------------------------------------------------------------
(* Theorems *)

\* Every state that the firmware reaches on the volume is one that the inductive
\* invariant describes.
THEOREM InvHolds == Spec => []Inv
<1>1. Init => Inv
  BY InitInv
<1>2. Inv /\ [Next]_vars => Inv'
  BY NextKeeps
<1> QED BY <1>1, <1>2, PTL DEF Spec

\* Every variable keeps its type: all values of ff.c stay in the range the
\* calls rely on, entries, links and the fields of an open file too.
THEOREM VolumeTypeOK == Spec => []TypeOK
<1>1. Inv => TypeOK
  BY InvTypes
<1> QED BY <1>1, InvHolds, PTL

\* The card is sound after every write to it, so whenever the power goes in
\* f_mkdir, f_unlink, f_rename, f_open, f_write or f_close (CardSound).
THEOREM CardStaysSound == Spec => []CardSound
<1>1. Inv => CardSound
  BY InvSound
<1> QED BY <1>1, InvHolds, PTL

\* And so is the volume that the firmware goes on with after a disk error
\* (VolumeSound).
THEOREM VolumeStaysSound == Spec => []VolumeSound
<1>1. Inv => VolumeSound
  BY InvSound
<1> QED BY <1>1, InvHolds, PTL

\* Only a call that made a table longer and was cut short leaves a table
\* sector that dir_next did not clear, and then one (TablesCleared).
THEOREM TablesAreCleared == Spec => []TablesCleared
<1>1. Inv => TablesCleared
  BY InvCleared
<1> QED BY <1>1, InvHolds, PTL

\* What f_mkdir, f_unlink, f_rename and f_close report as done is on the card
\* (DoneIsOnCard).
THEOREM DoneIsOnTheCard == Spec => []DoneIsOnCard
<1>1. Inv => DoneIsOnCard
  BY InvCleared
<1> QED BY <1>1, InvHolds, PTL

\* While other calls come and go, the current directory stays a directory and
\* the open file the one owner of its entry and its chain (InUseIsSound).
THEOREM InUseStaysSound == Spec => []InUseIsSound
<1>1. Inv => InUseIsSound
  BY InvInUse
<1> QED BY <1>1, InvHolds, PTL
============================================================================
