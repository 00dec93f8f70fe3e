----------------------------- MODULE FatVolume -----------------------------
(***************************************************************************)
(* The FAT volume under the file objects (ff.c): the sector window, the    *)
(* cluster chains and the directory tables, and the calls of the firmware  *)
(* that change them: f_chdir, f_mkdir, f_unlink, f_rename, f_open, f_write *)
(* (its cluster allocation) and f_close.                                   *)
(*                                                                         *)
(* A call is a trail: the machines it passes through, one for each change  *)
(* of a sector in the window and each write of the window to the card, and *)
(* the one it is at.  It may run to its end, be left at any machine of its *)
(* trail by a disk error, or lose the power there, which keeps the card.   *)
(*                                                                         *)
(* Data: a cluster is one sector; a table sector holds PerSector entries   *)
(* (name, directory or file, start cluster), a FAT sector PerFat links.    *)
(* Contents, sizes, dates and attributes of files are not kept here.       *)
(***************************************************************************)
EXTENDS Integers, Sequences, FiniteSets, SequencesExt

CONSTANTS
    MaxClust,      \* max_clust: the last cluster number + 1
    PerFat,        \* links in a FAT sector
    PerSector,     \* directory entries in a sector
    RootSectors,   \* sectors of a root directory that is not a chain
    Volumes,       \* volumes to start from: the start of the root directory
                   \* (a cluster, or 0 if it is static), the FAT and the tables
    MaxCalls,      \* bound on the calls of a run
    Names,         \* names the host gives to files and directories
    Paths          \* paths the host uses: [abs : BOOLEAN, segs : Seq(Names)]

Clusters == 2..(MaxClust - 1)
Eoc == MaxClust                \* any link of max_clust or more
Bad == MaxClust + 1            \* 0xFFFFFFFF, a cluster number that is an error

ASSUME SizesAssumption ==
    /\ {MaxClust, PerFat, PerSector, RootSectors, MaxCalls} \subseteq Nat
    /\ MaxClust > 3 /\ PerFat > 0 /\ PerSector > 2 /\ RootSectors > 0

Marks == {"0", "E5"}           \* the first byte of an entry that is not live
Dots == {".", ".."}
ASSUME NamesAssumption ==
    /\ Names \cap (Marks \cup Dots) = {}
    /\ \A p \in Paths : p.abs \in BOOLEAN /\ p.segs \in Seq(Names \cup Dots)

\* Sectors: of the FAT, and of tables (clusters, and the static root's own).
RootTables == {-r : r \in 1..RootSectors}
Tables == Clusters \cup RootTables
FatOf(c) == <<"fat", c \div PerFat>>
Tab(x) == <<"tab", x>>
NoSector == <<"none", 0>>

\* First byte 0: this entry and all after it are unused.  0xE5: deleted.
Unused == [name |-> "0", dir |-> FALSE, clust |-> 0]
Deleted == [Unused EXCEPT !.name = "E5"]
File(n, c) == [name |-> n, dir |-> FALSE, clust |-> c]
Dir(n, c) == [name |-> n, dir |-> TRUE, clust |-> c]
Blank == [k \in 0..(PerSector - 1) |-> Unused]
IsLive(e) == e.name \notin Marks
IsDot(n) == n \in Dots

Closed == [open |-> FALSE, at |-> <<0, 0>>, org |-> 0, cur |-> 0,
           written |-> FALSE, err |-> FALSE]

VARIABLES
    m,         \* the machine: vol, the volume as it reads through the window,
               \* disk, the volume as the card has it, win, the dirty sector,
               \* last (last_clust), cdir, and fil, one open FIL
    op,        \* how the last call ended
    gone,      \* the cluster of the object it was to remove
    calls      \* how many calls there were

vars == <<m, op, gone, calls>>

----------------------------------------------------------------------------
(* The window *)

\* An image of the volume; dirbase: the start of the root directory, its cluster
\* or 0 if it is static; raw: clusters linked to a table and not yet cleared.
ImageOf(v) ==
    [dirbase |-> v.dirbase,
     fat |-> [c \in Clusters |-> IF c \in DOMAIN v.fat THEN v.fat[c] ELSE 0],
     tab |-> [x \in Tables |-> IF x \in DOMAIN v.tab THEN v.tab[x] ELSE Blank],
     raw |-> {}]

\* A trail: seen, the machines it passed through, and now, the one it is at.
At(n) == [now |-> n, seen |-> {n}]
Become(t, n) == [now |-> n, seen |-> t.seen \cup {n}]
\* A change that belongs to the last one: nothing can come between the two.
Amend(t, n) == [now |-> n, seen |-> (t.seen \ {t.now}) \cup {n}]

\* move_window(0), and sync: the dirty sector goes to the card.
Flush(t) == Become(t, [t.now EXCEPT !.disk = t.now.vol, !.win = NoSector])

\* move_window over the sectors of S.
move_window(t, S) == IF S \subseteq {t.now.win} THEN t ELSE Flush(t)

\* A sector changed in the window, wflag set.
Write(t, s, v) ==
    LET u == move_window(t, {s}) IN
    Become(u, [u.now EXCEPT !.vol = v,
                             !.win = IF v = u.now.disk THEN NoSector ELSE s])

put_fat(t, c, val) == Write(t, FatOf(c), [t.now.vol EXCEPT !.fat[c] = val])
PutEntry(t, at, e) ==
    Write(t, Tab(at[1]), [t.now.vol EXCEPT !.tab[at[1]][at[2]] = e])
PutTable(t, x, es) == Write(t, Tab(x), [t.now.vol EXCEPT !.tab[x] = es])

----------------------------------------------------------------------------
(* Cluster chains *)

\* The clusters of the chain that starts at c.
LinkOn(fat, c, q) ==
    LET next == IF q = <<>> THEN c ELSE fat[Last(q)]
    IN  IF next \in Clusters THEN Append(q, next) ELSE q
Chain(fat, c) ==
    LET upTo[n \in Nat] == IF n = 0 THEN <<>> ELSE LinkOn(fat, c, upTo[n - 1])
    IN  upTo[MaxClust]

\* Mutant of Free: a freed cluster is marked bad.
FreeMarksBad(t, c) ==
    Write(t, FatOf(c), [t.now.vol EXCEPT !.fat[c] = Bad, !.tab[c] = Blank])
\* What a free cluster holds is not kept: before it is read again as a table
\* it is cleared, or it is in raw.
Free(t, c) ==
    Write(t, FatOf(c), [t.now.vol EXCEPT !.fat[c] = 0, !.tab[c] = Blank])

\* Free the clusters from c on, to the end of the chain or a free cluster.
FreeNext(g) ==
    IF g.c \in Clusters /\ g.t.now.vol.fat[g.c] # 0
    THEN [t |-> Free(g.t, g.c), c |-> g.t.now.vol.fat[g.c]] ELSE g
remove_chain(t, c) ==
    LET freed[n \in Nat] == IF n = 0 THEN [t |-> t, c |-> c] ELSE FreeNext(freed[n - 1])
    IN  freed[MaxClust].t

\* The order in which create_chain looks at clusters, from start + 1 round to it.
Order(start) ==
    [i \in 1..(MaxClust - 2) |-> 2 + ((start - 2 + i) % (MaxClust - 2))]

\* Mutant of Link: the old end of the chain is linked before the new cluster is in use.
LinkFirst(t, c, new) ==
    put_fat(IF c = 0 THEN t ELSE put_fat(t, c, new), new, Eoc)
\* Mark the new cluster in use, then link it to the previous one.
Link(t, c, new) ==
    LET u == put_fat(t, new, Eoc) IN IF c = 0 THEN u ELSE put_fat(u, c, new)

\* Stretch the chain that ends in c, or create one (c = 0).  r is the cluster,
\* 0 if none is free, 1 if c is in no chain.
create_chain(t, c) ==
    LET fat == t.now.vol.fat
        start == IF c # 0 THEN c
                 ELSE IF t.now.last \in Clusters THEN t.now.last ELSE 1
        from == IF c = 0 THEN t ELSE move_window(t, {FatOf(c)})
        order == Order(start)
        free == {i \in DOMAIN order : fat[order[i]] = 0}
        n == CHOOSE i \in free : \A j \in free : i <= j
        looked == {FatOf(order[i]) : i \in 1..(IF free = {} THEN Len(order) ELSE n)}
    IN  IF c # 0 /\ fat[c] = 0 THEN [t |-> from, r |-> 1]
        ELSE IF c # 0 /\ fat[c] # Eoc THEN [t |-> from, r |-> fat[c]]
        ELSE IF free = {} THEN [t |-> move_window(from, looked), r |-> 0]
        ELSE LET u == Link(move_window(from, looked), c, order[n])
             IN  [t |-> Amend(u, [u.now EXCEPT !.last = order[n]]), r |-> order[n]]

----------------------------------------------------------------------------
(* Directory tables *)

IsStatic(vol, s) == s = 0 /\ vol.dirbase = 0
Table(vol, s) ==
    IF IsStatic(vol, s) THEN [r \in 1..RootSectors |-> -r]
    ELSE Chain(vol.fat, IF s = 0 THEN vol.dirbase ELSE s)

\* The slots of table s in order, each <<sector, index in it>>.
Slots(vol, s) ==
    LET T == Table(vol, s)
    IN  [n \in 1..(Len(T) * PerSector) |->
            <<T[(n - 1) \div PerSector + 1], (n - 1) % PerSector>>]
EntryAt(vol, at) == vol.tab[at[1]][at[2]]

\* The first slot of s whose name is in N; past the end if there is none.
FirstHit(S, hits) ==
    IF hits = {} THEN Len(S) + 1 ELSE CHOOSE n \in hits : \A k \in hits : n <= k
FirstSlot(vol, s, N) ==
    LET S == Slots(vol, s)
    IN  FirstHit(S, {n \in DOMAIN S : EntryAt(vol, S[n]).name \in N})

\* dir_seek and dir_next up to slot n: the table's sectors and, between them,
\* the FAT sectors of its chain.
Visit(t, s, n) ==
    LET T == Table(t.now.vol, s)
        k == (n - 1) \div PerSector + 1
    IN  move_window(t, {Tab(T[i]) : i \in {j \in DOMAIN T : j <= k}} \cup
            {FatOf(T[i]) : i \in {j \in DOMAIN T : j < k /\ ~IsStatic(t.now.vol, s)}})

FindIn(t, s, name, n) ==
    LET vol == t.now.vol
        S == Slots(vol, s)
        ok == n <= Len(S) /\ EntryAt(vol, S[n]).name = name
    IN  [t |-> Visit(t, s, n), ok |-> ok,
         at |-> IF ok THEN S[n] ELSE <<0, 0>>,
         e |-> IF ok THEN EntryAt(vol, S[n]) ELSE Unused]
dir_find(t, s, name) == FindIn(t, s, name, FirstSlot(t.now.vol, s, {name, "0"}))

\* Mutant of ClearTable: the new cluster is left as it was.
ClearTableNot(t, c) == Flush(t)
\* Flush, clear the new cluster, flush.
ClearTable(t, c) ==
    LET u == PutTable(Flush(t), c, Blank)
    IN  Flush(Become(u, [u.now EXCEPT !.vol.raw = {}]))

\* dir_next, table at its end: link a new cluster to it and clear that.
Cleared(a) ==
    IF a.r > 1
    THEN [t |-> ClearTable(Amend(a.t, [a.t.now EXCEPT !.vol.raw = {a.r}]), a.r), r |-> a.r]
    ELSE a
Stretch(t, s) == Cleared(create_chain(t, Last(Table(t.now.vol, s))))

\* The new entry goes into the first free slot; the callers fill it in before
\* the window moves again.
RegisterIn(a, e) ==
    IF a.r > 1 THEN [t |-> PutEntry(a.t, <<a.r, 0>>, e), ok |-> TRUE, at |-> <<a.r, 0>>]
    ELSE [t |-> a.t, ok |-> FALSE, at |-> <<0, 0>>]
dir_register(t, s, e) ==
    LET vol == t.now.vol
        n == FirstSlot(vol, s, Marks)
        S == Slots(vol, s)
        seen == Visit(t, s, n)
    IN  IF n <= Len(S) THEN [t |-> PutEntry(seen, S[n], e), ok |-> TRUE, at |-> S[n]]
        ELSE IF IsStatic(vol, s) THEN [t |-> seen, ok |-> FALSE, at |-> <<0, 0>>]
        ELSE RegisterIn(Stretch(seen, s), e)

dir_remove(t, s, at) ==
    LET n == CHOOSE i \in DOMAIN Slots(t.now.vol, s) : Slots(t.now.vol, s)[i] = at
    IN  PutEntry(Visit(t, s, n), at, Deleted)

\* Where a path leads: the table its last segment is in, and its slot.  A path
\* without segments is the directory it starts from, and has no slot.
Found(t, res, s, f, name) ==
    [t |-> t, res |-> res, s |-> s, at |-> f.at, e |-> f.e, name |-> name]
Nowhere == [at |-> <<0, 0>>, e |-> Unused]

\* One segment more: name, in what was found so far, if that is a directory.
FollowTo(g, f, name) ==
    IF g.res = "OK" /\ g.e.dir
    THEN Found(f.t, IF f.ok THEN "OK" ELSE "NO_FILE", g.e.clust, f, name)
    ELSE Found(g.t, "NO_PATH", g.s, Nowhere, name)
Follow(g, name) == FollowTo(g, dir_find(g.t, g.e.clust, name), name)

follow_path(t, p) ==
    LET s == IF p.abs THEN 0 ELSE t.now.cdir
        upTo[n \in Nat] ==
            IF n = 0 THEN Found(t, "OK", s, [Nowhere EXCEPT !.e = Dir("", s)], "")
            ELSE Follow(upTo[n - 1], p.segs[n])
    IN  IF p.segs = <<>> THEN Found(t, "OK", s, Nowhere, "") ELSE upTo[Len(p.segs)]

----------------------------------------------------------------------------
(* Calls: the set of runs of a call, each a trail and its result *)

Start == At(m)
Runs(t, res) == {[t |-> t, res |-> res]}
Refuse(f, res) == Runs(f.t, res)
SetFil(t, f) == Become(t, [t.now EXCEPT !.fil = f])

f_chdir(p) ==
    LET f == follow_path(Start, p) IN
    IF f.res # "OK" \/ (p.segs # <<>> /\ ~f.e.dir) THEN Refuse(f, "NO_PATH")
    ELSE Runs(Become(f.t, [f.t.now EXCEPT !.cdir = IF p.segs = <<>> THEN 0 ELSE f.e.clust]),
              "OK")

\* The table of a new directory: "." and "..".
DotEntries(c, parent) ==
    [Blank EXCEPT ![0] = Dir(".", c), ![1] = Dir("..", parent)]

\* Mutant of MakeTable: the table is written after the directory is registered.
MakeTableLate(t, c, parent) == t
MakeTable(t, c, parent) == Flush(PutTable(Flush(t), c, DotEntries(c, parent)))

\* The new directory c, its table written, gets its entry in table s.  When that
\* cannot be, because the table is full or because of a disk error, the new
\* chain is freed again.
RegisterOrFree(t, s, e) ==
    LET g == dir_register(At(t.now), s, e)
        all == t.seen \cup g.t.seen
    IN  (IF g.ok THEN Runs(Flush([g.t EXCEPT !.seen = all]), "OK") ELSE {}) \cup
        UNION {Runs(remove_chain([now |-> w, seen |-> all], e.clust),
                    IF g.ok \/ w # g.t.now THEN "DISK_ERR" ELSE "DENIED") :
                 w \in {x \in g.t.seen : ~g.ok \/ x # g.t.now}}

MakeDirectory(f, a) ==
    IF a.r = 0 THEN Runs(a.t, "DENIED")
    ELSE RegisterOrFree(MakeTable(a.t, a.r, f.s), f.s, Dir(f.name, a.r))

f_mkdir(p) ==
    LET f == follow_path(Start, p) IN
    IF f.res = "OK" THEN Refuse(f, "EXIST")
    ELSE IF f.res # "NO_FILE" THEN Refuse(f, f.res)
    ELSE IF IsDot(f.name) THEN Refuse(f, "INVALID_NAME")
    ELSE MakeDirectory(f, create_chain(f.t, 0))

\* Mutant of Unlink: the chain is freed before the entry is removed.
UnlinkChainFirst(t, s, at, c) ==
    Flush(dir_remove(IF c # 0 THEN remove_chain(t, c) ELSE t, s, at))
\* Mutant of Unlink: the last change stays in the window.
UnlinkUnsynced(t, s, at, c) ==
    LET u == dir_remove(t, s, at) IN IF c # 0 THEN remove_chain(u, c) ELSE u
Unlink(t, s, at, c) ==
    LET u == dir_remove(t, s, at)
    IN  Flush(IF c # 0 THEN remove_chain(u, c) ELSE u)

\* Mutant of IsEmpty: the search for an entry ends with the first sector.
IsEmptyFirstSector(vol, c) ==
    \A n \in DOMAIN Slots(vol, c) :
        n > 2 /\ n <= PerSector => ~IsLive(EntryAt(vol, Slots(vol, c)[n]))
\* Nothing after the two dot entries.
IsEmpty(vol, c) ==
    \A n \in DOMAIN Slots(vol, c) :
        n > 2 /\ n < FirstSlot(vol, c, {"0"}) => ~IsLive(EntryAt(vol, Slots(vol, c)[n]))

UnlinkFound(p, f) ==
    LET t == IF f.e.dir THEN Visit(f.t, f.e.clust, FirstSlot(f.t.now.vol, f.e.clust, {"0"}))
             ELSE f.t
    IN  IF f.res # "OK" THEN Refuse(f, f.res)
        ELSE IF p.segs = <<>> \/ IsDot(f.name) THEN Refuse(f, "INVALID_NAME")
        ELSE IF f.e.dir /\ ~IsEmpty(t.now.vol, f.e.clust) THEN Runs(t, "DENIED")
        ELSE IF f.e.clust = Bad                  \* remove_chain: FR_INT_ERR, no sync
             THEN Runs(dir_remove(t, f.s, f.at), "INT_ERR")
        ELSE Runs(Unlink(t, f.s, f.at, f.e.clust), "OK")
f_unlink(p) == UnlinkFound(p, follow_path(Start, p))

\* Mutant of Move: the old entry goes before the new one is there.
MoveOldFirst(t, f, g) ==
    LET u == Flush(dir_remove(t, f.s, f.at))
        r == dir_register(u, g.s, [f.e EXCEPT !.name = g.name])
    IN  [t |-> Flush(r.t), ok |-> r.ok]

\* Mutant of Move: a directory keeps the ".." of its old place.
MoveKeepsDotDot(t, f, g) ==
    LET r == dir_register(t, g.s, [f.e EXCEPT !.name = g.name])
    IN  [t |-> IF r.ok THEN Flush(dir_remove(r.t, f.s, f.at)) ELSE r.t, ok |-> r.ok]

\* Register the new name, point ".." of a directory to its new parent, remove
\* the old name.
Move(t, f, g) ==
    LET r == dir_register(t, g.s, [f.e EXCEPT !.name = g.name])
        u == IF f.e.dir THEN PutEntry(r.t, <<f.e.clust, 1>>, Dir("..", g.s)) ELSE r.t
    IN  [t |-> IF r.ok THEN Flush(dir_remove(u, f.s, f.at)) ELSE r.t, ok |-> r.ok]

RenameFound(p, f, g) ==
    LET r == Move(g.t, f, g) IN
    IF f.res # "OK" THEN Refuse(f, f.res)
    ELSE IF IsDot(f.name) THEN Refuse(f, "INVALID_NAME")
    ELSE IF p.segs = <<>> THEN Refuse(f, "NO_FILE")
    ELSE IF g.res # "NO_FILE" THEN Refuse(g, IF g.res = "OK" THEN "EXIST" ELSE g.res)
    ELSE Runs(r.t, IF r.ok THEN "OK" ELSE "DENIED")
f_rename(p, q) ==
    LET f == follow_path(Start, p) IN RenameFound(p, f, follow_path(f.t, q))

\* FA_OPEN_EXISTING, or FA_OPEN_ALWAYS (new); the FIL is cleared first.  The
\* entry of a new file stays in the window.
OpenFound(p, new, f, r) ==
    IF f.res = "OK" /\ p.segs # <<>> /\ ~f.e.dir
    THEN Runs(SetFil(f.t, [Closed EXCEPT !.open = TRUE, !.at = f.at, !.org = f.e.clust]),
              "OK")
    ELSE IF f.res = "NO_FILE" /\ new /\ r.ok
    THEN Runs(SetFil(r.t, [Closed EXCEPT !.open = TRUE, !.at = r.at, !.written = TRUE]),
              "OK")
    ELSE Refuse(IF f.res = "NO_FILE" /\ new THEN r ELSE f,
                IF f.res = "OK" THEN "DENIED" ELSE f.res)
f_open(p, new) ==
    LET f == follow_path(SetFil(Start, Closed), p)
    IN  OpenFound(p, new, f, dir_register(f.t, f.s, File(f.name, 0)))

\* Mutant of Advance: the first cluster is not kept as the start.
AdvanceCurOnly(fil, c) ==
    [fil EXCEPT !.cur = IF c = 0 THEN fil.cur ELSE c, !.written = TRUE]
\* Cluster c (0: the volume is full) is the one written to.
Advance(fil, c) ==
    [fil EXCEPT !.org = IF fil.org = 0 THEN c ELSE fil.org,
                !.cur = IF c = 0 THEN fil.cur ELSE c, !.written = TRUE]

\* The next cluster of the file: follow its chain, or stretch it.
f_write ==
    LET fil == m.fil
        a == create_chain(Start, fil.cur)
    IN  IF ~fil.open \/ fil.err THEN Runs(Start, "INT_ERR")
        ELSE IF fil.cur = 0 /\ fil.org = Bad
             THEN Runs(SetFil(Start, [fil EXCEPT !.err = TRUE]), "DISK_ERR")
        ELSE IF fil.cur = 0 /\ fil.org # 0 THEN Runs(SetFil(Start, Advance(fil, fil.org)), "OK")
        ELSE IF a.r = 1 THEN Runs(SetFil(a.t, [fil EXCEPT !.err = TRUE]), "INT_ERR")
        ELSE Runs(SetFil(a.t, Advance(fil, a.r)), "OK")

\* f_sync writes the start cluster into the entry, then the FIL is closed.
f_close ==
    LET fil == m.fil
        e == [EntryAt(m.vol, fil.at) EXCEPT !.clust = fil.org]
        u == PutEntry(Start, fil.at, e)
        synced == Become(u, [u.now EXCEPT !.fil.written = FALSE])
    IN  IF ~fil.open THEN Runs(Start, "INVALID_OBJECT")
        ELSE Runs(SetFil(Flush(IF fil.written THEN synced ELSE Start), Closed), "OK")

\* What a disk error leaves of the FIL: a call that failed does not open one,
\* and a failed first allocation leaves its error value as the start cluster.
AfterError(call, n) ==
    CASE call = "f_open" -> [n EXCEPT !.fil = Closed]
      [] call = "f_write" /\ m.fil.open /\ ~m.fil.err ->
            [n EXCEPT !.fil = [m.fil EXCEPT !.err = TRUE,
                                            !.org = IF m.fil.org = 0 THEN Bad ELSE @]]
      [] OTHER -> [n EXCEPT !.cdir = m.cdir]

----------------------------------------------------------------------------
(* What a volume holds, from its root *)

\* The live entries of a table, and the slots they are in.
Entries(vol, s) ==
    LET S == Slots(vol, s)
        used == 1..(FirstSlot(vol, s, {"0"}) - 1)
        all == {[s |-> s, at |-> S[n], e |-> EntryAt(vol, S[n])] : n \in used}
    IN  {o \in all : IsLive(o.e) /\ ~IsDot(o.e.name)}

\* The smallest set that has start and all that links lead to from its members.
Closure(start, links) ==
    LET all == {start} \cup {l[2] : l \in links}
        closed == {D \in SUBSET all : start \in D /\ \A l \in links : l[1] \in D => l[2] \in D}
    IN  {x \in all : \A D \in closed : x \in D}

\* The directories, and everything that is named in them.
SubLinks(vol, s) == {<<s, o.e.clust>> : o \in {x \in Entries(vol, s) : x.e.dir}}
Directories(vol) == Closure(0, UNION {SubLinks(vol, s) : s \in {0} \cup Clusters})
Objects(vol) == UNION {Entries(vol, s) : s \in Directories(vol)}
Heads(O) == {o.e.clust : o \in O} \cap Clusters

\* Two names of one object: a rename that was not finished.
DoublyNamed(vol) ==
    \E o, q \in Objects(vol) :
        o # q /\ o.e.clust = q.e.clust /\ o.e.clust \in Clusters

\* The entries and the links that lead to cluster c, at most n, and none to a free one.
PointedAt(vol, n) ==
    LET O == Objects(vol)
        Pointers(c) ==
            Cardinality({o \in O : o.e.clust = c}) + (IF c = vol.dirbase THEN 1 ELSE 0)
              + Cardinality({x \in Clusters : vol.fat[x] = c})
    IN  \A c \in Clusters : Pointers(c) <= n /\ (Pointers(c) > 0 => vol.fat[c] # 0)

\* A directory leads to itself and back to where it is named.
LeadsBack(vol) ==
    \A o \in Objects(vol) : o.e.dir =>
        /\ vol.tab[o.e.clust][0] = Dir(".", o.e.clust)
        /\ vol.tab[o.e.clust][1] = Dir("..", o.s)

NamedApart(vol) ==
    \A o, q \in Objects(vol) : o.s = q.s /\ o.e.name = q.e.name => o = q

\* An entry that was never used has only such after it.
UnusedLast(vol) ==
    \A s \in Directories(vol) :
        \A n \in DOMAIN Slots(vol, s) :
            n >= FirstSlot(vol, s, {"0"}) => EntryAt(vol, Slots(vol, s)[n]) = Unused

\* Entries with a name of dots are the first two of a table, and not in the root.
DotsFirst(vol) ==
    \A s \in Directories(vol) :
        \A n \in DOMAIN Slots(vol, s) :
            IsDot(EntryAt(vol, Slots(vol, s)[n]).name) => s # 0 /\ n <= 2

Entry == {Unused, Deleted}
    \cup [name : Names, dir : {FALSE}, clust : Clusters \cup {0, Bad}]
    \cup [name : Names, dir : {TRUE}, clust : Clusters]
    \cup [name : Dots, dir : {TRUE}, clust : Clusters \cup {0}]
Image == [dirbase : Clusters \cup {0},
          fat : [Clusters -> Clusters \cup {0, Eoc}],
          tab : [Tables -> [0..(PerSector - 1) -> Entry]],
          raw : SUBSET Clusters]

\* The volumes a run starts from are in order.
InOrder(vol) ==
    /\ vol \in Image /\ vol.raw = {}
    /\ ~DoublyNamed(vol) /\ PointedAt(vol, 1) /\ LeadsBack(vol) /\ NamedApart(vol)
    /\ UnusedLast(vol) /\ DotsFirst(vol)
    /\ \A c \in Clusters : vol.fat[c] = 0 => vol.tab[c] = Blank
ASSUME VolumesAssumption == \A v \in Volumes : InOrder(ImageOf(v))

\* What such a volume, or one with an uncleared table, goes through next is not modelled.
Damaged == \E vol \in {m.vol, m.disk} : DoublyNamed(vol) \/ vol.raw # {}

----------------------------------------------------------------------------
(* The host, the card and the power *)

\* f_mount and chk_mounted after a restart; last_clust is cleared memory, or
\* comes from the FSInfo sector of a FAT32 volume.
Mounted(img, last) ==
    [vol |-> img, disk |-> img, win |-> NoSector, last |-> last, cdir |-> 0, fil |-> Closed]

\* The calls that end with sync.
Synced == {"f_mkdir", "f_unlink", "f_rename", "f_close"}
Ended(call, res) ==
    op' = IF res = "OK" THEN (IF call \in Synced THEN "done" ELSE "none")
          ELSE IF res \in {"DISK_ERR", "power cut"}
               THEN (IF call = "f_rename" THEN "left rename" ELSE "left")
          ELSE "none"

\* A call runs to its end, is left by a disk error, or loses the power.
Do(call, runs, c) ==
    /\ \E r \in runs :
          \/ m' = r.t.now /\ Ended(call, r.res)
          \/ \E w \in r.t.seen :
                /\ w # r.t.now \/ r.t.seen = {w}
                /\ m' = AfterError(call, w)
                /\ Ended(call, "DISK_ERR")
          \/ \E w \in r.t.seen, last \in {0} \cup (IF m.vol.dirbase = 0 THEN {} ELSE {m.last}) :
                /\ m' = Mounted(w.disk, last)
                /\ Ended(call, "power cut")
    /\ gone' = c
    /\ calls' = calls + 1

\* The directories above s, and s.
Above(vol, s) ==
    Closure(s, {<<c, vol.tab[c][1].clust>> : c \in Clusters})

Chdir(p) == Do("f_chdir", f_chdir(p), 0)
Mkdir(p) == Do("f_mkdir", f_mkdir(p), 0)

\* f_unlink and f_rename do not look whether an object is in use: the host
\* does not remove or rename the file it has open, does not remove its current
\* directory, and does not move a directory below itself.  Nor does it give
\* a new object a name of dots, which the root directory takes as any other name.
EndsInDots(p) == p.segs # <<>> /\ IsDot(Last(p.segs))

RemoveObject(p) ==
    LET f == follow_path(Start, p) IN
    /\ ~(m.fil.open /\ m.fil.at = f.at)
    /\ ~(f.e.dir /\ f.e.clust = m.cdir)
    /\ Do("f_unlink", f_unlink(p), f.e.clust)

Rename(p, q) ==
    LET f == follow_path(Start, p)
        g == follow_path(f.t, q)
    IN  /\ ~(m.fil.open /\ m.fil.at = f.at)
        /\ ~(f.e.dir /\ f.e.clust \in Above(m.vol, g.s))
        /\ ~EndsInDots(q)
        /\ Do("f_rename", f_rename(p, q), 0)

Open(p, new) == ~EndsInDots(p) /\ Do("f_open", f_open(p, new), 0)
WriteOn == Do("f_write", f_write, 0)
Close == Do("f_close", f_close, 0)

Init ==
    /\ \E v \in Volumes : m = Mounted(ImageOf(v), 0)
    /\ op = "none" /\ gone = 0 /\ calls = 0

Next ==
    /\ calls < MaxCalls
    /\ ~Damaged
    /\ \/ \E p \in Paths : Chdir(p) \/ Mkdir(p) \/ RemoveObject(p)
       \/ \E p, q \in Paths : Rename(p, q)
       \/ \E p \in Paths, new \in BOOLEAN : Open(p, new)
       \/ WriteOn
       \/ Close

Spec == Init /\ [][Next]_vars

----------------------------------------------------------------------------
(* Properties *)

Slot == (Tables \cup {0}) \X (0..(PerSector - 1))

\* Every variable keeps its type.
TypeOK ==
    /\ m.vol \in Image /\ m.disk \in Image
    /\ m.last \in Clusters \cup {0} /\ m.cdir \in Clusters \cup {0}
    /\ m.fil \in [open : BOOLEAN, at : Slot, org : Clusters \cup {0, Bad},
                  cur : Clusters \cup {0}, written : BOOLEAN, err : BOOLEAN]
    /\ op \in {"none", "done", "left", "left rename"}
    /\ gone \in Clusters \cup {0, Bad} /\ calls \in 0..MaxCalls

\* No cluster is part of two objects, none that is part of one is free,
\* directories lead back to where they are named, and names are not repeated.
\* A rename that was left half way may leave an object with two names.
Sound(vol) ==
    /\ NamedApart(vol)
    /\ IF DoublyNamed(vol) THEN op = "left rename" /\ PointedAt(vol, 2)
       ELSE PointedAt(vol, 1) /\ LeadsBack(vol)

\* The card is sound after every write to it, so whenever the power goes; it
\* can only have lost clusters, which are in use and part of nothing.
CardSound == Sound(m.disk)

\* And so is the volume the firmware goes on with after a disk error.
VolumeSound == Sound(m.vol)

\* A table sector that was not cleared can be read only when a call that
\* makes a table longer was cut short, and then it is one cluster.
TablesCleared ==
    m.disk.raw # {} => op \in {"left", "left rename"} /\ Cardinality(m.disk.raw) = 1

\* What a call of these says it has done is on the card.
DoneIsOnCard ==
    op = "done" => m.vol = m.disk

\* The current directory is one, and the open file is the only owner of its
\* entry and of its chain, while other calls come and go.
InUseIsSound ==
    LET O == Objects(m.vol)
        mine == {o \in O : o.at = m.fil.at}
    IN  /\ m.cdir \in Directories(m.vol)
        /\ m.fil.open =>
              /\ Cardinality(mine) = 1
              /\ \A o \in mine : ~o.e.dir /\ o.e.clust \in {0, m.fil.org}
              /\ m.fil.org \notin Heads(O \ mine)
              /\ m.fil.cur # 0 => m.fil.cur \in ToSet(Chain(m.vol.fat, m.fil.org))

\* No call, finished or not, takes from an object on the card: all but the one
\* that f_unlink was asked to remove are still there, with their clusters.
ObjectsKept ==
    [][m'.disk # m.disk =>
          LET kept == Heads(Objects(m'.disk)) IN
          \A c \in (Heads(Objects(m.disk)) \cap Heads(Objects(m.vol))) \ {gone'} :
              c \in kept /\ IsPrefix(Chain(m.disk.fat, c), Chain(m'.disk.fat, c))]_vars

\* Every entry has a start cluster of the volume, or none.
StartClusterValid == \A o \in Objects(m.disk) : o.e.clust # Bad
=============================================================================
