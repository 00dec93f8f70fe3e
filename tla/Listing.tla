------------------------------ MODULE Listing ------------------------------
(***************************************************************************)
(* Directory listings: CMD_DIR_OPEN splits what the host sends into a path *)
(* and a wildcard and opens the directory, each CMD_DIR_READ answers with  *)
(* the next entry that the wildcard matches.  Between two reads the host   *)
(* may create and delete files, and change its directory.                  *)
(*                                                                         *)
(* A string is a sequence of characters.  There is a root directory and    *)
(* one directory in it; a table is a sequence of entries, the static table *)
(* of the root of fixed length, the other one in sectors of PerSector.     *)
(***************************************************************************)
EXTENDS Integers, Sequences, FiniteSets

CONSTANTS
    Characters,  \* what names, paths and wildcards are made of
    Strings,     \* what the host sends with CMD_DIR_OPEN
    WildLen,     \* WILD_LEN: characters of a wildcard that are kept
    PerSector,   \* directory entries in a sector
    SubName,     \* name of the directory in the root
    HostNames,   \* names of files the host creates and deletes
    RootTable,   \* the tables at the start
    SubTable

Wild == {"*", "?"}
Dirs == {"root", "sub"}
NoDir == "none"
Slash == "/"

\* First byte 0: this slot and the ones after it are unused.  0xE5: deleted.
Unused == [name |-> <<>>, dir |-> FALSE]
Deleted == [name |-> <<"E5">>, dir |-> FALSE]
Valid(e) == e \notin {Unused, Deleted}

Text == Seq(Characters)
Slot == [name : Text, dir : BOOLEAN]

ASSUME SizesAssumption == WildLen \in Nat \ {0} /\ PerSector \in Nat \ {0}
\* A string ends before its first NUL.
ASSUME CharactersAssumption ==
    {"*", "?", Slash, "E5"} \subseteq Characters /\ "NUL" \notin Characters
ASSUME StringsAssumption == Strings \subseteq Text
ASSUME TablesAssumption ==
    /\ RootTable \in Seq(Slot) /\ SubTable \in Seq(Slot)
    /\ [name |-> SubName, dir |-> TRUE] \in {RootTable[n] : n \in DOMAIN RootTable}
    /\ HostNames \subseteq Text \ {<<>>, <<"E5">>, SubName}

VARIABLES
    table,        \* the two directory tables
    cdir,         \* the current directory
    dj,           \* the DIR of the listing: directory, next index, at its end?
    WildPattern,
    answer,       \* what the last command answered
    asked,        \* the string of the last CMD_DIR_OPEN, and cdir at that time
    seen,         \* the slots listed since
    steady        \* the slots that have not changed since

vars == <<table, cdir, dj, WildPattern, answer, asked, seen, steady>>

----------------------------------------------------------------------------
(* Strings *)

At(s, i) == IF i <= Len(s) THEN s[i] ELSE "NUL"
Least(S) == CHOOSE n \in S : \A k \in S : n <= k
Greatest(S) == CHOOSE n \in S : \A k \in S : n >= k

\* Where wildcmp stands: at wild[i] and string[j]; after a mismatch it goes on at
\* wild[mp], the character behind the last "*", and string[cp].  Without a "*" so
\* far, mp is 0.  What it has compared since it was last at mp are no stars.
Positions(w, s) ==
    {p \in [i : 1..(Len(w) + 1), j : 1..(Len(s) + 1), mp : 0..(Len(w) + 1), cp : 0..(Len(s) + 2)] :
        p.mp # 0 =>
            /\ p.mp <= p.i /\ p.cp >= 1 /\ p.i - p.mp = p.j - (p.cp - 1)
            /\ \A k \in p.mp..(p.i - 1) : w[k] # "*"}
Start == [i |-> 1, j |-> 1, mp |-> 0, cp |-> 0]

\* Mutant of NextTry: the "*" is forgotten after the first try.
NextTryOnce(p) == [i |-> p.mp, j |-> p.cp, mp |-> 0, cp |-> 0]
\* Back to behind the last "*", which takes one more character of the name.
NextTry(p) == [i |-> p.mp, j |-> p.cp, mp |-> p.mp, cp |-> p.cp + 1]
AfterStar(p) == [i |-> p.i + 1, j |-> p.j, mp |-> p.i + 1, cp |-> p.j + 1]
AfterBoth(p) == [i |-> p.i + 1, j |-> p.j + 1, mp |-> p.mp, cp |-> p.cp]

\* The loops of wildcmp, from each position.
Compare(w, s) ==
    LET from[p \in Positions(w, s)] ==
          \/ p.j > Len(s) /\ \A k \in p.i..Len(w) : w[k] = "*"
          \/ /\ p.j <= Len(s) /\ At(w, p.i) = "*"
             /\ p.i = Len(w) \/ from[AfterStar(p)]
          \/ /\ p.j <= Len(s) /\ At(w, p.i) # "*" /\ At(w, p.i) \in {s[p.j], "?"}
             /\ from[AfterBoth(p)]
          \/ /\ p.j <= Len(s) /\ At(w, p.i) \notin {"*", "?", s[p.j]}
             /\ p.mp # 0 /\ from[NextTry(p)]
    IN  from
\* Mutant of wildcmp: the rest of the name is not looked at.
wildcmpStart(w, s) == \E n \in 0..Len(s) : Compare(w, SubSeq(s, 1, n))[Start]
wildcmp(w, s) == Compare(w, s)[Start]

\* What a wildcard means: the name can be cut into pieces, one for each of its
\* characters: any piece for "*", one character for "?", itself for another.
Matches(w, s) ==
    \E cut \in [0..Len(w) -> 0..Len(s)] :
        /\ cut[0] = 0 /\ cut[Len(w)] = Len(s)
        /\ \A i \in 1..Len(w) :
              IF w[i] = "*" THEN cut[i] >= cut[i - 1]
              ELSE cut[i] = cut[i - 1] + 1 /\ w[i] \in {"?", s[cut[i]]}

\* Mutant of Split: the wildcard starts at the first slash.
SplitAtFirst(s) ==
    LET wilds == {i \in DOMAIN s : s[i] \in Wild}
        slashes == {i \in DOMAIN s : s[i] = Slash /\ i < Least(wilds)}
    IN  IF wilds = {} THEN [path |-> s, wild |-> <<"*">>]
        ELSE IF slashes = {} THEN [path |-> <<>>, wild |-> s]
        ELSE [path |-> SubSeq(s, 1, Least(slashes) - 1),
              wild |-> SubSeq(s, Least(slashes) + 1, Len(s))]

\* The last slash before the first wildcard character parts path and wildcard;
\* without a wildcard all of it is the path, and all files are listed.
Split(s) ==
    LET wilds == {i \in DOMAIN s : s[i] \in Wild}
        slashes == {i \in DOMAIN s : s[i] = Slash /\ i < Least(wilds)}
    IN  IF wilds = {} THEN [path |-> s, wild |-> <<"*">>]
        ELSE IF slashes = {} THEN [path |-> <<>>, wild |-> s]
        ELSE [path |-> SubSeq(s, 1, Greatest(slashes) - 1),
              wild |-> SubSeq(s, Greatest(slashes) + 1, Len(s))]

\* Mutant of GetWildcard: the whole wildcard is copied.
GetWildcardUncut(s) == Split(s)
\* strncpy into WildPattern.
GetWildcard(s) ==
    [Split(s) EXCEPT !.wild = SubSeq(@, 1, IF Len(@) < WildLen THEN Len(@) ELSE WildLen)]

----------------------------------------------------------------------------
(* Directories *)

\* The slots before the end of the table.
InUse(t) ==
    LET ends == {n \in DOMAIN t : t[n] = Unused}
    IN  1..(IF ends = {} THEN Len(t) ELSE Least(ends) - 1)
SlotOf(t, name) == {n \in InUse(t) : t[n].name = name}

\* One segment of a path from directory d.
Step(tables, d, name) ==
    LET found == IF d \in Dirs THEN SlotOf(tables[d], name) ELSE {} IN
    IF found = {} \/ ~tables[d][Least(found)].dir THEN NoDir
    ELSE IF name = <<".">> THEN d
    ELSE IF name = <<".", ".">> THEN "root"
    ELSE "sub"

\* f_opendir's follow_path: a leading slash starts from the root; a segment
\* must not be empty, except that the whole path may be.
Walk(tables, d, p) ==
    LET ends == {0} \cup {n \in DOMAIN p : p[n] = Slash}
        Last(n) == Greatest({k \in ends : k < n})
        Segment(n) == SubSeq(p, Last(n) + 1, n - 1)
        at[n \in ends] == IF n = 0 THEN d ELSE Step(tables, at[Last(n)], Segment(n))
    IN  Step(tables, at[Last(Len(p) + 1)], Segment(Len(p) + 1))
follow_path(tables, d, p) ==
    IF p = <<>> THEN d
    ELSE IF p[1] # Slash THEN Walk(tables, d, p)
    ELSE IF Len(p) = 1 THEN "root" ELSE Walk(tables, "root", Tail(p))

\* dir_read: the valid entries.
Entries(t) == {k \in InUse(t) : Valid(t[k])}

----------------------------------------------------------------------------
(* Commands *)

NoListing == [dir |-> NoDir, index |-> 1, live |-> FALSE]
Nothing == [s |-> <<>>, cdir |-> "root"]
Forget == dj' = NoListing /\ asked' = Nothing /\ seen' = <<>> /\ steady' = {}

KeepTables == UNCHANGED <<table, cdir>>
Says(kind, n) == answer' = [kind |-> kind, slot |-> n]

\* wfnDirectoryOpen.  After a failure the host does not read on.
DirectoryOpen(s) ==
    LET g == GetWildcard(s)
        d == follow_path(table, cdir, g.path)
    IN  /\ ~dj.live
        /\ WildPattern' = g.wild
        /\ asked' = [s |-> s, cdir |-> cdir]
        /\ dj' = [dir |-> d, index |-> 1, live |-> d # NoDir]
        /\ Says(IF d = NoDir THEN "error" ELSE "opened", 0)
        /\ seen' = <<>>
        /\ steady' = IF d = NoDir THEN {} ELSE InUse(table[d])
        /\ KeepTables

\* dir_next, after an entry was read.
Resume(k) == k + 1

\* f_readdir from index n on until a name matches, 0 if none does.
ReadOn(t, n) ==
    LET found == {k \in Entries(t) : k >= n /\ wildcmp(WildPattern, t[k].name)}
    IN  IF found = {} THEN 0 ELSE Least(found)

DirectoryRead ==
    /\ dj.live
    /\ LET t == table[dj.dir]
           k == ReadOn(t, dj.index)
       IN  IF k = 0
           THEN /\ dj' = [dj EXCEPT !.live = FALSE]
                /\ Says("complete", 0)
                /\ UNCHANGED seen
           ELSE /\ dj' = [dj EXCEPT !.index = Resume(k)]
                /\ Says("entry", k)
                /\ seen' = Append(seen, k)
    /\ UNCHANGED <<WildPattern, asked, steady>>
    /\ KeepTables

\* A slot of d has changed; a listing that is over is forgotten.
Disturb(d, n) ==
    IF dj.live
    THEN /\ steady' = IF d = dj.dir THEN steady \ {n} ELSE steady
         /\ UNCHANGED <<dj, asked, seen>>
    ELSE Forget

\* dir_register: the first deleted or unused slot.
FreeSlot(t) ==
    LET free == {n \in DOMAIN t : ~Valid(t[n])}
    IN  IF free = {} THEN Len(t) + 1 ELSE Least(free)

CreateFile(name) ==
    LET t == table[cdir]
        n == FreeSlot(t)
        longer == [k \in 1..(Len(t) + PerSector) |-> IF k <= Len(t) THEN t[k] ELSE Unused]
    IN  /\ SlotOf(t, name) = {}
        /\ n <= Len(t) \/ cdir = "sub"
        /\ table' = [table EXCEPT ![cdir] =
                        [(IF n <= Len(t) THEN t ELSE longer) EXCEPT
                            ![n] = [name |-> name, dir |-> FALSE]]]
        /\ Disturb(cdir, n)
        /\ Says("file", 0)
        /\ UNCHANGED <<cdir, WildPattern>>

\* Mutant of Remove: the entries behind the deleted one move up.
RemoveAndClose(t, n) ==
    [k \in DOMAIN t |-> IF k < n THEN t[k] ELSE IF k < Len(t) THEN t[k + 1] ELSE Unused]
\* dir_remove
Remove(t, n) == [t EXCEPT ![n] = Deleted]

DeleteFile(name) ==
    \E n \in SlotOf(table[cdir], name) :
        /\ table' = [table EXCEPT ![cdir] = Remove(@, n)]
        /\ Disturb(cdir, n)
        /\ Says("file", 0)
        /\ UNCHANGED <<cdir, WildPattern>>

SetCWDirectory(d) ==
    /\ cdir' = d /\ d # cdir
    /\ Says("file", 0)
    /\ Disturb(cdir, 0)
    /\ UNCHANGED <<table, WildPattern>>

Init ==
    /\ table = [d \in Dirs |-> IF d = "root" THEN RootTable ELSE SubTable]
    /\ cdir = "root"
    /\ dj = NoListing
    /\ WildPattern = <<>>
    /\ answer = [kind |-> "file", slot |-> 0]
    /\ asked = Nothing
    /\ seen = <<>> /\ steady = {}

Next ==
    \/ \E s \in Strings : DirectoryOpen(s)
    \/ DirectoryRead
    \/ \E name \in HostNames : CreateFile(name) \/ DeleteFile(name)
    \/ \E d \in Dirs : SetCWDirectory(d)

Spec == Init /\ [][Next]_vars

----------------------------------------------------------------------------
(* Properties *)

Names == HostNames \cup {<<>>, <<"E5">>}
    \cup {RootTable[n].name : n \in DOMAIN RootTable}
    \cup {SubTable[n].name : n \in DOMAIN SubTable}
Entry == [name : Names, dir : BOOLEAN]

\* Every variable keeps its type.
TypeOK ==
    /\ \A d \in Dirs : \A n \in DOMAIN table[d] : table[d][n] \in Entry
    /\ cdir \in Dirs /\ asked.cdir \in Dirs
    /\ dj \in [dir : Dirs \cup {NoDir}, index : Nat, live : BOOLEAN]
    /\ Len(WildPattern) <= WildLen
    /\ answer.kind \in {"opened", "entry", "complete", "error", "file"}
    /\ answer.slot \in Nat
    /\ steady \subseteq Nat

Wanted(name) == Matches(Split(asked.s).wild, name)
WildFits == Len(Split(asked.s).wild) <= WildLen

\* An entry that is answered is one of the directory, and is matched by the
\* wildcard as the host wrote it, unless that was too long.
ListedIsWanted ==
    answer.kind = "entry" =>
        LET e == table[dj.dir][answer.slot] IN
        Valid(e) /\ (WildFits => Wanted(e.name))

\* When a listing is complete, every wanted entry that was there all the time
\* has been listed, and none twice, whatever the host created and deleted in
\* between.
ListingComplete ==
    answer.kind = "complete" =>
        /\ \A i, j \in DOMAIN seen : i < j => seen[i] < seen[j]
        /\ WildFits =>
             \A n \in steady :
                Valid(table[dj.dir][n]) /\ Wanted(table[dj.dir][n].name) =>
                    \E i \in DOMAIN seen : seen[i] = n

\* Where the path part of a string ends: before its last slash that no wildcard
\* character precedes.
PathEnds(s) ==
    {k \in 0..(Len(s) - 1) : s[k + 1] = Slash /\ \A i \in 1..k : s[i] \notin Wild}
IsWild(s) == \E i \in DOMAIN s : s[i] \in Wild
RootOnly(s) == IsWild(s) /\ PathEnds(s) = {0}
Named(s, d) ==
    IF ~IsWild(s) THEN follow_path(table, d, s)
    ELSE IF PathEnds(s) = {} THEN d
    ELSE IF PathEnds(s) = {0} THEN "root"
    ELSE follow_path(table, d, SubSeq(s, 1, Greatest(PathEnds(s))))

\* The directory that is listed is the one that the path before the wildcard
\* names, in any string but one with the slash of the root only.
ListsNamed ==
    answer.kind \in {"opened", "error"} /\ ~RootOnly(asked.s) =>
        dj.dir = Named(asked.s, asked.cdir)
=============================================================================
