--------------------------- MODULE MCFlashUpdate ---------------------------
(***************************************************************************)
(* Instances of FlashUpdate for TLC.                                       *)
(***************************************************************************)
EXTENDS FlashUpdate

CONSTANTS bl1, bl2, stub, fw1, fw2, upd

Some == {bl1, bl2, stub, fw1, fw2, upd}
SomeRole == [p \in Some |-> CASE p \in {bl1, bl2} -> "loader" [] p = stub -> "reset"
                              [] p = upd -> "updater" [] OTHER -> "firmware"]
\* The second firmware ends in the middle of a sector, on a page boundary.
SomeBytes == [p \in Some |-> CASE p \in {bl1, bl2} -> 8 [] p = stub -> 1
                             [] p = fw1 -> 8 [] p = fw2 -> 6 [] p = upd -> 4]
\* The second firmware ends with the first byte of a page.
OddBytes == [SomeBytes EXCEPT ![fw2] = 7]

Entry(name, start, p) == [name |-> name, start |-> start, size |-> FileSize(p)]
Others == [name |-> "other", start |-> 0, size |-> 0]

\* A volume with the file of p in the clusters 2, 3 and 4, in the order of
\* chain, and the boot loader bl2 in 5 and 7; entries is the root directory.
Volume(type, p, chain, entries) ==
    [fs |-> type, rootEntries |-> IF type = "FAT32" THEN 0 ELSE 6, csize |-> 1,
     clusters |-> 6, listed |-> Cardinality(DOMAIN entries),
     dir |-> [i \in 0..(Cardinality(DOMAIN entries) - 1) |-> entries[i + 1]],
     fat |-> [c \in 2..7 |->
                IF c = 5 THEN 7
                ELSE IF c \in {6, 7, chain[3]} THEN 65535
                ELSE chain[1 + CHOOSE i \in 1..2 : chain[i] = c]],
     data |-> [x \in 0..5 |->
                 CASE x < 3 -> [of |-> p, k |-> (CHOOSE i \in 1..3 : chain[i] = x + 2) - 1]
                   [] x = 4 -> NoSector
                   [] OTHER -> [of |-> bl2, k |-> (x - 3) \div 2]]]

Usual(p) == <<Others, NoEntry, Entry("firmware", 2, p), Entry("loader", 5, bl2), NoMore>>
InOrder == <<2, 3, 4>>
Good(p) == Volume("FAT16", p, InOrder, Usual(p))
Fragmented(p) == Volume("FAT16", p, <<2, 4, 3>>, Usual(p))
Unformatted(p) == Volume("none", p, InOrder, Usual(p))
Big(p) == Volume("FAT32", p, InOrder, Usual(p))

AllSorts == {Good(fw1), Good(fw2), Good(upd), Fragmented(fw2), Big(fw1),
             Unformatted(fw1)}
TwoGood == {Good(fw1), Good(fw2)}

\* Every file called a loader is one.
ASSUME UserAssumption == LoadersAreLoaders
=============================================================================
