---------------------------- MODULE MCFatVolume ----------------------------
(***************************************************************************)
(* Instances of FatVolume for TLC.                                         *)
(***************************************************************************)
EXTENDS FatVolume

Path(abs, segs) == [abs |-> abs, segs |-> segs]
\* Names in the current directory, the way up, and a path from the root.
ShortPaths ==
    {Path(FALSE, <<n>>) : n \in Names}
        \cup {Path(FALSE, <<"..">>), Path(TRUE, <<"a", "b">>)}

\* A FAT16 volume with two files, one in a directory; a FAT32 volume with a
\* directory in a directory, both tables of the way down almost full.
Used ==
    [dirbase |-> 0,
     fat |-> 2 :> Eoc @@ 3 :> Eoc @@ 4 :> Eoc,
     tab |-> -1 :> [Blank EXCEPT ![0] = Dir("a", 2), ![1] = File("b", 3)]
             @@ 2 :> [DotEntries(2, 0) EXCEPT ![2] = File("b", 4)]]
Big ==
    [dirbase |-> 2,
     fat |-> 2 :> Eoc @@ 3 :> Eoc @@ 4 :> Eoc,
     tab |-> 2 :> [Blank EXCEPT ![0] = Deleted, ![1] = Dir("a", 3)]
             @@ 3 :> [DotEntries(3, 0) EXCEPT ![2] = Dir("a", 4)]
             @@ 4 :> DotEntries(4, 3)]
Cards == {Used, Big}
=============================================================================
