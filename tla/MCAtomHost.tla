----------------------------- MODULE MCAtomHost -----------------------------
(***************************************************************************)
(* Instances of AtomHost for TLC.                                          *)
(***************************************************************************)
EXTENDS AtomHost

CONSTANTS r, s, i1, i2, f1, f2, f3, a, b, w

NoPort == <<vol, fresh, cdir, fildata, driveInfo, lastDriveNo, globalCurDrive,
          globalLBAOffset, globalData, bound, out>>

OneDir == {r}
TwoDirs == {r, s}

AFile(size, v) ==
    [size |-> size, attr |-> AM_ARC,
     blk |-> [x \in Sectors |-> IF x < size THEN v ELSE Blank]]

\* A card with a full and a half-full image in the root directory.
ImageCard ==
    [p \in Path |-> IF p = <<r, i1>> THEN AFile(Capacity, a)
                    ELSE IF p = <<r, i2>> THEN AFile(1, b)
                    ELSE NoEntry]

\* The same with copies of both images in the other directory.
CopiesCard ==
    [p \in Path |-> IF p[2] = i1 THEN AFile(Capacity, a)
                    ELSE IF p[2] = i2 THEN AFile(1, b)
                    ELSE NoEntry]

OneCard == {ImageCard}
CopyCards == {CopiesCard}
=============================================================================
