------------------------------ MODULE FatFile ------------------------------
(***************************************************************************)
(* The file-object layer of the FAT library (ff.c): f_open, f_read,        *)
(* f_write, f_sync, f_close, f_lseek, f_unlink, as the command workers of  *)
(* atmmc2wfn.c call them.                                                  *)
(*                                                                         *)
(* A call is an operator from a machine m to the SET of machines it may    *)
(* leave: one outcome when the card answers, and, when Faults is TRUE, the *)
(* outcomes of a disk error.  The fields of m that this layer touches are  *)
(*   vol    directory entries and file contents as they are on the card    *)
(*   fil    the four FIL objects, fildata[0..3]                            *)
(*   fresh  entries that f_open created and that are still only in the     *)
(*          volume's dirty sector window (lost if the power goes)          *)
(*   res    the FRESULT of the call                                        *)
(*   data   globalData, the buffer the data travels through                *)
(*                                                                         *)
(* Data: a file is an array of sectors, each holding one value; a transfer *)
(* of 1..256 bytes moves within one sector through the FIL's own buffer    *)
(* (_FS_TINY is 0), so it is modelled as reading or writing that sector's  *)
(* value.  Capacity is the number of sectors the volume can give a file.   *)
(* Clusters, chains and the sector window are below this layer.            *)
(***************************************************************************)
EXTENDS Integers

CONSTANTS
    Dirs,         \* directories of the card
    Root,         \* the root directory
    HostNames,    \* names the host gives to its own files
    ImageNames,   \* names of floppy images
    CfgName,      \* "BOOTDRV.CFG"
    NoName,       \* a name f_open refuses (bytes 0xff)
    Data,         \* values a sector can hold
    Blank,        \* what a sector holds before it is first written
    NoEntry,      \* there is no such directory entry
    Capacity,     \* sectors a file can grow to
    Faults        \* may the card fail a transfer

ASSUME CapacityAssumption == Capacity \in Nat \ {0}
ASSUME FaultsAssumption == Faults \in BOOLEAN
ASSUME NamesAssumption ==
    /\ Root \in Dirs
    /\ CfgName \notin HostNames \cup ImageNames
    /\ NoName \notin HostNames \cup ImageNames \cup {CfgName}
    /\ HostNames \cap ImageNames = {}

Slots == 0..3              \* fildata[4]
Drives == 0..3             \* driveInfo[4]

Names == HostNames \cup ImageNames \cup {CfgName}
Path == Dirs \X Names
Sectors == 0..(Capacity - 1)
NoSector == -1             \* the FIL buffer holds no sector (dsect = 0)

\* DIR_Attr: nothing, AM_RDO, AM_ARC; 0xff marks an unused drive.
NoAttr == 0
AM_RDO == 1
AM_ARC == 32
Unset == 255
Attr == {NoAttr, AM_RDO, AM_ARC}

\* An imgInfo: file name and attributes of the image mounted in a drive.
ImgInfo == [name : ImageNames \cup {NoName}, attribs : Attr \cup {Unset}]
DriveTable == [Drives -> ImgInfo]
Value == Data \cup {Blank} \cup DriveTable

Entry == [size : 0..Capacity, attr : Attr, blk : [Sectors -> Value]]
ASSUME NoEntryAssumption == NoEntry \notin Entry

\* FRESULT codes
FR_OK == 0
FR_DISK_ERR == 1
FR_INT_ERR == 2
FR_NO_FILE == 4
FR_INVALID_NAME == 6
FR_DENIED == 7
FR_EXIST == 8
FR_INVALID_OBJECT == 9
Result == {FR_OK, FR_DISK_ERR, FR_INT_ERR, FR_NO_FILE, FR_INVALID_NAME,
           FR_DENIED, FR_EXIST, FR_INVALID_OBJECT}

Fil == [open : BOOLEAN, path : Path, mode : {"read", "write", "both"},
        fptr : 0..Capacity, size : 0..Capacity,
        buf : Sectors \cup {NoSector}, val : Value,
        dirty : BOOLEAN, written : BOOLEAN, err : BOOLEAN]

\* fs = NULL; the other members of a closed FIL are never looked at.
Closed == [open |-> FALSE, path |-> <<Root, CfgName>>, mode |-> "read",
           fptr |-> 0, size |-> 0, buf |-> NoSector, val |-> Blank,
           dirty |-> FALSE, written |-> FALSE, err |-> FALSE]

NewEntry == [size |-> 0, attr |-> NoAttr, blk |-> [s \in Sectors |-> Blank]]

CanRead(f) == f.mode \in {"read", "both"}
CanWrite(f) == f.mode \in {"write", "both"}
Larger(a, b) == IF a >= b THEN a ELSE b

Exists(m, p) == p \in Path /\ m.vol[p] # NoEntry

\* The machines m may become: the good one, and the ones a fault leaves.
OrFault(good, bad) == good \cup (IF Faults THEN bad ELSE {})

Return(m, r) == [m EXCEPT !.res = r]
SetData(m, v) == [m EXCEPT !.data = v]
SetFil(m, h, f, r) == [m EXCEPT !.fil[h] = f, !.res = r]

----------------------------------------------------------------------------
\* FA_OPEN_EXISTING, FA_CREATE_NEW and FA_OPEN_ALWAYS, mode argument of f_open.
Opened(m, h, p, mode, new) ==
    [m EXCEPT !.fil[h] = [open |-> TRUE, path |-> p, mode |-> mode,
                          fptr |-> 0, size |-> m.vol[p].size,
                          buf |-> NoSector, val |-> Blank, dirty |-> FALSE,
                          written |-> new, err |-> FALSE],
              !.res = FR_OK]

\* The first thing f_open does is to clear the FIL: whatever it held and had
\* not yet written is gone, whether or not the open succeeds.
f_open(m, h, p, mode, how) ==
    OrFault(
      {IF ~Exists(m, p) THEN
          IF p \notin Path THEN SetFil(m, h, Closed, FR_INVALID_NAME)
          ELSE IF how = "existing" THEN SetFil(m, h, Closed, FR_NO_FILE)
          ELSE Opened([m EXCEPT !.vol[p] = NewEntry, !.fresh = @ \cup {p}],
                      h, p, mode, TRUE)
       ELSE IF how = "new" THEN SetFil(m, h, Closed, FR_EXIST)
       ELSE IF mode # "read" /\ m.vol[p].attr = AM_RDO
            THEN SetFil(m, h, Closed, FR_DENIED)
       ELSE Opened(m, h, p, mode, FALSE)},
      {SetFil(m, h, Closed, FR_DISK_ERR)})

\* Write the FIL's buffer back to its sector.
FlushBuf(m, h) ==
    LET f == m.fil[h] IN
    IF f.dirty
    THEN [m EXCEPT !.vol[f.path] = [@ EXCEPT !.blk[f.buf] = f.val],
                   !.fil[h] = [f EXCEPT !.dirty = FALSE]]
    ELSE m

\* Bring sector s into the buffer, the old one having been written back.
LoadBuf(m, h, s) ==
    LET f == m.fil[h]
        n == FlushBuf(m, h)
    IN  IF f.buf = s THEN n
        ELSE SetFil(n, h, [n.fil[h] EXCEPT !.buf = s,
                                           !.val = n.vol[f.path].blk[s]], FR_OK)

\* ABORT: the FIL remembers the error and refuses everything but f_sync.
Aborted(m, h) == SetFil(m, h, [m.fil[h] EXCEPT !.err = TRUE], FR_DISK_ERR)

Refusal(f, allowed) ==
    IF ~f.open THEN FR_INVALID_OBJECT
    ELSE IF f.err THEN FR_INT_ERR
    ELSE IF ~allowed THEN FR_DENIED
    ELSE FR_OK

\* At the end of the file nothing is read and the buffer stays as it was.
f_read(m, h) ==
    LET f == m.fil[h]
        no == Refusal(f, CanRead(f))
        n == LoadBuf(m, h, f.fptr)
    IN  IF no # FR_OK THEN {Return(m, no)}
        ELSE IF f.fptr >= f.size THEN {Return(m, FR_OK)}
        ELSE OrFault({SetData(SetFil(n, h, [n.fil[h] EXCEPT !.fptr = f.fptr + 1],
                                     FR_OK),
                              n.fil[h].val)},
                     {Aborted(m, h), Aborted(FlushBuf(m, h), h)})

\* f_read's *br: was the whole transfer made?
ReadsAll(m, h) == m.fil[h].fptr < m.fil[h].size

\* Mutant of f_write: the buffer is taken for the new sector before the old one
\* is written back.
f_writeUnflushed(m, h, v) ==
    LET f == m.fil[h]
        no == Refusal(f, CanWrite(f))
    IN  IF no # FR_OK THEN {Return(m, no)}
        ELSE IF f.fptr >= Capacity
        THEN {SetFil(m, h, [f EXCEPT !.written = TRUE], FR_OK)}
        ELSE {SetFil(m, h,
                 [f EXCEPT !.buf = f.fptr, !.val = v, !.dirty = TRUE,
                           !.fptr = f.fptr + 1,
                           !.size = Larger(f.size, f.fptr + 1),
                           !.written = TRUE], FR_OK)}

\* Mutant of f_write: the test for a full volume is off by one.
f_writePastEnd(m, h, v) ==
    LET f == m.fil[h]
        no == Refusal(f, CanWrite(f))
        n == FlushBuf(m, h)
    IN  IF no # FR_OK THEN {Return(m, no)}
        ELSE IF f.fptr > Capacity
        THEN {SetFil(m, h, [f EXCEPT !.written = TRUE], FR_OK)}
        ELSE {SetFil(n, h,
                 [f EXCEPT !.buf = f.fptr, !.val = v, !.dirty = TRUE,
                           !.fptr = f.fptr + 1,
                           !.size = Larger(f.size, f.fptr + 1),
                           !.written = TRUE], FR_OK)}

\* When the volume is full nothing is written, and the result is FR_OK.
f_write(m, h, v) ==
    LET f == m.fil[h]
        no == Refusal(f, CanWrite(f))
        n == FlushBuf(m, h)
    IN  IF no # FR_OK THEN {Return(m, no)}
        ELSE IF f.fptr >= Capacity
        THEN {SetFil(m, h, [f EXCEPT !.written = TRUE], FR_OK)}
        ELSE OrFault({SetFil(n, h,
                         [f EXCEPT !.buf = f.fptr, !.val = v, !.dirty = TRUE,
                                   !.fptr = f.fptr + 1,
                                   !.size = Larger(f.size, f.fptr + 1),
                                   !.written = TRUE], FR_OK)},
                     {Aborted(m, h), Aborted(n, h)})

\* The directory entry gets the FIL's size; sync() writes the window out.
UpdateEntry(m, h) ==
    LET f == m.fil[h] IN
    [m EXCEPT !.vol[f.path] = [m.vol[f.path] EXCEPT !.size = f.size,
                                                 !.attr = AM_ARC],
              !.fil[h] = [f EXCEPT !.written = FALSE],
              !.fresh = {}, !.res = FR_OK]

\* Mutant of f_sync: the entry is written and FA__WRITTEN cleared, the buffer
\* stays as it is.
f_syncEntryOnly(m, h) ==
    LET f == m.fil[h] IN
    IF ~f.open THEN {Return(m, FR_INVALID_OBJECT)}
    ELSE IF ~f.written THEN {Return(m, FR_OK)}
    ELSE OrFault({UpdateEntry(m, h)}, {Return(m, FR_DISK_ERR)})

f_sync(m, h) ==
    LET f == m.fil[h] IN
    IF ~f.open THEN {Return(m, FR_INVALID_OBJECT)}
    ELSE IF ~f.written THEN {Return(m, FR_OK)}
    ELSE OrFault({UpdateEntry(FlushBuf(m, h), h)},
                 {Return(m, FR_DISK_ERR), Return(FlushBuf(m, h), FR_DISK_ERR)})

\* The FIL is released only if it could be synchronised.
f_close(m, h) ==
    {IF n.res = FR_OK THEN [n EXCEPT !.fil[h] = Closed] ELSE n :
        n \in f_sync(m, h)}

\* Seeking past the end stretches a file that is open for writing, up to what
\* the volume can hold; a read-only one is clipped at its size.
SeekTo(f, ofs) ==
    LET bound == IF CanWrite(f) THEN Capacity ELSE f.size
    IN  IF ofs > bound THEN bound ELSE ofs

f_lseek(m, h, ofs) ==
    LET f == m.fil[h]
        no == Refusal(f, TRUE)
        to == SeekTo(f, ofs)
        longer == to > f.size
    IN  IF no # FR_OK THEN {Return(m, no)}
        ELSE OrFault({SetFil(m, h,
                         [f EXCEPT !.fptr = to, !.size = Larger(f.size, to),
                                   !.written = @ \/ longer], FR_OK)},
                     IF to > 0 THEN {Aborted(m, h)} ELSE {})

\* Open FILs on the entry are not looked for: the callers below are only ever
\* given paths that no FIL is open on.
f_unlink(m, p) ==
    LET gone == [m EXCEPT !.vol[p] = NoEntry] IN
    IF ~Exists(m, p) THEN OrFault({Return(m, FR_NO_FILE)},
                                  {Return(m, FR_DISK_ERR)})
    ELSE IF m.vol[p].attr = AM_RDO THEN OrFault({Return(m, FR_DENIED)},
                                                {Return(m, FR_DISK_ERR)})
    ELSE OrFault({[gone EXCEPT !.fresh = {}, !.res = FR_OK]},
                 {Return(m, FR_DISK_ERR), Return(gone, FR_DISK_ERR)})
=============================================================================
