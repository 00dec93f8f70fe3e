---------------------------- MODULE AtomWorkers ----------------------------
(***************************************************************************)
(* The command workers of the firmware (atmmc2wfn.c) for files and for the *)
(* SDDOS floppy drives, over the file objects of FatFile.  The firmware    *)
(* runs one worker to its end per command, so a worker is one action; what *)
(* the workers leave in the shared FIL objects for each other is the state.*)
(*                                                                         *)
(*   fildata[0]  the scratch file of firmware 2.9, and the FIL that every  *)
(*               save and load of the drive table goes through             *)
(*   fildata[1..2]  random access files                                    *)
(*   fildata[3]  random access file or the image of the selected drive     *)
(*                                                                         *)
(* Host behaviour is unrestricted except for what NotInUse says: ff.c has  *)
(* no file locking, and a second FIL on a file, or the deletion of an open *)
(* file, corrupts chains, which is a level below this module.              *)
(***************************************************************************)
EXTENDS FatFile

CONSTANTS
    Alien,       \* globalData when it holds something that is no sector value
    Cards        \* what the card may hold when it is first inserted

ASSUME AlienAssumption == Alien \notin Data \cup {Blank}
ASSUME CardsAssumption == Cards \subseteq [Path -> Entry \cup {NoEntry}]

SDDOS_FILE == 3

Unused == [name |-> NoName, attribs |-> Unset]       \* memset(image, 0xff)
NoDrive == -1                                        \* lastDriveNo

\* Attribute bytes get_fileinfo_special can pick up when no f_open preceded
\* it and dj.dir points into whatever the sector window holds.
StrayAttr == Attr \cup {Unset}

\* Status bytes on the data port
STATUS_OK == 63
STATUS_COMPLETE == 64
STATUS_EOF == 96
STATUS_BUSY == 128
FILENUM_OFFSET == 32
ERROR_INVALID_DRIVE == 9
ERROR_READ_ONLY == 10
ERROR_ALREADY_MOUNT == 10
ERROR_TOO_MANY_OPEN == 18

\* STATUS_COMPLETE | r
Complete(r) == IF r < STATUS_COMPLETE THEN STATUS_COMPLETE + r ELSE r

VARIABLES
    vol,              \* the card: Path -> Entry or NoEntry
    fresh,            \* entries not yet on the card
    cdir,             \* fatfs.cdir, the current directory
    fildata,          \* FIL fildata[4]
    driveInfo,        \* imgInfo driveInfo[4]
    lastDriveNo,      \* the drive whose image is in fildata[3], or -1
    globalCurDrive,   \* drive and sector of the next sector command
    globalLBAOffset,
    globalData,       \* value in the data buffer
    port              \* the status byte the host reads

vars == <<vol, fresh, cdir, fildata, driveInfo, lastDriveNo, globalCurDrive,
          globalLBAOffset, globalData, port>>

Machine == [vol |-> vol, fresh |-> fresh, cdir |-> cdir, fil |-> fildata,
            drv |-> driveInfo, last |-> lastDriveNo, data |-> globalData,
            res |-> FR_OK]

\* The worker leaves machine m and writes status s to the port.
Becomes(m, s) ==
    /\ vol' = m.vol
    /\ fresh' = m.fresh
    /\ cdir' = m.cdir
    /\ fildata' = m.fil
    /\ driveInfo' = m.drv
    /\ lastDriveNo' = m.last
    /\ globalData' = m.data
    /\ port' = s
    /\ UNCHANGED <<globalCurDrive, globalLBAOffset>>

NotInUse(p, others) ==
    \A h \in others : fildata[h].open => fildata[h].path # p

----------------------------------------------------------------------------
(* Drive handling *)

SetDrive(m, d, info) == [m EXCEPT !.drv[d] = info]

\* Mutant of switchDrive: lastDriveNo is not set to -1 before the new open.
switchDriveKeepsLast(m, d) ==
    IF d = m.last THEN {Return(m, FR_OK)}
    ELSE LET closed == IF m.last # NoDrive THEN f_close(m, SDDOS_FILE) ELSE {m}
         IN  UNION {{IF n.res = FR_OK THEN [n EXCEPT !.last = d] ELSE n :
                       n \in f_open(c, SDDOS_FILE, <<m.cdir, m.drv[d].name>>,
                                    "both", "existing")} :
                    c \in closed}

switchDrive(m, d) ==
    IF d = m.last THEN {Return(m, FR_OK)}
    ELSE LET closed == IF m.last # NoDrive THEN f_close(m, SDDOS_FILE) ELSE {m}
         IN  UNION {{IF n.res = FR_OK THEN [n EXCEPT !.last = d] ELSE n :
                       n \in f_open([c EXCEPT !.last = NoDrive], SDDOS_FILE,
                                    <<m.cdir, m.drv[d].name>>, "both", "existing")} :
                    c \in closed}

\* The comparison is of the whole imgInfo, attributes included.
SameImage(m, d) == \E i \in Drives \ {d} : m.drv[i] = m.drv[d]

\* The attribute byte is that of the entry the last f_open found; when
\* switchDrive had nothing to do there was no such f_open.
FoundAttr(m, d, n) ==
    IF d = m.last THEN StrayAttr ELSE {n.vol[n.fil[SDDOS_FILE].path].attr}

\* Result of tryOpenImage: res is FR_OK when the byte is below 0x40.
tryOpenImage(m, d) ==
    UNION {IF n.res # FR_OK THEN {Return(n, Complete(n.res))}
           ELSE IF SameImage(n, d)
           THEN {Return(n, STATUS_COMPLETE + ERROR_ALREADY_MOUNT)}
           ELSE {Return([n EXCEPT !.drv[d].attribs = a], a) :
                    a \in FoundAttr(m, d, n)} :
           n \in switchDrive(m, d)}

\* globalData holds the name, the table goes to the start of the file.
saveDrivesImpl(m) ==
    UNION {IF o.res # FR_OK THEN {o}
           ELSE UNION {f_close(w, 0) : w \in f_write(o, 0, o.drv)} :
           o \in f_open(SetData(m, Alien), 0, <<m.cdir, CfgName>>,
                        "write", "always")}

\* What the 4 * sizeof(imgInfo) bytes read from the file amount to.
TablesIn(v) == IF v \in DriveTable THEN {v} ELSE DriveTable

\* f_read over driveInfo, r being what it left of o.
Overlaid(o, r) ==
    IF r.res = FR_OK /\ ReadsAll(o, 0)
    THEN {[r EXCEPT !.drv = t, !.data = Alien] : t \in TablesIn(r.data)}
    ELSE {r}

\* Load the table through fildata[0]; an empty file leaves it as it was.
loadDrives(m) ==
    UNION {IF o.res # FR_OK
           THEN {[o EXCEPT !.drv = [d \in Drives |-> Unused]]}
           ELSE UNION {UNION {f_close(l, 0) : l \in Overlaid(o, r)} :
                       r \in f_read(o, 0)} :
           o \in f_open(SetData(m, Alien), 0, <<m.cdir, CfgName>>,
                        "read", "existing")}

\* Mutant of ValidateDrive: a drive that fails to open stays in the table.
ValidateDriveKeepsFailed(m, d) ==
    IF m.drv[d].attribs = Unset THEN {SetDrive(m, d, Unused)}
    ELSE tryOpenImage(m, d)

\* One round of the loop in wfnValidateSDDOSDrives.
ValidateDrive(m, d) ==
    IF m.drv[d].attribs = Unset THEN {SetDrive(m, d, Unused)}
    ELSE {IF n.res >= STATUS_COMPLETE THEN SetDrive(n, d, Unused) ELSE n :
            n \in tryOpenImage(m, d)}

ValidateAll(m) ==
    UNION {UNION {UNION {ValidateDrive(m3, 3) : m3 \in ValidateDrive(m2, 2)} :
                  m2 \in ValidateDrive(m1, 1)} :
           m1 \in ValidateDrive(m, 0)}

----------------------------------------------------------------------------
(* File commands: h is the file number carried in the command byte *)

\* fileOpen: 0 is the scratch file, anything else asks for the first free FIL.
FreeSlots == {h \in 1..3 : ~fildata[h].open}
FirstFree == CHOOSE h \in FreeSlots : \A g \in FreeSlots : h <= g

OpenStatus(h, r) ==
    IF r = FR_OK /\ h > 0 THEN Complete(FILENUM_OFFSET + h) ELSE Complete(r)

fileOpen(h, n, mode, how) ==
    LET p == <<cdir, n>>
        slot == IF h = 0 THEN 0 ELSE FirstFree
        full == h # 0 /\ FreeSlots = {}
    IN  /\ ~full => NotInUse(p, Slots \ {slot})
        /\ IF full
           THEN Becomes(Machine, Complete(ERROR_TOO_MANY_OPEN))
           ELSE \E m \in f_open(Machine, slot, p, mode, how) :
                    Becomes(m, OpenStatus(slot, m.res))

FileOpenRead(h, n) == fileOpen(h, n, "read", "existing")
FileOpenWrite(h, n) == fileOpen(h, n, "write", "new")
FileOpenRAF(h, n) == fileOpen(h, n, "write", "always")

FileRead(h) ==
    \E m \in f_read(Machine, h) :
        Becomes(m, IF h > 0 /\ m.res = FR_OK /\ ~ReadsAll(Machine, h)
                   THEN STATUS_EOF ELSE Complete(m.res))

\* v is what the host has put in the data buffer; *written is not looked at.
FileWrite(h, v) ==
    \E m \in f_write(SetData(Machine, v), h, v) :
        Becomes(m, Complete(m.res))

FileSeek(h, ofs) ==
    \E m \in f_lseek(Machine, h, ofs) : Becomes(m, Complete(m.res))

FileClose(h) ==
    \E m \in f_close(Machine, h) : Becomes(m, Complete(m.res))

FileDelete(n) ==
    /\ NotInUse(<<cdir, n>>, Slots)
    /\ \E m \in f_unlink(Machine, <<cdir, n>>) : Becomes(m, Complete(m.res))

\* f_chdir to an existing directory
SetCWDirectory(d) ==
    \E m \in OrFault({[Machine EXCEPT !.cdir = d, !.res = FR_OK]},
                     {Return(Machine, FR_DISK_ERR)}) :
        Becomes(m, Complete(m.res))

----------------------------------------------------------------------------
(* Drive commands *)

\* CMD_LOAD_PARAM: the port keeps STATUS_BUSY.
LoadParam(d, s) ==
    /\ globalCurDrive' = d
    /\ globalLBAOffset' = s
    /\ port' = STATUS_BUSY
    /\ UNCHANGED <<vol, fresh, cdir, fildata, driveInfo, lastDriveNo, globalData>>

\* Mutant of OpenSDDOSImg: the table is saved before the image is tried.
OpenSDDOSImgSavesFirst(d, n) ==
    LET asked == SetDrive(Machine, d, [name |-> n, attribs |-> NoAttr]) IN
    \E s \in saveDrivesImpl(asked) : \E t \in tryOpenImage(s, d) :
        LET kept == IF t.res >= STATUS_COMPLETE THEN SetDrive(t, d, Unused) ELSE t
        IN  Becomes(kept, t.res)

\* Whatever came of it, the table is saved; the port shows tryOpenImage's byte.
OpenSDDOSImg(d, n) ==
    LET asked == SetDrive(Machine, d, [name |-> n, attribs |-> NoAttr]) IN
    \E t \in tryOpenImage(asked, d) :
        LET kept == IF t.res >= STATUS_COMPLETE THEN SetDrive(t, d, Unused) ELSE t
        IN  \E m \in saveDrivesImpl(kept) : Becomes(m, t.res)

\* Mutant of SeekSector: the file in fildata[3] is taken for the drive's own.
SeekSectorUnswitched(m) == f_lseek(m, SDDOS_FILE, globalLBAOffset)

\* Machines in which the image is selected and its file pointer is set.  The
\* result of switchDrive is not looked at, that of the seek is.
SeekSector(m) ==
    UNION {f_lseek(n, SDDOS_FILE, globalLBAOffset) :
           n \in switchDrive(m, globalCurDrive)}

\* Give up on the drive: only its attribute byte says so.
Invalidate(m) == [m EXCEPT !.drv[globalCurDrive].attribs = Unset]

ReadSDDOSSect ==
    IF driveInfo[globalCurDrive].attribs = Unset
    THEN Becomes(Machine, Complete(ERROR_INVALID_DRIVE))
    ELSE \E s \in SeekSector(Machine) :
            IF s.res # FR_OK
            THEN Becomes(Invalidate(s), Complete(ERROR_INVALID_DRIVE))
            ELSE \E m \in f_read(s, SDDOS_FILE) :
                    IF m.res = FR_OK THEN Becomes(m, STATUS_OK)
                    ELSE Becomes(Invalidate(m), Complete(m.res))

\* On an error the port first gets STATUS_COMPLETE and then the bare code.
WriteSDDOSSect(v) ==
    LET start == SetData(Machine, v) IN
    IF driveInfo[globalCurDrive].attribs = Unset
    THEN Becomes(start, Complete(ERROR_INVALID_DRIVE))
    ELSE IF driveInfo[globalCurDrive].attribs % 2 = AM_RDO
    THEN Becomes(start, Complete(ERROR_READ_ONLY))
    ELSE \E s \in SeekSector(start) :
            IF s.res # FR_OK
            THEN Becomes(Invalidate(s), Complete(ERROR_INVALID_DRIVE))
            ELSE \E w \in f_write(s, SDDOS_FILE, v) :
                    IF w.res # FR_OK THEN Becomes(Invalidate(w), w.res)
                    ELSE \E m \in f_sync(w, SDDOS_FILE) :
                            IF m.res = FR_OK THEN Becomes(m, STATUS_OK)
                            ELSE Becomes(Invalidate(m), m.res)

ValidateSDDOSDrives ==
    \E l \in loadDrives(Machine) : \E t \in ValidateAll(l) :
        \E m \in saveDrivesImpl(t) : Becomes(m, STATUS_OK)

SerialiseSDDOSDrives ==
    \E m \in saveDrivesImpl(Machine) : Becomes(m, STATUS_OK)

UnmountSDDOSImg(d) ==
    \E s \in switchDrive(Machine, d) : \E c \in f_close(s, SDDOS_FILE) :
        \E m \in saveDrivesImpl(SetDrive([c EXCEPT !.last = NoDrive], d, Unused)) :
            Becomes(m, STATUS_OK)

\* Power off and on: main() and at_initprocessor().  The card keeps what was
\* written to it; entries still in the sector window may or may not be there.
\* The parameters of the next sector command are as the C startup leaves them;
\* no drive is mounted, so they are not looked at before the next LOAD_PARAM.
Restart ==
    /\ \E lost \in SUBSET fresh :
          vol' = [p \in Path |-> IF p \in lost THEN NoEntry ELSE vol[p]]
    /\ fresh' = {}
    /\ cdir' = Root
    /\ fildata' = [h \in Slots |-> Closed]
    /\ driveInfo' = [d \in Drives |-> Unused]
    /\ lastDriveNo' = NoDrive
    /\ globalCurDrive' = 0
    /\ globalLBAOffset' = 0
    /\ globalData' = Alien
    /\ port' = STATUS_BUSY

----------------------------------------------------------------------------
Init ==
    /\ vol \in Cards
    /\ fresh = {}
    /\ cdir = Root
    /\ fildata = [h \in Slots |-> Closed]
    /\ driveInfo = [d \in Drives |-> Unused]
    /\ lastDriveNo = NoDrive
    /\ globalCurDrive = 0
    /\ globalLBAOffset = 0
    /\ globalData = Alien
    /\ port = STATUS_BUSY

\* Which command comes when is up to the host: the next-state relation is in
\* AtomHost.

----------------------------------------------------------------------------
(* Properties *)

\* Every variable keeps its type: FILs, drive table, card and status byte.
TypeOK ==
    /\ vol \in [Path -> Entry \cup {NoEntry}]
    /\ fresh \subseteq Path
    /\ cdir \in Dirs
    /\ fildata \in [Slots -> Fil]
    /\ driveInfo \in DriveTable
    /\ lastDriveNo \in Drives \cup {NoDrive}
    /\ globalCurDrive \in Drives
    /\ globalLBAOffset \in Sectors
    /\ globalData \in Value \cup {Alien}
    /\ port \in 0..255

\* A FIL that is open has a directory entry to write its size back to, and a
\* FIL with data to write back knows where: its buffer holds a sector and
\* f_close will not skip it (f_sync looks at FA__WRITTEN before FA__DIRTY).
FilesSound ==
    \A h \in Slots : fildata[h].open =>
        /\ vol[fildata[h].path] # NoEntry
        /\ fildata[h].dirty => fildata[h].written /\ fildata[h].buf # NoSector

=============================================================================
