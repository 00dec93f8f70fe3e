------------------------------ MODULE AtomHost ------------------------------
(***************************************************************************)
(* The workers of AtomWorkers under the commands of one host computer, the *)
(* Acorn Atom, with what the host knows recorded beside the firmware's own *)
(* state:                                                                  *)
(*   bound  the image each drive was last mounted with, as a full path     *)
(*   out    what the last sector read delivered                            *)
(*                                                                         *)
(* Habits names the habits this host has.  With no habit it sends any      *)
(* command at any time, which is all the firmware can rely on; a habit     *)
(* restricts when a command is sent, and the runs show which promise of    *)
(* the firmware depends on which habit.                                    *)
(*   "two-files"     never lets a random access file be given fildata[3],  *)
(*                   and sends no command with file number 3               *)
(*   "scratch-first" closes the scratch file before it opens another one   *)
(*                   and before it sends a command that saves or loads the *)
(*                   drive table                                           *)
(*   "unmount-first" mounts only in a drive it has just unmounted, loads   *)
(*                   the drive table only at power on                      *)
(*   "stays-put"     does not change directory while a drive is mounted    *)
(*   "same-place"    does not change directory at all                      *)
(***************************************************************************)
EXTENDS AtomWorkers

CONSTANTS Habits, HostDrives, HostFiles, HostData

AllHabits == {"two-files", "scratch-first", "unmount-first", "stays-put",
              "same-place"}

ASSUME HabitsAssumption == Habits \subseteq AllHabits
ASSUME HostAssumption ==
    HostData \subseteq Data /\ HostDrives \subseteq Drives /\ HostFiles \subseteq Slots

NoPath == <<>>

VARIABLES bound, out

hvars == <<vars, bound, out>>

Has(habit) == habit \in Habits

Mounted(d) == driveInfo[d].attribs # Unset

----------------------------------------------------------------------------
(* The habits as guards *)

OwnSlot(h) == Has("two-files") => h # 3
LeavesSlot3(h) == Has("two-files") /\ h # 0 /\ FreeSlots # {} => FirstFree # 3
ScratchClosed == Has("scratch-first") => ~fildata[0].open
JustUnmounted(d) == Has("unmount-first") => lastDriveNo # d
AtPowerOn == Has("unmount-first") => lastDriveNo = NoDrive
StaysPut(c) ==
    /\ Has("same-place") => c = cdir
    /\ Has("stays-put") /\ (\E d \in Drives : Mounted(d)) => c = cdir

----------------------------------------------------------------------------
(* What the host knows after a command *)

\* A drive that the firmware has given up on is not bound to anything.
StillBound(b) == [d \in Drives |-> IF driveInfo'[d].attribs = Unset
                                   THEN NoPath ELSE b[d]]

Silent == out' = Alien

HostFileCommand ==
    /\ \/ \E h \in HostFiles, n \in HostNames :
             /\ OwnSlot(h) /\ LeavesSlot3(h)
             /\ h = 0 => ScratchClosed
             /\ FileOpenRead(h, n) \/ FileOpenWrite(h, n) \/ FileOpenRAF(h, n)
       \/ \E h \in HostFiles : OwnSlot(h) /\ (FileRead(h) \/ FileClose(h))
       \/ \E h \in HostFiles, v \in HostData : OwnSlot(h) /\ FileWrite(h, v)
       \/ \E h \in HostFiles, ofs \in 0..Capacity : OwnSlot(h) /\ FileSeek(h, ofs)
       \/ \E n \in HostNames \cup ImageNames : FileDelete(n)
       \/ \E c \in Dirs : StaysPut(c) /\ SetCWDirectory(c)
    /\ UNCHANGED bound
    /\ Silent

HostMount(d, n) ==
    /\ ScratchClosed /\ JustUnmounted(d)
    /\ OpenSDDOSImg(d, n)
    /\ bound' = StillBound([bound EXCEPT ![d] = <<cdir, n>>])
    /\ Silent

HostUnmount(d) ==
    /\ ScratchClosed
    /\ UnmountSDDOSImg(d)
    /\ bound' = StillBound(bound)
    /\ Silent

HostLoadTable ==
    /\ ScratchClosed /\ AtPowerOn
    /\ ValidateSDDOSDrives
    /\ bound' = StillBound([d \in Drives |-> <<cdir, driveInfo'[d].name>>])
    /\ Silent

HostSaveTable ==
    /\ ScratchClosed
    /\ SerialiseSDDOSDrives
    /\ UNCHANGED bound
    /\ Silent

HostReadSector ==
    /\ ReadSDDOSSect
    /\ bound' = StillBound(bound)
    /\ out' = IF port' = STATUS_OK THEN globalData' ELSE Alien

HostWriteSector(v) ==
    /\ WriteSDDOSSect(v)
    /\ bound' = StillBound(bound)
    /\ Silent

HostParam(d, s) == LoadParam(d, s) /\ UNCHANGED bound /\ Silent

PowerCycle ==
    /\ Restart
    /\ bound' = [d \in Drives |-> NoPath]
    /\ Silent

HInit ==
    /\ Init
    /\ bound = [d \in Drives |-> NoPath]
    /\ out = Alien

HNext ==
    \/ HostFileCommand
    \/ \E d \in HostDrives, s \in Sectors : HostParam(d, s)
    \/ \E d \in HostDrives, n \in ImageNames : HostMount(d, n)
    \/ \E d \in HostDrives : HostUnmount(d)
    \/ HostLoadTable
    \/ HostSaveTable
    \/ HostReadSector
    \/ \E v \in HostData : HostWriteSector(v)
    \/ PowerCycle

HSpec == HInit /\ [][HNext]_hvars

----------------------------------------------------------------------------
(* Properties *)

\* Every variable keeps its type, those of the host included.
HTypeOK ==
    /\ TypeOK
    /\ bound \in [Drives -> (Dirs \X (ImageNames \cup {NoName})) \cup {NoPath}]
    /\ out \in Value \cup {Alien}

\* The selected drive is backed by its own image: when lastDriveNo says whose
\* image is in fildata[3], fildata[3] is open, for reading and writing, on the
\* very file that drive was mounted with.  Every sector command relies on it,
\* because switchDrive does nothing when the drive is the selected one.
SelectedImage ==
    lastDriveNo # NoDrive /\ bound[lastDriveNo] # NoPath =>
        /\ fildata[SDDOS_FILE].open
        /\ fildata[SDDOS_FILE].path = bound[lastDriveNo]
        /\ fildata[SDDOS_FILE].mode = "both"

\* What a FIL still has to write is never dropped: a step that takes a dirty
\* sector out of a FIL (by close, seek, another transfer, or by giving the FIL
\* to another file) leaves it on the card, and one that takes away a changed
\* size leaves that size, or one it has grown to since, in the directory entry.
\* Only a power cut may lose it.
DirtyDataReachesCard ==
    [][~PowerCycle => \A h \in Slots :
          LET f == fildata[h]
              g == fildata'[h]
              same == g.open /\ g.path = f.path
          IN  /\ f.dirty /\ ~(same /\ g.dirty /\ g.buf = f.buf) =>
                    vol'[f.path] # NoEntry /\ vol'[f.path].blk[f.buf] = f.val
              /\ f.open /\ f.written /\ ~(same /\ g.written) =>
                    vol'[f.path] # NoEntry /\ vol'[f.path].size >= f.size]_hvars

\* The table BOOTDRV.CFG holds in the root directory, all unused without it.
SavedTable ==
    LET p == <<Root, CfgName>> IN
    IF vol[p] # NoEntry /\ vol[p].size > 0 THEN vol[p].blk[0]
    ELSE [d \in Drives |-> Unused]

\* A mounted drive survives the power going at any moment: the table on the
\* card names the same image for it.
MountedIsSaved ==
    \A d \in Drives : Mounted(d) => SavedTable[d] = driveInfo[d]

\* Loading the table at power on brings back every saved drive whose image is
\* still on the card, and no other; of drives saved with one image, the last.
RestoresSaved ==
    [][HostLoadTable => \A d \in Drives :
          LET saved == SavedTable[d] IN
          IF /\ saved.attribs # Unset /\ vol[<<Root, saved.name>>] # NoEntry
             /\ \A i \in Drives : i > d => SavedTable[i].name # saved.name
          THEN driveInfo'[d].name = saved.name /\ driveInfo'[d].attribs # Unset
          ELSE driveInfo'[d].attribs = Unset]_hvars

\* The sectors of a file, all blank when there is none.
SectorsOf(card, p) ==
    IF card[p] = NoEntry THEN NewEntry.blk ELSE card[p].blk

\* The drives as the host sees them: see FloppyDrives.
ImagePath == Dirs \X ImageNames
Floppies == INSTANCE FloppyDrives
    WITH Drive <- Drives, Image <- ImagePath, Sector <- Sectors,
         Content <- Value, Payload <- Data, Unwritten <- Blank, Empty <- NoPath,
         Nothing <- Alien,
         disk <- bound,
         image <- [p \in ImagePath |-> SectorsOf(vol, p)],
         asked <- <<globalCurDrive, globalLBAOffset>>,
         answer <- out

DrivesAreFloppies == Floppies!ASpec
=============================================================================
