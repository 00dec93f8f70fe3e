# AtoMMC2 firmware: a verification project

AtoMMC2 puts an SD card behind the bus of an Acorn Atom.  A PIC (or AVR)
runs the firmware under `src/`: the Atom writes commands and data into the
PIC's parallel slave port, the PIC executes them on a FAT volume and answers
through the same port.  On top of plain files the firmware emulates four SDDOS
floppy drives, whose images are files on the card.  A boot loader replaces the
firmware from the card, and a boot updater replaces the boot loader.

## The system

| part | code | state | operations |
|---|---|---|---|
| command workers, files | `atmmc2wfn.c` | `fildata[4]`, `filenum`, `globalData` | open (three modes), read, write, seek, close, delete, rename, info, chdir, mkdir, rmdir |
| SDDOS drives | `atmmc2wfn.c` | `driveInfo[4]`, `lastDriveNo`, `globalCurDrive`, `globalLBAOffset`, `BOOTDRV.CFG` | mount, unmount, read and write sector, load, save and list the table |
| FAT file objects | `ff.c` (f_open .. f_unlink) | the `FIL`s: pointer, size, buffer, flags | as the workers call them |
| FAT volume | `ff.c` (window, chains, directories), `diskio.c` | sector window, FAT, directory entries | allocate, follow, free, register, remove |
| SD card driver | `mmcio.c` | card type, SPI line | initialise, read, write a block |
| host link | `atmmc2core.c`, `PicFirmware.c`, `atmmc2io.h` | latched address, port latches, `globalIndex`, buffer | the register protocol, one `at_process()` per access |
| directory listing | `atmmc2wfn.c`, `wildcard.c` | open `DIR`, pattern | open, next, match |
| user port, config | `atmmc2core.c`, `PicFirmware.c` | EEPROM bytes | set, read back at power on |
| boot loader | `BootLoader/BootLoader.c` | flash, EEPROM check sum | pick an image, flash it, start it |
| boot updater | `BootUpdater/` | flash boot block | erase, reprogram |

Interaction.  The Atom and the PIC run concurrently and share the port
registers; the PIC handles one access at a time and runs the worker of a
command to its end, so between workers there is no interleaving, but what a
worker leaves in the FILs, the drive table and the data buffer is what the next
one finds.  Two users share the FILs: the host's own files, and the drives
(`fildata[0]` for every save of the drive table, `fildata[3]` for the selected
image).  The card is shared with the boot loader, across a restart.

What is hard here: commands in an order nobody tested (remounts, unmounts,
changes of directory with drives mounted, host files open in the FILs the
drives use), a disk error in the middle of a worker, power cuts between
commands and between sector writes, a full volume, accesses of the Atom that
come while the PIC is busy, a flash half written.  Each hazard is listed in
`PROJECT.json` with its line and the properties that would catch it.

What makes each part correct:

- workers and drives: a sector command works on the image its drive was mounted
  with; no unwritten data is dropped; the table on the card is the table in
  memory; a drive that failed is reported failed;
- file objects: an open FIL has its entry; dirty implies written; the size in
  the entry follows the FIL;
- volume: no cluster in two chains, no chain into a free cluster, whatever the
  moment of a power cut, only lost clusters;
- host link: a status the host reads is that of its last command; no access is
  lost; every command is eventually answered;
- boot loader: only a complete firmware is started; after a power cut the card
  can still repair the flash.

## Modules

| module | models |
|---|---|
| `FatFile` | the file-object layer of `ff.c`: f_open, f_read, f_write, f_sync, f_close, f_lseek, f_unlink as operators from a machine to the set of machines they may leave |
| `AtomWorkers` | one action per worker for files and drives, over `FatFile`; power on and off |
| `AtomHost` | the workers under the commands of one host, with what the host knows recorded; the habits of a host as a parameter; the properties |
| `FloppyDrives` | the abstract specification of the drives: a stack of floppies |
| `HostLink` | the parallel slave port, the loop of `main()`, `at_process()`, the EEPROM cells, and the Atom on the other side |
| `FatVolume` | the layer of `ff.c` under the FILs: the sector window, cluster chains and directory tables, and the calls that change them, sector write by sector write |
| `SdCard` | the three copies of the SD card driver, with the mount that trusts them and a card that comes, goes and fails |
| `Listing` | CMD_DIR_OPEN and CMD_DIR_READ: the split into path and wildcard, `wildcmp`, the walk over a table that changes |
| `FlashUpdate` | the boot loader, the boot updater with its `pff.c`, and the files the Java converter makes for them |
| `MCAtomHost`, `MCHostLink`, `MCFatVolume`, `MCSdCard`, `MCListing`, `MCFlashUpdate` | the constants of the instances TLC checks |
| `AtomHostProofs`, `FloppyProofs`, `FatVolumeLemmas`, `FatVolumeProofs`, `HostLinkProofs`, `SdCardProofs`, `FlashUpdateProofs`, `ListingProofs` | the theorems, with their proofs |

The layers meet as follows.  `AtomHost` EXTENDS `AtomWorkers`, which EXTENDS
`FatFile`, and instantiates `FloppyDrives`: that is the firmware as the host's
commands see it.  `HostLink` is the layer below the commands: in it a worker
takes its time, leaves anything in the buffer and ends with some status, and in
`AtomHost` a command arrives with its operands.  That it does is
`OperandsArrive`.  `FatVolume` is the layer below the FILs: what `FatFile` takes
as an array of sectors and an entry is there a chain and a slot of a table, and
what `FatFile` assumes of it (an open file is the only owner of both) is
`InUseIsSound`.  `SdCard` is the layer below that: its caller is told of success
only if the sector it asked for was touched (`TouchesAskedSector`), which is
what a disk access in `FatVolume` and `FatFile` is.  `FlashUpdate` is another
program on the same chip, before and after the firmware.

State and code.  A machine is the record `[vol, fresh, cdir, fil, drv, last,
data, res]`; the variables of `AtomWorkers` are its fields, under the names of
the C variables where they have one (`fildata`, `driveInfo`, `lastDriveNo`,
`globalCurDrive`, `globalLBAOffset`, `globalData`; `vol` is the card as last
written, `fresh` the entries only the sector window holds, `cdir` is
`fatfs.cdir`, `port` the status byte).  A worker calls several `ff.c` functions;
each call is an operator, so that a worker is one action, as it is one
uninterrupted run of code, and a disk error can strike any of its calls.

Abstractions of `FatFile` and above.  A file is an array of `Capacity` sectors
with one value each; a transfer moves one sector through the FIL's own buffer; a
seek is to a sector boundary (so it moves no data).  A name is a model value, a
path is a directory and a name.  Files of the host never open the same path
twice and never delete an open file (`NotInUse`): `ff.c` has no locking, what
happens then is a matter of chains, below this level.  Attributes are none,
read-only or archive.  The stray attribute byte of a drive that `switchDrive`
did not reopen is any value the entry window can yield (`StrayAttr`).

`HostLink` keeps the C names too: `LATD`, `PORTD`, `PORTA`, `IBF` and `PSPIF`
are the port, `pc` says where the firmware is between two accesses to the port
(`init` up to line 208 of `PicFirmware.c`, `first` and `wait` in its two waits,
`latch`, `decode`, `take`, `dispatch` through `at_process()`, `work` and
`eeprom` in a worker and in `WriteEEPROM`, `clear` behind it).  The Atom's
access comes between any two of these steps; a power cut too.  The 256 byte
buffer is `BufSize` bytes with an index that wraps there, a byte of data is a
member of `Byte`, the sector number of CMD_LOAD_PARAM is one byte, and the pins
of the address port are the two bits that choose a register.  Command bytes are
the real ones, so that their decoding is the code's.

`FatVolume` has a machine too, `m`: the volume as the firmware reads it through
the window (`vol`), the volume as the card has it (`disk`), the sector that is
dirty in the window (`win`), `last_clust`, `cdir` and one open FIL.  A call is a
trail: the machines it passes through (`seen`), one for each change of a sector
and each write of the window, and the one it is at (`now`).  `Do` lets it run to
its end, leaves it at any machine of the trail (a disk error), or keeps the
`disk` of any (a power cut).  So what is reordered by the window is reordered in
the model, and a cut comes between any two sector writes.  A cluster is one
sector, a FAT sector holds `PerFat` links, a table sector `PerSector` entries;
contents, sizes, dates and attributes are not kept (`FatFile` has the contents).
The loops along chains and paths are recursive functions, and what can be
reached from the root is a smallest closed set (`Closure`).  A volume on which a
rename was cut short, or a longer table not cleared, is where a run stops
(`Damaged`); what precedes and what is found on the card then is checked, what
the firmware makes of it later is not modelled.

`SdCard` takes one command packet with its answer as a step and keeps the
driver's locals (`tmr`, `ty`), `CardType`, and the `did` set of sectors that the
access has touched, on whichever card.  A card is of one of four sorts, which
differ in the commands they answer and in how they count sectors; it can be
pulled out or changed, be deaf to a command, answer late, stay busy.  A loop
that repeats a command has `Patience` turns (the loops count milliseconds in
the code).  The lines of the SPI bus are left out, and bit errors: the driver
turns the CRC of the card off.

`Listing` keeps `WildPattern`, the DIR and the two tables; strings are sequences
of characters.  `Compare` is `wildcmp`'s two loops as a function of the place
they are at (`Positions`: the characters under `wild` and `string`, and the two
places `mp` and `cp` to go back to), `Matches` the reference definition it is
measured by.  `Walk` is a function of the slashes of a path, one `Step` to each.

`FlashUpdate` keeps the flash byte by byte: a byte of a program is the pair of
program and address.  `pc` runs through `main` of the loader (`init`, `scan`,
`header`, `read`, `erase`, `write`, `start`), then through that of the updater
(`pf_mount`, `pf_open`, `pf_read`, `erase boot`, `write boot`, `blink`).  A check
sum is the content it is over, so no two collide.  A row that was being erased
or written when the power went holds junk (`AfterCut`).  The ghosts `trusted` and
`brickable` record whether an earlier rewriting was cut short or misread; the
code never reads them.

## The host and its habits

The firmware cannot hold its promises against every host.  `Habits` names what
a host keeps to, and each run and theorem names the habits it needs:

| habit | what the host does |
|---|---|
| two-files | never lets a random access file be given `fildata[3]` |
| scratch-first | closes the scratch file before commands that use `fildata[0]` |
| unmount-first | mounts in a drive only after it unmounted it or another drive was selected |
| stays-put, same-place | does not change directory while a drive is mounted; at all |

A host of `HostLink` is paced or not.  A paced one makes its next access when
the firmware has dealt with the last (an access of a 1 MHz 6502 takes several
microseconds of its program, `at_process()` without a worker a few dozen
instructions of the PIC), polls after a command of the slow kind until the port
no longer shows BUSY, and after power on asks for the heartbeat until it sees
one, as the comment at line 346 of `atmmc2core.c` says it must.  What the host
has sent and seen is recorded in the variables of the second VARIABLES, which
the firmware never reads.

## Runs

| run | shows | bounds |
|---|---|---|
| `drives` | `DrivesAreFloppies`: the workers implement `FloppyDrives`; `MountedIsSaved`, `RestoresSaved`: the table on the card is the one in memory and survives power cuts between commands | two images, two drives, two sectors |
| `files_and_drive` | types, `FilesSound`, `DirtyDataReachesCard`: no written data is dropped while host files and a drive share the FILs | handles 0 and 1, one file of two sectors, one drive |
| `faults` | `SelectedImage` with a card that may fail any transfer | two drives, one image, one sector |
| `link_transfer` | types, `OperandsArrive`, `AnswerIsOwn`, `NextByteReady`, `NoByteSleeps`, `ConfigKept` for a paced host | a buffer of two bytes, two values, five commands with file numbers, one cut |
| `link_answers` | `EveryCommandAnswered`, `HeartbeatFound`, `EveryByteTaken` under fairness | commands of all kinds, one cut |
| `link_port` | `PortDirectionKept` fails: value and direction share a cell | two commands, one cut |
| `volume` | types, `CardSound`, `VolumeSound`, `TablesCleared`, `DoneIsOnCard`, `InUseIsSound`, `ObjectsKept` | four clusters, two volumes (static and chained root), four calls, each left or cut anywhere |
| `start_cluster` | `StartClusterValid` fails: the error value of a failed allocation becomes a start cluster | the same |
| `sdcard` | types, `TouchesAskedSector`, `MountedCardOnly`, `CallsReturn` | one card of each sort, four sectors of two bytes, loops of one and two turns |
| `listing` | types, `ListedIsWanted`, `ListingComplete`, `ListsNamed` | all strings of up to two characters of four and selected longer ones, a wildcard of three, two tables of four |
| `flash` | types, `UpdateTakes`, `LoaderKept`, `WayBack`, `SparesItself`, `DeviceSettles` | six cards, rows of two bytes, sectors of four, a flash of 16, two mishaps |
| `convert_last` | `ProgramArrives` fails: a program that ends on the first byte of a page loses it | two cards |

The bounds are enough for what the properties can tell apart.  Drives: two to
switch between, two images to confuse, two sectors for a FIL buffer to hold the
wrong one of, a half-full image to grow.  Link: a buffer of two bytes has a
first, a last and a wrap, two values tell a byte from its neighbour, one cut
comes at every step.  Volume: four clusters in two FAT sectors are enough for a
chain over both, for a full volume and for a table that must grow (three entries
to a sector, two of them the dots); four calls make, move and remove an object
with one of them failing.  Card: every sort after every other, a cut or an
exchange in every phase.  Flash: four sectors, two of them the loader's, two
rows to each, a check sum over half of the program, so that what lies behind
its range exists; of two mishaps the second can spoil the repair of the first.
`VIEW NoPort` leaves the status byte out of state identity where no property
looks at it and no action reads it, `VIEW PatternInUse` the pattern of a listing
that is over, which is never read.  No liveness is claimed of the workers: each
is one step.

Deadlock is checked in every run but the two of `FatVolume`, whose host stops
after `MaxCalls` calls.

Fairness (`FairSpec` of `HostLink`).  Weak fairness of `Firmware`: the PIC runs
one loop for ever, with no interrupt and nothing else to run, and a worker ends.
Weak fairness of `HostProbe`, `HostSeesHeartbeat` and `HostRead`: the host
repeats its probe and its poll.  None is needed of its commands.  A packet of
CMD_EXEC_PACKET with unknown letters and an unknown command leave the port
BUSY; `link_answers` gives the second, to which no answer is due, and not the
first, to which the host would wait for ever.

`FairSpec` of `SdCard` is weak fairness of `Driver`: every wait of `mmcio.c` is
a counted loop, and the program that runs it has nothing else to do.
`FairSpec` of `FlashUpdate` is weak fairness of the boot loader and of the boot
updater, for the same reason; nothing is asked of the power or of the card.

## Proofs

`AtomHostProofs` proves, for every card, every capacity, any names and
directories, with or without disk errors and power cuts:

- `HostTypeOK` and `OpenFilesSound` for any host at all;
- `SelectedImageHolds` for a host with the habits two-files, unmount-first and
  stays-put.

The argument follows the code: a lemma per `ff.c` operator says what the call
keeps (`Kept`: the machine stays good and the FIL stays on its file; `Frame`:
nothing else changes), a lemma per drive operator builds on those, a lemma per
worker on these.  The inductive invariant of the first two is `State`, types
together with `FilesSound`: a FIL's flush is well typed only when its buffer
holds a sector, which is what `FilesSound` says of a dirty FIL.
`SelectedImage` is not inductive: the second invariant, `Bindings`, separates
the firmware's half (`Backed`: the selected drive's name, resolved in the
current directory, is the file in `fildata[3]`, also for drives the host has
not bound) from the host's half (a bound drive is in the table under its name).

Its last part proves `MountedDrivesSaved` (`MountedIsSaved`), for any
cards, capacity and names, any host files and any moment of a power cut.  It
assumes that the card does not fail a transfer (saveDrivesImpl does not look at
the results of its writes), that BOOTDRV.CFG is not read-only on the card
(`CfgWritable`; else no save succeeds, and none says so) and that the host stays
in the root directory (habit same-place: the table is saved under a relative
name).  The invariant adds to the property that no FIL is open on BOOTDRV.CFG
between two commands.  Then every call but those of saveDrivesImpl leaves the
file alone (`Spares`, one lemma per call and drive operator), and saveDrivesImpl
ends with the table of the card equal to that in memory (`SaveSaves`).

`FloppyProofs` first proves `DataReachesCard` (`DirtyDataReachesCard`), again
without disk errors, for a host with the habits two-files and scratch-first.
Between two commands a FIL of the host's is closed or on a file with a host's
name, and `fildata[3]` is on an image with a clean buffer and a size that is not
below that in the directory entry (`DataState`): the last is why a late f_sync
never shortens an image.  A command on a host's FIL serves it (`Serves`: its
sector is still in the buffer or on the card), releases it or finds it closed; a
drive command may go through a switch, a seek, a transfer, a sync, a close and
two passes over BOOTDRV.CFG, so the proof carries a relation from machine to
machine through it (`Passes`): a size that is owed stays owed or is paid.

Its second part proves `FirmwareIsFloppyDrives`: `HSpec` implements
`FloppyDrives` under the mapping of `AtomHost` (a drive's disk is the image it
was mounted with, an image's content is what the card holds, the sector asked
for is the parameter block's).  It assumes a card that does not fail, the habits
two-files, scratch-first, unmount-first and stays-put, and that the card starts
with nothing behind the end of its images (`CardsBlank`: in `FatFile` a sector
behind the end is one that was never written, so this says what a card is, not
what is on it).  The step to floppies needs more than the other invariants: the
buffer of `fildata[3]` is what the card holds at that sector (`Coherent`, or a
sector read after a switch could be that of the other image), nothing stands
behind the end of an image (`Tail`, or an image that grows could bring back old
data), no image has its entry in the window only, where a power cut would take
it (the last part of `Good`), and the host knows of a drive exactly when the
table has it (`Knows`).  Between the calls of a drive command the images are
`Steady`: the entry f_sync writes may grow one, which no sector shows.  At the
sector of the transfer `ReadDelivers` and `WriteLands` say what reaches the host
and the card, and a last group of lemmas (`AsRead`, `AsWrite`, ...) turns each
command into an action of the floppies.

`FatVolumeProofs` proves all the invariants of `FatVolume`, for volumes of any
size with any tree of directories, any names, paths and number of calls, each
left or cut at any sector write: `VolumeTypeOK`, `CardStaysSound`,
`VolumeStaysSound`, `TablesAreCleared`, `DoneIsOnTheCard` and `InUseStaysSound`.
The properties speak of the objects that can be reached from the root, which a
write to one sector can change everywhere, so the proof works with a description
that is local: `Single` says of a volume and a set D of directories that D is
what can be reached (`IsTree`), no two links lead to one cluster (`Linked`), the
start clusters of entries are in use and no link leads there (`HeadsProper`),
each has one name (`NamedOnce`), directories lead back (`AllBack`), tables end
where they seem to (`Ordered`), dots are where they belong and free clusters are
blank.  From `Linked` follows that chains do not meet (`WalksApart`, by the
least index at which two could), and from that that tables share no sector, so
that a change is seen in one place only.

`FatVolumeLemmas` has that, and one lemma for each sort of sector write: a free
cluster is marked (`Marked`), linked (`LinkedOn`), freed (`Freed`), a table that
is part of nothing is written (`Retabled`), an entry is added, removed, updated,
doubled or pointed to another parent (`AddedName`, `AddedDir`, `RemovedFile`,
`RemovedDir`, `Updated`, `NamedTwice`, `Repointed`), each with what it leaves of
`Single` and of all other chains.  `FatVolumeProofs` puts them together to the
calls: for each one, that every machine of its trail, what an error leaves of
it, and what the card then holds are in `Fits` (`ChdirIs`, `MkdirIs`, ...).  A rename
has a stretch in which one object has two names, and there `Doubled` takes the
place of `Single`; that the directory moved is not above its new place, which
the host sees to, is what makes the end of it a tree again (`Moved`).  The
inductive invariant `Inv` is that the machine fits, with what the last call
said; that volumes in order (`InOrder`, in the terms of the properties) satisfy
it is the last group of lemmas.

`HostLinkProofs` proves, for every buffer size, every set of commands and of
values and any number of power cuts:

- `LinkTypeOK` for any host;
- `OperandsArriveForPaced`, `AnswerIsOwnForPaced`, `NextByteReadyForPaced`,
  `NoByteSleepsForPaced` and `ConfigKeptForPaced` for a paced one.

The inductive invariant `LinkInv` has a part for each thing host and firmware
share: `PortInv` (a write pending in the port wakes the firmware, and is gone
once it is taken), `ProbeInv` (before the heartbeat nothing else was sent),
`CommandInv` (the last command is pending, about to run, or has been acted on
once), `LatchInv`, `FillInv` and `DrainInv` (latch and buffer agree with what
the host put there, but for the byte still in the port).  None of the
properties is inductive: each speaks of the moments at which the firmware
sleeps or dispatches, the invariant of those between.  There is one lemma per
action, with one step per part.  `ConfigInv` follows the configuration byte
from the latch to the cell; its lemmas use `LinkInv`.

`SdCardProofs` proves, for any cards, sectors, block length and patience:
`DriverTypeOK`, `OnlyAskedSector` and `OnlyMountedCard`.  What touches a sector
is three commands behind an initialisation of seven phases, so the invariant
must say in each phase how the card in the socket counts sectors, and that this
agrees with what `CardType` will say, or that the card was changed and then is
not ready: that is its part `IInv`.

`FlashUpdateProofs` proves, for any programs, cards and sizes of the flash, its
rows and sectors, `FlashTypeOK`, `LeavesWayBack`, `FlashSparesItself`,
`LoaderTakesUpdate` and, when the user calls nothing a loader that is none,
`LoaderStays`.
`SparesItself` is not inductive: it needs `Place` (the sector that is written
starts at a multiple of `SectorBytes` that is behind the boot block while the
loader writes it and inside it while the updater does, so that its rows are,
too), and `WayBack` needs `Reset` (the configuration is reset in all the phases
between the blink before the updater's work and that after it).  Types need that
the file's end, as the loader computes it from a size in the directory, does not
lie behind the flash, and that a step of a whole sector cannot jump over it.

The other two follow a file through as many steps as it has sectors.  The
updater's invariant `Updating` says that while it is at work and nothing has gone
wrong (`clean`), there is one chain of a loader's file that it is following
(`Copies`: the cluster and the sector it is at are those of the chain, the buffer
holds that sector of the file, the rows below the address are the new loader's).
The hypothesis of `LoaderStays`, `LoadersAreLoaders`, is what the user is trusted
with, as the updater goes by the name of the file only; `MCFlashUpdate` has TLC
evaluate it for its cards (`UserAssumption`).  The loader's invariant `Taking`
has a part for each phase: `Scanning` (no entry that is a firmware's lies in a
sector that was passed), `Heading` and `Copying` (as long as nothing has gone
wrong, the next sector is the next one of that file, the buffer holds the bytes
that belong at the address, and so do the rows below it) and `Trusting` (in a
history without a rewriting that was cut short or misread, one program stands in
the flash in full, so that a check sum over its first bytes that agrees is
enough).

`ListingProofs` proves, for any strings, tables, names and lengths, the four
invariants of `Listing` (`ListingTypeOK`, `AnswersAreWanted`,
`ListingsAreComplete`, `OpensTheNamed`) and `LoopsMatch`: `wildcmp` accepts a
name if and only if the wildcard matches it.  A place in its loops stands for a
claim (`Claim`: the rest of the name matches the rest of the wildcard here, or
would with the last star taking more), each turn keeps it (`ClaimTurns`), and
every turn gets on, the star, the place to go back to or the string, so that a
place with the greatest of the three that went wrong cannot be.  The same lemmas
show that the equation of the recursive function has a solution, without which
it would say nothing.  The invariant of a listing that runs, `Running`, says that
every wanted entry before the index that was there all the time has been listed,
and that creating and deleting take no slot out of use (`Keeps`).

Induction over data is done by least counterexamples (`LeastIs`, from the
library's WFMin on the naturals), since the library's induction rules take an
operator as a parameter and cannot be instantiated.

Assumptions of the theorems are the named ASSUMEs of the modules, which TLC
evaluates in the runs: sizes are positive and divide each other as 64, 256 and
512 do; a volume starts in order (`VolumesAssumption`), with room for the dots
and a third entry in a sector; cards are of the sorts there are; a directory entry of a firmware has a
size that fits the flash (the converter makes no other); names and strings are
made of characters, of which NUL is none, and the host creates no file with an
empty name, with the mark of a deleted entry or with the directory's name.

Only model-checked: `RestoresSaved`; `ObjectsKept`, which compares the card
before and after a call, where the invariant of `FatVolume` is about one state;
and all liveness (`EveryCommandAnswered`, `HeartbeatFound`, `EveryByteTaken`,
`CallsReturn`, `DeviceSettles`), which the prover cannot do.

## What the code does that the models show

Three runs end in a violation of what a comment of the repository says; they are
the findings of `PROJECT.json`.  Other places at which the properties hold only
with a premise, or for a host with habits, because the code behaves so:

- a second mount in the selected drive answers success and keeps the old file
  open (habit unmount-first); the test for an image that is mounted twice
  compares attribute bytes that never agree at a mount, so that one image can be
  in two drives, but do agree when the table is loaded, which then keeps the
  last of them (`RestoresSaved`); a host's file in `fildata[3]` loses unwritten data when an image is
  mounted (habit two-files);
- `/*` lists the current directory (`RootOnly`); `..` can be made in the root;
- f_rename leaves the object with two names when it is cut short, lets a
  directory be moved below itself, and puts the high word of a start cluster
  together without shifting it;
- f_unlink and f_rename do not look whether the object is open or current; the
  host of `FatVolume` keeps off what it has in use, and gives nothing a name of
  dots (`EndsInDots`), which the root would take as any other;
- the boot loader takes its file to lie in consecutive sectors, looks at one
  entry for each sector of the root directory, never finds anything on FAT32,
  flashes blocks it could not read, and checks the first 8 KB only: `Offers` and
  `trusted` in `UpdateTakes` are these;
- until the updater is through with the boot block, a power cut leaves a device
  that does not start (`brickable` in `LoaderKept`);
- after CMD_GET_CARD_TYPE a card that replaced the mounted one answers, and is
  written with the tables of the first (`retyped` in `MountedCardOnly`).

## Not modelled

- `wfnFileGetInfo` and `wfnGetSDDOSImgNames`: they report and change nothing but
  the buffer;
- of `ff.c`: f_open with FA_CREATE_ALWAYS on a file that exists (at the level
  of chains: `FatFile` has it for contents), the second copy of the FAT, the
  contents of FSInfo, the packing of FAT12 links, dates; long names, formatting
  and the string functions are not compiled in;
- the bytes of a directory answer (brackets, attribute, size);
- the two words of a cluster number: clusters are small numbers;
- parsing of hex files and the arithmetic of the check sum in the converter;
- the AVR build's port, where the accesses are made by an interrupt-free poll of
  other pins; the lines of SPI; activity lights and blink codes; build scripts
  and released binaries.

What a further step would add: `RestoresSaved` and `ObjectsKept` as theorems, and
`FatFile`'s files as a refinement of `FatVolume`'s chains.
