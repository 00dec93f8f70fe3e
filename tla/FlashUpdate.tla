---------------------------- MODULE FlashUpdate ----------------------------
(***************************************************************************)
(* How the PIC's flash is rewritten from the card: the boot loader         *)
(* (BootLoader.c), which puts a new program behind itself, and the boot    *)
(* updater (BootUpdater.c over pff.c), a program that puts a new boot      *)
(* loader in front, with the converter (Convert.java) that makes the files.*)
(* The power may go at any step, any read of the card may fail, and the    *)
(* card may be changed while the power is off.                             *)
(*                                                                         *)
(* A byte of a program is the pair of the program and its address; the     *)
(* check sum of a stretch of flash is its content (no two collide).  A     *)
(* program that is not whole in the flash may do anything: here, nothing.  *)
(***************************************************************************)
EXTENDS Integers, FiniteSets

CONSTANTS
    Programs, Role, Bytes,   \* Role[p], and Bytes[p], the bytes of p
    Factory, Bodger,       \* the loader and the stub of the factory image
    Cards,                 \* what may be in the socket: see CardsAssumption
    RowBytes,              \* 64, the unit the flash is erased in
    PageBytes,             \* 0x100, the unit Convert rounds to
    SectorBytes,           \* 512
    AppBase,               \* 0x1000, where programs start
    Top,                   \* the end of the flash
    CrcBytes,              \* 0x2000, what the check sum covers
    PerSector,             \* directory entries in a sector: 16
    MaxMountTries,         \* MAX_MOUNT_TRIES
    MaxMishaps             \* bound on reads that fail unseen and on power cuts
                           \* in the middle of the work

Roles == {"loader", "reset", "firmware", "updater"}

Addr == 0..(Top - 1)
App == AppBase..(Top - 1)
Boot == 0..(AppBase - 1)

Base(p) == IF Role[p] = "loader" THEN 0 ELSE AppBase

Erased == <<"erased", 0>>      \* 0xff
Junk == <<"junk", 0>>          \* bytes of something else, or of a cut write
Content == (Programs \X Addr) \cup {Erased, Junk}

\* The hex file of p loaded into the converter's memory.
Span(p) == Base(p)..(Base(p) + Bytes[p] - 1)
Memory(p) == [a \in Addr |-> IF a \in Span(p) THEN <<p, a>> ELSE Erased]

----------------------------------------------------------------------------
(* The files: Convert *)

\* last is the highest address of the program, not the one after it.
RoundUp(last) == ((last + PageBytes - 1) \div PageBytes) * PageBytes

HeaderBytes(p) == IF Role[p] = "loader" THEN 0 ELSE SectorBytes

FileSize(p) ==
    IF Role[p] = "loader" THEN AppBase
    ELSE SectorBytes + RoundUp(AppBase + Bytes[p] - 1) - AppBase

\* A file shorter than the check sum's range makes the converter fail.
Convertible(p) == Role[p] # "loader" => FileSize(p) >= SectorBytes + CrcBytes

\* Byte i of the k-th sector of the file; what follows the file is junk.
FileByte(p, k, i) ==
    LET offset == k * SectorBytes + i IN
    IF offset < HeaderBytes(p) \/ offset >= FileSize(p) THEN Junk
    ELSE Memory(p)[Base(p) + offset - HeaderBytes(p)]

NoHeader == [i \in 0..(CrcBytes - 1) |-> Junk]
Checked(mem) == [i \in 0..(CrcBytes - 1) |-> mem[AppBase + i]]

----------------------------------------------------------------------------
(* The card *)

NoEntry == [name |-> "", start |-> 0, size |-> 0]      \* deleted
NoMore == [name |-> "end", start |-> 0, size |-> 0]    \* never used
NoSector == [of |-> "other", k |-> 0]

Nat1 == Nat \ {0}
LastCluster(v) == v.clusters + 1

ASSUME ProgramsAssumption ==
    /\ Role \in [Programs -> Roles] /\ Bytes \in [Programs -> Nat1]
    /\ Factory \in Programs /\ Role[Factory] = "loader"
    /\ Bodger \in Programs /\ Role[Bodger] = "reset"
    /\ \A p \in Programs :
          IF Role[p] = "loader" THEN Bytes[p] = AppBase ELSE Bytes[p] <= Top - AppBase
    /\ \A p \in Programs : <<p, 0>> \notin {Erased, Junk} /\ p # NoSector.of
ASSUME BoundAssumption == MaxMishaps \in Nat
ASSUME SizesAssumption ==
    /\ {RowBytes, PageBytes, SectorBytes, AppBase, Top, CrcBytes, PerSector,
        MaxMountTries} \subseteq Nat1
    /\ SectorBytes % RowBytes = 0 /\ AppBase % SectorBytes = 0
    /\ Top % SectorBytes = 0 /\ Top % PageBytes = 0
    /\ CrcBytes <= Top - AppBase /\ AppBase < Top

\* A card is not there or has no FAT volume, or it has a root directory of
\* rootEntries entries (32-bit FATs count none), clusters of csize sectors, a
\* FAT, and sectors that hold the k-th sector of a converted file, or anything.
ASSUME CardsAssumption ==
    \A v \in Cards :
       /\ v.fs \in {"none", "FAT16", "FAT32"}
       /\ v.rootEntries \in Nat /\ v.listed \in Nat
       /\ v.csize \in Nat1 /\ v.clusters \in Nat
       /\ v.dir \in [0..(v.listed - 1) ->
                       [name : {"", "end", "firmware", "loader", "other"},
                        start : 0..LastCluster(v),
                        size : 0..(SectorBytes + Top - AppBase)]]
       /\ v.fat \in [2..LastCluster(v) -> Nat]
       /\ v.data \in [0..(v.clusters * v.csize - 1) ->
                        [of : Programs, k : Nat] \cup {NoSector}]
       /\ \A s \in DOMAIN v.data :
             v.data[s] # NoSector => Convertible(v.data[s].of)

NoEntries == [i \in 0..(PerSector - 1) |-> NoEntry]
AllJunk == [i \in 0..(SectorBytes - 1) |-> Junk]

\* What a sector buffer may hold: directory entries, a header, plain bytes.
DirSector(v, k) ==
    [entries |-> [i \in 0..(PerSector - 1) |->
                    IF k * PerSector + i \in DOMAIN v.dir
                    THEN v.dir[k * PerSector + i] ELSE NoMore],
     header |-> NoHeader, bytes |-> AllJunk]
OtherSector == [entries |-> NoEntries, header |-> NoHeader, bytes |-> AllJunk]
DataSector(v, s) ==
    IF v.data[s] = NoSector THEN OtherSector
    ELSE LET f == v.data[s] IN
         [entries |-> NoEntries,
          header |-> IF HeaderBytes(f.of) > 0 /\ f.k = 0
                     THEN Checked(Memory(f.of)) ELSE NoHeader,
          bytes |-> [i \in 0..(SectorBytes - 1) |-> FileByte(f.of, f.k, i)]]

----------------------------------------------------------------------------

VARIABLES
    flash,     \* the program memory
    config,    \* bit 7 of the configuration byte in the EEPROM (EE_SYSFLAGS)
    card,
    pc,        \* what runs, and where in it
    buf,       \* globalData of the loader, sectorData of the updater
    sector,    \* the next sector to read: dirbase, then offset
    n_rootdir, \* what is left of the directory to search
    address,   \* the block of flash being written
    row,       \* the row of it (blockCount)
    stop,      \* where to stop
    fs,        \* pff's file: open, the pointer and the cluster
    tries,     \* to mount
    clean,     \* history: no read that nobody looks at failed since power on
    outcome,   \* history: what the loader did since power on
    mishaps,   \* history: how many so far
    trusted,   \* history: the last rewriting of the program came to its end
    brickable  \* history: a rewriting of the loader did not come to its end

storage == <<flash, config, card>>
loader == <<sector, n_rootdir, stop>>
updater == <<fs, tries>>
block == <<address, row>>
seen == <<clean, mishaps>>
ghosts == <<trusted, brickable>>
vars == <<flash, config, card, pc, buf, sector, n_rootdir, address, row, stop,
          fs, tries, clean, mishaps, outcome, trusted, brickable>>

LoaderPhases == {"init", "mount", "scan", "header", "read", "erase", "write", "start"}
UpdaterPhases == {"reset config", "pf_mount", "pf_open", "pf_read", "erase boot",
                  "write boot"}
Phases == LoaderPhases \cup UpdaterPhases
          \cup {"off", "reset", "firmware", "bail", "blink", "dead"}

Whole(p) == \A a \in Span(p) : flash[a] = <<p, a>>
IsLoader(p) == Role[p] = "loader"

FirstSector(v, cluster) == (cluster - 2) * v.csize

\* The entries the loader searches: as many as the directory has sectors, in
\* whole sectors ("scan the 1st 'n_rootdir' directory entries").
Searched(v) ==
    {i \in DOMAIN v.dir : v.fs # "none" /\ i < v.rootEntries \div PerSector}

Candidates(v) == {i \in DOMAIN v.dir : v.dir[i].name = "firmware"}

\* A card with the file of a program p for behind the boot block, where the
\* loader looks for it and as it reads it.
Offers(v, p) ==
    /\ ~IsLoader(p)
    /\ \E i \in Candidates(v) \cap Searched(v) :
          /\ \A j \in Candidates(v) : i <= j
          /\ v.dir[i].size = FileSize(p) /\ v.dir[i].start >= 2
          /\ \A k \in 0..((FileSize(p) - 1) \div SectorBytes) :
                /\ FirstSector(v, v.dir[i].start) + k \in DOMAIN v.data
                /\ v.data[FirstSector(v, v.dir[i].start) + k] = [of |-> p, k |-> k]

Usable == \E p \in Programs : Offers(card, p)

----------------------------------------------------------------------------
(* The flash: WriteDataToMemory erases and writes a sector row by row *)

\* Mutant of RowBase: TBLPTR is not set to the block's address.
RowBaseOfRow == row * RowBytes

RowBase == address + row * RowBytes
Row == RowBase..(RowBase + RowBytes - 1)
RowsPerSector == SectorBytes \div RowBytes

EraseRow(here, next) ==
    /\ pc = here
    /\ flash' = [a \in Addr |-> IF a \in Row THEN Erased ELSE flash[a]]
    /\ pc' = next
    /\ UNCHANGED <<config, card, buf, loader, block, updater, seen, outcome, ghosts>>

Written == [a \in Addr |-> IF a \in Row THEN buf.bytes[a - address] ELSE flash[a]]

WriteRow(here, again, next) ==
    /\ pc = here
    /\ flash' = Written
    /\ IF row + 1 < RowsPerSector
       THEN row' = row + 1 /\ pc' = again /\ UNCHANGED address
       ELSE row' = 0 /\ address' = address + SectorBytes /\ pc' = next

----------------------------------------------------------------------------
(* The boot loader *)

\* ENTERFIRMWARE
Leave(why) == pc' = "start" /\ outcome' = why

\* main: the hardware is set up, and the configuration byte and port B decide.
main ==
    /\ pc = "reset"
    /\ IF \E p \in Programs : IsLoader(p) /\ Whole(p)
       THEN \/ pc' = "init" /\ UNCHANGED outcome        \* bit 7, or PORTB7 is low
            \/ ~config /\ Leave("not asked")
       ELSE pc' = "dead" /\ UNCHANGED outcome
    /\ UNCHANGED <<storage, buf, loader, block, updater, seen, ghosts>>

disk_initialise ==
    /\ pc = "init"
    /\ \/ pc' = "mount" /\ UNCHANGED outcome
       \/ Leave("no card")
    /\ UNCHANGED <<storage, buf, loader, block, updater, seen, ghosts>>

\* check_fs and mount; the root directory of a FAT32 volume is not searched.
\* n_rootdir counts sectors from here on.
mount ==
    /\ pc = "mount"
    /\ \/ /\ card.fs # "none"
          /\ n_rootdir' = card.rootEntries \div PerSector
          /\ sector' = 0
          /\ buf' = OtherSector
          /\ IF n_rootdir' > 0 THEN pc' = "scan" /\ UNCHANGED outcome
             ELSE Leave("no file")
       \/ Leave("no card") /\ UNCHANGED <<sector, n_rootdir, buf>>
    /\ UNCHANGED <<storage, address, row, stop, updater, seen, ghosts>>

Mishap == mishaps < MaxMishaps /\ mishaps' = mishaps + 1
\* A read fails and nobody looks; one of a sector that is not there must.
Misread(there) ==
    /\ clean' = FALSE
    /\ IF there THEN Mishap ELSE UNCHANGED mishaps
    /\ UNCHANGED buf

\* disk_read_sector with a result nobody looks at.
ReadInto(there, contents) ==
    \/ there /\ buf' = contents /\ UNCHANGED seen
    \/ Misread(there)

Found(b) == {i \in 0..(PerSector - 1) : b.entries[i].name = "firmware"}
First(b) == {i \in Found(b) : \A j \in Found(b) : i <= j}

\* Mutant of LeftAfter: "if (n_rootdir)" is not asked.
LeftAfterUnasked(n) == n - PerSector

\* n_rootdir is counted down once for each entry passed.
LeftAfter(n) == IF n > PerSector THEN n - PerSector ELSE 0

\* One sector of the directory: the first entry with the name is taken.
ScanSector ==
    /\ pc = "scan"
    /\ ReadInto(TRUE, DirSector(card, sector))
    /\ \/ \E i \in First(buf') :
             /\ sector' = FirstSector(card, buf'.entries[i].start)
             /\ stop' = AppBase + buf'.entries[i].size - SectorBytes
             /\ pc' = "header"
             /\ UNCHANGED <<n_rootdir, outcome>>
       \/ /\ Found(buf') = {}
          /\ sector' = sector + 1
          /\ n_rootdir' = LeftAfter(n_rootdir)
          /\ IF n_rootdir' > 0 THEN pc' = "scan" /\ UNCHANGED outcome
             ELSE Leave("no file")
          /\ UNCHANGED stop
    /\ UNCHANGED <<storage, address, row, updater, ghosts>>

OnCard(s) == s \in DOMAIN card.data

SameProgram == buf'.header = Checked(flash)

\* The header: the magic word, and the check sum of the program's first 8 KB.
ReadHeader ==
    /\ pc = "header"
    /\ ReadInto(OnCard(sector), DataSector(card, sector))
    /\ sector' = sector + 1
    /\ address' = AppBase
    /\ row' = 0
    /\ IF buf'.header = NoHeader THEN Leave("refused") /\ UNCHANGED trusted
       ELSE IF SameProgram THEN Leave("same") /\ UNCHANGED trusted
       ELSE /\ trusted' = FALSE
            /\ IF AppBase < stop THEN pc' = "read" /\ UNCHANGED outcome
               ELSE Leave("flashed")
    /\ UNCHANGED <<storage, n_rootdir, stop, updater, brickable>>

\* Mutant of ReadSector: the next sector is read from the same place.
ReadSectorAgain ==
    /\ pc = "read"
    /\ ReadInto(OnCard(sector), DataSector(card, sector))
    /\ pc' = "erase"
    /\ UNCHANGED <<storage, sector, n_rootdir, stop, address, row, updater, outcome, ghosts>>

\* The file is taken to lie in consecutive sectors; the FAT is not read.
ReadSector ==
    /\ pc = "read"
    /\ ReadInto(OnCard(sector), DataSector(card, sector))
    /\ sector' = sector + 1
    /\ pc' = "erase"
    /\ UNCHANGED <<storage, n_rootdir, stop, address, row, updater, outcome, ghosts>>

EraseApp == EraseRow("erase", "write")

WriteApp ==
    /\ WriteRow("write", "erase", IF address + SectorBytes < stop THEN "read" ELSE "start")
    /\ IF pc' = "start" THEN outcome' = "flashed" /\ trusted' = (clean /\ Usable)
       ELSE UNCHANGED <<outcome, trusted>>
    /\ UNCHANGED <<config, card, buf, loader, updater, seen, brickable>>

Closed == [open |-> FALSE, size |-> 0, fptr |-> 0, clust |-> 0]

\* The program that starts makes nothing of what the one before left in the RAM.
ForgetAll ==
    /\ buf' = OtherSector
    /\ sector' = 0 /\ n_rootdir' = 0 /\ address' = 0 /\ row' = 0 /\ stop' = 0
    /\ fs' = Closed /\ tries' = 0
    /\ clean' = TRUE /\ outcome' = "none"

\* goto 0x1000: what is there runs, if it is whole; the stub starts again.
EnterFirmware ==
    /\ pc = "start"
    /\ IF \E p \in Programs : ~IsLoader(p) /\ Whole(p)
       THEN \E p \in Programs :
               /\ ~IsLoader(p) /\ Whole(p)
               /\ pc' = CASE Role[p] = "reset" -> "reset"
                          [] Role[p] = "firmware" -> "firmware"
                          [] OTHER -> "reset config"
       ELSE pc' = "dead"
    /\ ForgetAll
    /\ UNCHANGED <<storage, mishaps, ghosts>>

----------------------------------------------------------------------------
(* The boot updater *)

\* Mutant of ResetConfig: the configuration is left as the user set it.
ResetConfigNot ==
    /\ pc = "reset config"
    /\ pc' = "pf_mount"
    /\ UNCHANGED <<storage, buf, loader, block, updater, seen, outcome, ghosts>>

\* WriteEEPROM(0xff, 0xff): from now on a reset enters the boot loader.
ResetConfig ==
    /\ pc = "reset config"
    /\ config' = TRUE
    /\ pc' = "pf_mount"
    /\ UNCHANGED <<flash, card, buf, loader, block, updater, seen, outcome, ghosts>>

\* Mutant of pf_mount: the tries are not counted.
pf_mountForEver ==
    /\ pc = "pf_mount"
    /\ pc' \in IF card.fs # "none" THEN {"pf_open", "pf_mount"} ELSE {"pf_mount"}
    /\ UNCHANGED <<storage, buf, loader, block, updater, seen, outcome, ghosts>>

\* Mounting is tried MAX_MOUNT_TRIES times; pf_open finds out how it went.
pf_mount ==
    /\ pc = "pf_mount"
    /\ \/ card.fs # "none" /\ pc' = "pf_open" /\ UNCHANGED tries
       \/ /\ tries' = tries + 1
          /\ pc' = IF tries + 1 < MaxMountTries THEN "pf_mount" ELSE "bail"
    /\ UNCHANGED <<storage, buf, loader, block, fs, seen, outcome, ghosts>>

\* follow_path and dir_find search as far as the first entry never used.
Listed(v) ==
    {i \in DOMAIN v.dir : /\ v.dir[i].name = "loader"
                          /\ \A j \in 0..(i - 1) : v.dir[j].name \notin {"loader", "end"}
                          /\ v.fs = "FAT16" => i < v.rootEntries}

pf_open ==
    /\ pc = "pf_open"
    /\ \/ \E i \in Listed(card) :
             /\ fs' = [open |-> TRUE, size |-> card.dir[i].size, fptr |-> 0,
                       clust |-> card.dir[i].start]
             /\ address' = 0 /\ row' = 0
             /\ pc' = "pf_read"
             /\ brickable' = TRUE
       \/ pc' = "bail" /\ UNCHANGED <<fs, address, row, brickable>>
    /\ UNCHANGED <<storage, buf, loader, tries, seen, outcome, trusted>>

\* Mutant of ClusterAt: the file is taken to lie in consecutive clusters.
ClusterAtNext(v) ==
    IF fs.fptr % (v.csize * SectorBytes) # 0 \/ fs.fptr = 0 THEN fs.clust
    ELSE fs.clust + 1

\* At the end of a cluster the FAT names the next one.
ClusterAt(v) ==
    IF fs.fptr % (v.csize * SectorBytes) # 0 \/ fs.fptr = 0 THEN fs.clust
    ELSE IF fs.clust \in DOMAIN v.fat THEN v.fat[fs.clust] ELSE 1

SectorInCluster(v) == (fs.fptr \div SectorBytes) % v.csize

\* What is left of the file: the rest of the buffer stays as it was.
Part(b, n) == [b EXCEPT !.bytes = [i \in 0..(SectorBytes - 1) |->
                   IF i < n THEN b.bytes[i] ELSE buf.bytes[i]]]

Shorter(x, y) == IF x < y THEN x ELSE y

\* pf_read's answer is not looked at either: after an error the file is closed
\* and the buffer keeps the sector before, which is written again.
pf_read ==
    /\ pc = "pf_read"
    /\ LET want == Shorter(SectorBytes, fs.size - fs.fptr)
           clust == ClusterAt(card)
           there == clust \in 2..LastCluster(card)
           s == FirstSector(card, clust) + SectorInCluster(card)
       IN  \/ /\ ~fs.open \/ want = 0
              /\ UNCHANGED <<buf, fs, seen>>
           \/ /\ fs.open /\ want > 0
              /\ \/ /\ there
                    /\ buf' = Part(DataSector(card, s), want)
                    /\ fs' = [fs EXCEPT !.fptr = fs.fptr + want, !.clust = clust]
                    /\ UNCHANGED seen
                 \/ Misread(there) /\ fs' = [fs EXCEPT !.open = FALSE]
    /\ pc' = "erase boot"
    /\ UNCHANGED <<storage, loader, block, tries, outcome, ghosts>>

EraseBoot == EraseRow("erase boot", "write boot")

WriteBoot ==
    /\ WriteRow("write boot", "erase boot",
                IF address + SectorBytes < AppBase THEN "pf_read" ELSE "blink")
    /\ brickable' = IF pc' = "blink" /\ clean THEN FALSE ELSE brickable
    /\ UNCHANGED <<config, card, buf, loader, updater, seen, outcome, trusted>>

----------------------------------------------------------------------------
(* The firmware, the power and the user *)

\* CMD_SET_CFG_BYTE from the host.
SetConfig ==
    /\ pc = "firmware"
    /\ config' \in BOOLEAN
    /\ UNCHANGED <<flash, card, pc, buf, loader, block, updater, seen, outcome, ghosts>>

\* A row being written keeps what was written of it; one being erased, and
\* the EEPROM cell being written, may hold anything.
AfterCut ==
    CASE pc \in {"erase", "erase boot"} ->
           {flash, [a \in Addr |-> IF a \in Row THEN Junk ELSE flash[a]]}
      [] pc \in {"write", "write boot"} ->
           {[a \in Addr |-> IF a \in Row /\ a < n THEN Written[a] ELSE flash[a]] : n \in Row}
      [] OTHER -> {flash}

Idle == {"off", "reset", "firmware", "bail", "blink", "dead"}

PowerOff ==
    /\ pc # "off"
    /\ IF pc \in Idle THEN UNCHANGED mishaps ELSE Mishap
    /\ flash' \in AfterCut
    /\ config' \in IF pc = "reset config" THEN BOOLEAN ELSE {config}
    /\ pc' = "off"
    /\ ForgetAll
    /\ UNCHANGED <<card, ghosts>>

PowerOn ==
    /\ pc = "off"
    /\ card' \in Cards
    /\ pc' = "reset"
    /\ UNCHANGED <<flash, config, buf, loader, block, updater, seen, outcome, ghosts>>

Init ==
    /\ flash = [a \in Addr |-> IF a \in Boot THEN Memory(Factory)[a] ELSE Memory(Bodger)[a]]
    /\ config = TRUE
    /\ card \in Cards
    /\ pc = "off"
    /\ buf = OtherSector
    /\ sector = 0 /\ n_rootdir = 0 /\ address = 0 /\ row = 0 /\ stop = 0
    /\ fs = Closed /\ tries = 0
    /\ clean = TRUE /\ mishaps = 0 /\ outcome = "none" /\ trusted = TRUE /\ brickable = FALSE

BootLoader ==
    \/ main \/ disk_initialise \/ mount \/ ScanSector \/ ReadHeader \/ ReadSector
    \/ EraseApp \/ WriteApp \/ EnterFirmware
BootUpdater == ResetConfig \/ pf_mount \/ pf_open \/ pf_read \/ EraseBoot \/ WriteBoot

Next == BootLoader \/ BootUpdater \/ SetConfig \/ PowerOff \/ PowerOn

Spec == Init /\ [][Next]_vars
\* The PIC runs on as long as it has power.
FairSpec == Spec /\ WF_vars(BootLoader \/ BootUpdater)

----------------------------------------------------------------------------
(* Properties *)

Buffers == [entries : [0..(PerSector - 1) ->
                         (UNION {{v.dir[i] : i \in DOMAIN v.dir} : v \in Cards})
                         \cup {NoEntry, NoMore}],
            header : [0..(CrcBytes - 1) -> Content],
            bytes : [0..(SectorBytes - 1) -> Content]]

\* Every variable keeps its type; no address outside the flash is written.
TypeOK ==
    /\ flash \in [Addr -> Content]
    /\ config \in BOOLEAN
    /\ card \in Cards
    /\ pc \in Phases
    /\ buf \in Buffers
    /\ sector \in Int /\ n_rootdir \in Nat /\ stop \in Int
    /\ address \in 0..Top /\ row \in 0..(RowsPerSector - 1)
    /\ fs \in [open : BOOLEAN, size : Nat, fptr : Nat, clust : Nat]
    /\ tries \in 0..MaxMountTries
    /\ mishaps \in 0..MaxMishaps
    /\ clean \in BOOLEAN /\ trusted \in BOOLEAN /\ brickable \in BOOLEAN
    /\ outcome \in {"none", "not asked", "no card", "no file", "refused", "same",
                    "flashed"}

Holds(p, area) == \A a \in area : flash[a] = Memory(p)[a]
CheckedArea == AppBase..(AppBase + CrcBytes - 1)
FileArea(p) == AppBase..(AppBase + FileSize(p) - SectorBytes - 1)

\* Asked to look, with a card it can use, the loader leaves the program of the
\* card in the flash, up to the range of the check sum whatever was there
\* before, and in full if no earlier rewriting was cut short or misread.
UpdateTakes ==
    pc = "start" /\ clean /\ outcome \notin {"not asked", "no card"} =>
        \A p \in Programs : Offers(card, p) =>
            /\ Holds(p, CheckedArea)
            /\ trusted => Holds(p, FileArea(p))

\* The file at entry i is a loader: its sectors are those of its clusters.
BootSectors == AppBase \div SectorBytes
FileOfLoader(v, i, p, chain) ==
    /\ v.dir[i].size = FileSize(p) /\ v.dir[i].start = chain[0]
    /\ \A n \in DOMAIN chain : n > 0 => chain[n] = v.fat[chain[n - 1]]
    /\ \A k \in 0..(BootSectors - 1) :
          v.data[FirstSector(v, chain[k \div v.csize]) + (k % v.csize)] = [of |-> p, k |-> k]
HoldsLoader(v, i) ==
    \E p \in Programs, chain \in [0..((BootSectors - 1) \div v.csize) -> 2..LastCluster(v)] :
        IsLoader(p) /\ FileOfLoader(v, i, p, chain)

\* What the user is trusted with: what goes by the name of a loader is one.
LoadersAreLoaders == \A v \in Cards : \A i \in Listed(v) : HoldsLoader(v, i)

\* The boot block always has a whole loader, unless a rewriting of it by the
\* updater is going on, or was cut short or misread, on a fragmented card too.
LoaderKept == brickable \/ \E p \in Programs : IsLoader(p) /\ Whole(p)

\* Once the updater has started on the boot block, bit 7 is set ("as long as
\* any bootloader-updater ensures the eeprom is correctly configured"): the
\* new loader will look for a firmware that replaces the updater.
WayBack == pc \in {"pf_read", "erase boot", "write boot", "blink"} => config

\* The loader and the firmware never touch the boot block, and the updater
\* nothing else; so the program that runs is not changed under itself.
SparesItself ==
    [][/\ pc \in LoaderPhases => \A a \in Boot : flash'[a] = flash[a]
       /\ pc \in UpdaterPhases => \A a \in App : flash'[a] = flash[a]]_vars

\* What the comment in the converter takes for granted ("Round up to the next
\* whole page"): a file that was flashed holds the whole program.
ProgramArrives ==
    pc = "start" /\ clean /\ outcome = "flashed" =>
        \A p \in Programs : Offers(card, p) => Whole(p)

\* Loader and updater come to an end, whichever reads fail.
DeviceSettles == pc \notin Idle ~> pc \in Idle
=============================================================================
