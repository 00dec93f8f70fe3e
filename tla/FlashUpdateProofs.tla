------------------------- MODULE FlashUpdateProofs -------------------------
(***************************************************************************)
(* Proofs about FlashUpdate: type correctness, that neither the boot       *)
(* loader nor the boot updater ever changes the program that runs, that    *)
(* the updater leaves a way back, that the boot block keeps a whole loader *)
(* and that the loader takes the program of the card, for any programs,    *)
(* cards and sizes.                                                        *)
(***************************************************************************)
EXTENDS FlashUpdate, TLAPS

LoaderBlock == {"read", "erase", "write"}
UpdaterBlock == {"pf_read", "erase boot", "write boot"}
Reprogramming == {"pf_mount", "pf_open", "blink"} \cup UpdaterBlock

\* The block that is written is a whole sector of the flash: the loader's lies
\* behind the boot block, the updater's in it.
Place ==
    /\ address \in Nat /\ row \in 0..(RowsPerSector - 1)
    /\ address % SectorBytes = 0
    /\ pc \in LoaderBlock => AppBase <= address
    /\ pc \in UpdaterBlock => address < AppBase

\* The configuration is reset before anything else is done.
Reset == pc \in Reprogramming => config

IInv == Place /\ Reset

-----------------------------------------------------------------------------
(* Arithmetic *)

LEMMA Sizes ==
    /\ RowBytes \in Nat1 /\ PageBytes \in Nat1 /\ SectorBytes \in Nat1 /\ AppBase \in Nat1
    /\ Top \in Nat1 /\ CrcBytes \in Nat1 /\ PerSector \in Nat1 /\ MaxMountTries \in Nat1
    /\ SectorBytes % RowBytes = 0 /\ AppBase % SectorBytes = 0
    /\ Top % SectorBytes = 0 /\ Top % PageBytes = 0
    /\ CrcBytes <= Top - AppBase /\ AppBase < Top
  BY SizesAssumption

LEMMA Multiple ==
    ASSUME NEW s \in Nat1, NEW a \in Int, a % s = 0
    PROVE  \E q \in Int : a = q * s
  <1>1. a = (a \div s) * s + (a % s)
    BY DEF Nat1
  <1>2. a \div s \in Int
    BY DEF Nat1
  <1>3. (a \div s) * s \in Int
    BY <1>2 DEF Nat1
  <1>4. a = (a \div s) * s
    BY <1>1, <1>3
  <1> QED  BY <1>2, <1>4

LEMMA Monotone ==
    ASSUME NEW s \in Nat, NEW q \in Int, NEW r \in Int, q <= r
    PROVE  q * s <= r * s
  OBVIOUS

LEMMA NextMultiple ==
    ASSUME NEW s \in Nat1, NEW a \in Int, NEW b \in Int, a % s = 0, b % s = 0, a < b
    PROVE  a + s <= b /\ (a + s) % s = 0
  <1>1. PICK q \in Int : a = q * s
    BY Multiple
  <1>2. PICK r \in Int : b = r * s
    BY Multiple
  <1>3. q < r
    <2>1. SUFFICES ASSUME r <= q PROVE FALSE
      OBVIOUS
    <2>2. r * s <= q * s
      <3>1. s \in Nat
        BY DEF Nat1
      <3> QED  BY <2>1, <3>1, Monotone
    <2>3. b <= a
      BY <1>1, <1>2, <2>2
    <2> QED  BY <2>3
  <1>4. (q + 1) * s <= r * s
    <2>1. s \in Nat /\ q + 1 \in Int /\ q + 1 <= r
      BY <1>3 DEF Nat1
    <2> QED  BY <2>1, Monotone
  <1>5. a + s = (q + 1) * s
    BY <1>1 DEF Nat1
  <1>6. ((q + 1) * s) % s = 0
    <2> DEFINE n == q + 1
    <2>1. n \in Int /\ s \in Nat /\ s > 0
      BY DEF Nat1
    <2> HIDE DEF n
    <2>2. (n * s) % s = 0
      BY <2>1
    <2> QED  BY <2>2 DEF n
  <1> QED  BY <1>2, <1>4, <1>5, <1>6

LEMMA InBlock ==
    ASSUME NEW k \in 0..(RowsPerSector - 1)
    PROVE  k * RowBytes \in Nat /\ k * RowBytes + RowBytes <= SectorBytes
  <1>1. RowBytes \in Nat1 /\ SectorBytes \in Nat1 /\ SectorBytes % RowBytes = 0
    BY Sizes
  <1>2. SectorBytes = RowsPerSector * RowBytes /\ RowsPerSector \in Int
    BY <1>1 DEF RowsPerSector, Nat1
  <1>3. k * RowBytes \in Nat
    BY <1>1 DEF Nat1
  <1>4. (k + 1) * RowBytes <= RowsPerSector * RowBytes
    BY <1>1, <1>2 DEF Nat1
  <1> QED  BY <1>1, <1>2, <1>3, <1>4 DEF Nat1

LEMMA InCluster ==
    ASSUME NEW n \in Nat, NEW z \in Nat1, NEW c \in 0..(n - 1), NEW r \in 0..(z - 1)
    PROVE  c * z + r \in 0..(n * z - 1)
  <1>1. c * z \in Nat
    BY DEF Nat1
  <1>2. (c + 1) * z <= n * z
    BY DEF Nat1
  <1> QED  BY <1>1, <1>2 DEF Nat1

LEMMA Rows == 0 \in 0..(RowsPerSector - 1)
  <1>1. RowBytes \in Nat1 /\ SectorBytes \in Nat1 /\ SectorBytes % RowBytes = 0
    BY Sizes
  <1>2. SectorBytes = RowsPerSector * RowBytes /\ RowsPerSector \in Int
    BY <1>1 DEF RowsPerSector, Nat1
  <1>3. RowsPerSector > 0
    <2>1. SUFFICES ASSUME RowsPerSector <= 0 PROVE FALSE
      BY <1>2
    <2>2. RowBytes \in Nat
      BY <1>1 DEF Nat1
    <2>3. RowsPerSector * RowBytes <= 0 * RowBytes
      BY <1>2, <2>1, <2>2, Monotone
    <2> QED  BY <1>1, <1>2, <2>2, <2>3 DEF Nat1
  <1> QED  BY <1>2, <1>3

-----------------------------------------------------------------------------
(* Where a row lies *)

LEMMA RowBehindBoot ==
    ASSUME Place, pc \in LoaderBlock
    PROVE  Row \cap Boot = {}
  <1>1. row * RowBytes \in Nat
    BY InBlock DEF Place
  <1>2. address \in Nat /\ AppBase <= address /\ AppBase \in Nat /\ RowBytes \in Nat
    BY Sizes DEF Place, Nat1
  <1>3. ASSUME NEW a \in Row PROVE a >= AppBase
    BY <1>1, <1>2 DEF Row, RowBase
  <1> QED  BY <1>2, <1>3 DEF Boot

LEMMA RowInBoot ==
    ASSUME Place, pc \in UpdaterBlock
    PROVE  Row \cap App = {}
  <1>1. row * RowBytes \in Nat /\ row * RowBytes + RowBytes <= SectorBytes
    BY InBlock DEF Place
  <1>2. address \in Nat /\ address < AppBase /\ address % SectorBytes = 0
    BY DEF Place
  <1>3. /\ SectorBytes \in Nat1 /\ AppBase \in Nat1 /\ AppBase % SectorBytes = 0
        /\ RowBytes \in Nat1 /\ Top \in Nat1
    BY Sizes
  <1>4. address + SectorBytes <= AppBase
    <2>1. address \in Int /\ AppBase \in Int
      BY <1>2, <1>3 DEF Nat1
    <2> QED  BY <1>2, <1>3, <2>1, NextMultiple
  <1>5. ASSUME NEW a \in Row PROVE a < AppBase
    BY <1>1, <1>2, <1>3, <1>4 DEF Row, RowBase, Nat1
  <1> QED  BY <1>3, <1>5 DEF App, Nat1

-----------------------------------------------------------------------------
(* The invariant *)

LEMMA InitIInv == Init => IInv
  <1>1. SectorBytes \in Nat1
    BY Sizes
  <1>2. 0 % SectorBytes = 0
    BY <1>1 DEF Nat1
  <1> QED  BY <1>2, Rows DEF Init, IInv, Place, Reset, LoaderBlock, UpdaterBlock, Reprogramming

\* The steps that leave the block and the configuration alone.
Steady == UNCHANGED <<address, row, config>>

LEMMA SteadyStep ==
    ASSUME IInv, Steady, pc' \in LoaderBlock => pc \in LoaderBlock,
           pc' \in UpdaterBlock => pc \in UpdaterBlock,
           pc' \in Reprogramming => pc \in Reprogramming
    PROVE  IInv'
  BY DEF IInv, Place, Reset, Steady

\* The next row of a block, or the first of the next block.
LEMMA RowStep ==
    ASSUME IInv, NEW here, NEW again, NEW next, WriteRow(here, again, next)
    PROVE  /\ address' \in Nat /\ row' \in 0..(RowsPerSector - 1)
           /\ address' % SectorBytes = 0
           /\ \/ address' = address /\ pc' = again
              \/ address' = address + SectorBytes /\ pc' = next
  <1>1. SectorBytes \in Nat1 /\ SectorBytes % RowBytes = 0 /\ RowBytes \in Nat1
    BY Sizes
  <1>2. address \in Nat /\ row \in 0..(RowsPerSector - 1) /\ address % SectorBytes = 0
    BY DEF IInv, Place
  <1>3. (address + SectorBytes) % SectorBytes = 0
    <2>1. PICK q \in Int : address = q * SectorBytes
      BY <1>1, <1>2, Multiple
    <2> DEFINE n == q + 1
    <2>2. address + SectorBytes = n * SectorBytes /\ n \in Int
      BY <1>1, <2>1 DEF Nat1
    <2> HIDE DEF n
    <2>3. (n * SectorBytes) % SectorBytes = 0
      BY <1>1, <2>2 DEF Nat1
    <2> QED  BY <2>2, <2>3
  <1>4. CASE row + 1 < RowsPerSector
    <2>1. RowsPerSector \in Int
      BY <1>1 DEF RowsPerSector, Nat1
    <2> QED  BY <1>2, <1>4, <2>1 DEF WriteRow
  <1>5. CASE ~(row + 1 < RowsPerSector)
    BY <1>1, <1>2, <1>3, <1>5, Rows DEF WriteRow, Nat1
  <1> QED  BY <1>4, <1>5

LEMMA PhasesApart ==
    /\ LoaderBlock \cap UpdaterBlock = {} /\ LoaderBlock \cap Reprogramming = {}
    /\ UpdaterBlock \subseteq Reprogramming
  BY DEF LoaderBlock, UpdaterBlock, Reprogramming

\* The first row of a block.
LEMMA Begin ==
    ASSUME address' \in {0, AppBase}, row' = 0,
           pc' \in LoaderBlock => address' = AppBase,
           pc' \in UpdaterBlock => address' = 0
    PROVE  Place'
  <1>1. AppBase \in Nat /\ AppBase > 0 /\ AppBase % SectorBytes = 0 /\ 0 % SectorBytes = 0
    BY Sizes DEF Nat1
  <1>2. row' \in 0..(RowsPerSector - 1)
    BY Rows
  <1>3. address' \in Nat /\ address' % SectorBytes = 0
    BY <1>1
  <1> QED  BY <1>1, <1>2, <1>3 DEF Place

LEMMA LoaderSteps ==
    ASSUME IInv, BootLoader
    PROVE  IInv'
  <1> USE DEF LoaderBlock, UpdaterBlock, Reprogramming, block, storage, loader, updater
  <1>1. CASE main
    BY <1>1, SteadyStep DEF main, Leave, Steady
  <1>2. CASE disk_initialise
    BY <1>2, SteadyStep DEF disk_initialise, Leave, Steady
  <1>3. CASE mount
    BY <1>3, SteadyStep DEF mount, Leave, Steady
  <1>4. CASE ScanSector
    BY <1>4, SteadyStep DEF ScanSector, Leave, Steady
  <1>5. CASE ReadHeader
    <2>1. address' = AppBase /\ row' = 0 /\ config' = config
      BY <1>5 DEF ReadHeader
    <2>2. pc' \in {"start", "read"}
      BY <1>5 DEF ReadHeader, Leave
    <2>3. Place'
      BY <2>1, <2>2, Begin
    <2>4. Reset'
      BY <2>2 DEF Reset
    <2> QED  BY <2>3, <2>4 DEF IInv
  <1>6. CASE ReadSector
    BY <1>6, SteadyStep DEF ReadSector, Steady
  <1>7. CASE EraseApp
    BY <1>7, SteadyStep DEF EraseApp, EraseRow, Steady
  <1>8. CASE WriteApp
    <2> DEFINE next == IF address + SectorBytes < stop THEN "read" ELSE "start"
    <2>1. WriteRow("write", "erase", next) /\ config' = config
      BY <1>8 DEF WriteApp
    <2>2. pc = "write" /\ next \in {"read", "start"}
      BY <2>1 DEF WriteRow
    <2> HIDE DEF next
    <2>3. /\ address' \in Nat /\ row' \in 0..(RowsPerSector - 1)
          /\ address' % SectorBytes = 0
          /\ \/ address' = address /\ pc' = "erase"
             \/ address' = address + SectorBytes /\ pc' = next
      BY <2>1, RowStep
    <2>4. AppBase <= address' /\ RowsPerSector' = RowsPerSector
      <3>1. address \in Nat /\ AppBase <= address
        BY <2>2 DEF IInv, Place
      <3> QED  BY <2>3, <3>1, Sizes DEF Nat1, RowsPerSector
    <2>5. pc' \in {"erase", "read", "start"}
      BY <2>2, <2>3
    <2>6. Place'
      BY <2>3, <2>4, <2>5 DEF Place
    <2> QED  BY <2>5, <2>6 DEF IInv, Reset
  <1>9. CASE EnterFirmware
    <2>1. address' = 0 /\ row' = 0 /\ config' = config
      BY <1>9 DEF EnterFirmware, ForgetAll
    <2>2. pc' \in {"reset", "firmware", "reset config", "dead"}
      BY <1>9, Zenon DEF EnterFirmware
    <2>3. Place'
      BY <2>1, <2>2, Begin
    <2>4. Reset'
      BY <2>2 DEF Reset
    <2> QED  BY <2>3, <2>4 DEF IInv
  <1> QED  BY <1>1, <1>2, <1>3, <1>4, <1>5, <1>6, <1>7, <1>8, <1>9 DEF BootLoader

LEMMA UpdaterSteps ==
    ASSUME IInv, BootUpdater
    PROVE  IInv'
  <1> USE DEF LoaderBlock, UpdaterBlock, Reprogramming, block, storage, loader, updater
  <1>1. CASE ResetConfig
    BY <1>1 DEF ResetConfig, IInv, Place, Reset, RowsPerSector
  <1>2. CASE pf_mount
    BY <1>2, SteadyStep DEF pf_mount, Steady
  <1>3. CASE pf_open
    <2>1. pc = "pf_open" /\ config' = config
      BY <1>3 DEF pf_open
    <2>2. CASE address' = 0 /\ row' = 0 /\ pc' = "pf_read"
      <3>1. Place'
        BY <2>2, Begin
      <3>2. config'
        BY <2>1, Zenon DEF IInv, Reset
      <3> QED  BY <3>1, <3>2 DEF IInv, Reset
    <2>3. CASE pc' = "bail" /\ UNCHANGED <<address, row>>
      BY <2>1, <2>3, SteadyStep DEF Steady
    <2> QED  BY <1>3, <2>2, <2>3 DEF pf_open
  <1>4. CASE pf_read
    BY <1>4, SteadyStep DEF pf_read, Steady
  <1>5. CASE EraseBoot
    BY <1>5, SteadyStep DEF EraseBoot, EraseRow, Steady
  <1>6. CASE WriteBoot
    <2> DEFINE next == IF address + SectorBytes < AppBase THEN "pf_read" ELSE "blink"
    <2>1. WriteRow("write boot", "erase boot", next) /\ config' = config
      BY <1>6 DEF WriteBoot
    <2>2. pc = "write boot" /\ address < AppBase
      BY <2>1 DEF WriteRow, IInv, Place
    <2>3. (next = "pf_read" /\ address + SectorBytes < AppBase) \/ next = "blink"
      OBVIOUS
    <2> HIDE DEF next
    <2>4. /\ address' \in Nat /\ row' \in 0..(RowsPerSector - 1)
          /\ address' % SectorBytes = 0
          /\ \/ address' = address /\ pc' = "erase boot"
             \/ address' = address + SectorBytes /\ pc' = next
      BY <2>1, RowStep
    <2>5. pc' \in {"erase boot", "pf_read", "blink"}
      BY <2>3, <2>4
    <2>6. pc' # "blink" => address' < AppBase
      BY <2>2, <2>3, <2>4
    <2>7. Place'
      BY <2>4, <2>5, <2>6 DEF Place, RowsPerSector
    <2>8. config'
      BY <2>1, <2>2 DEF IInv, Reset
    <2> QED  BY <2>7, <2>8 DEF IInv, Reset
  <1> QED  BY <1>1, <1>2, <1>3, <1>4, <1>5, <1>6 DEF BootUpdater

LEMMA OtherSteps ==
    ASSUME IInv, SetConfig \/ PowerOff \/ PowerOn \/ UNCHANGED vars
    PROVE  IInv'
  <1> USE DEF LoaderBlock, UpdaterBlock, Reprogramming, block, storage, loader, updater
  <1>1. CASE SetConfig
    BY <1>1 DEF SetConfig, IInv, Place, Reset, RowsPerSector
  <1>2. CASE PowerOff
    <2>1. address' = 0 /\ row' = 0 /\ pc' = "off"
      BY <1>2 DEF PowerOff, ForgetAll
    <2>2. Place'
      BY <2>1, Begin
    <2>3. Reset'
      BY <2>1 DEF Reset
    <2> QED  BY <2>2, <2>3 DEF IInv
  <1>3. CASE PowerOn
    BY <1>3, SteadyStep DEF PowerOn, Steady
  <1>4. CASE UNCHANGED vars
    BY <1>4, SteadyStep DEF vars, Steady
  <1> QED  BY <1>1, <1>2, <1>3, <1>4

LEMMA Invariant == Spec => []IInv
  <1>1. IInv /\ [Next]_vars => IInv'
    BY LoaderSteps, UpdaterSteps, OtherSteps DEF Next
  <1> QED  BY InitIInv, <1>1, PTL DEF Spec

-----------------------------------------------------------------------------
(* The theorems *)

\* Once the updater has started on the boot block, bit 7 of the configuration
\* is set, whatever fails after it: the loader that is there will look for a
\* firmware (WriteEEPROM(0xff, 0xff) in BootUpdater.c).
THEOREM LeavesWayBack == Spec => []WayBack
  <1>1. IInv => WayBack
    BY DEF IInv, Reset, WayBack, Reprogramming, UpdaterBlock
  <1> QED  BY <1>1, Invariant, PTL

\* No byte of the area changes.
Spared(area) == \A a \in area : flash'[a] = flash[a]

LEMMA RowOnly ==
    ASSUME NEW area, area \subseteq Addr, Row \cap area = {},
           \/ flash' = [a \in Addr |-> IF a \in Row THEN Erased ELSE flash[a]]
           \/ flash' = Written
           \/ flash' \in AfterCut
           \/ flash' = flash
    PROVE  Spared(area)
  <1>1. SUFFICES ASSUME NEW a \in area PROVE flash'[a] = flash[a]
    BY DEF Spared
  <1>2. a \in Addr /\ a \notin Row
    OBVIOUS
  <1>3. CASE flash' = [b \in Addr |-> IF b \in Row THEN Erased ELSE flash[b]]
    BY <1>2, <1>3
  <1>4. CASE flash' = Written
    BY <1>2, <1>4 DEF Written
  <1>5. CASE flash' \in AfterCut
    <2>1. \/ flash' = flash
          \/ flash' = [b \in Addr |-> IF b \in Row THEN Junk ELSE flash[b]]
          \/ \E n \in Row : flash' = [b \in Addr |-> IF b \in Row /\ b < n THEN Written[b] ELSE flash[b]]
      BY <1>5, Zenon DEF AfterCut
    <2> QED  BY <1>2, <2>1
  <1> QED  BY <1>1, <1>3, <1>4, <1>5

Writing == {"erase", "write", "erase boot", "write boot"}
InRow ==
    \/ flash' = [a \in Addr |-> IF a \in Row THEN Erased ELSE flash[a]]
    \/ flash' = Written
    \/ flash' \in AfterCut

LEMMA Changes ==
    ASSUME [Next]_vars
    PROVE  flash' = flash \/ (pc \in Writing /\ InRow)
  <1> USE DEF storage
  <1>1. CASE BootLoader
    <2>1. CASE EraseApp
      BY <2>1 DEF EraseApp, EraseRow, Writing, InRow
    <2>2. CASE WriteApp
      BY <2>2 DEF WriteApp, WriteRow, Writing, InRow
    <2>3. CASE ~EraseApp /\ ~WriteApp
      BY <1>1, <2>3 DEF BootLoader, main, disk_initialise, mount, ScanSector, ReadHeader,
                        ReadSector, EnterFirmware
    <2> QED  BY <2>1, <2>2, <2>3
  <1>2. CASE BootUpdater
    <2>1. CASE EraseBoot
      BY <2>1 DEF EraseBoot, EraseRow, Writing, InRow
    <2>2. CASE WriteBoot
      BY <2>2 DEF WriteBoot, WriteRow, Writing, InRow
    <2>3. CASE ~EraseBoot /\ ~WriteBoot
      BY <1>2, <2>3 DEF BootUpdater, ResetConfig, pf_mount, pf_open, pf_read
    <2> QED  BY <2>1, <2>2, <2>3
  <1>3. CASE SetConfig \/ PowerOn \/ UNCHANGED vars
    BY <1>3 DEF SetConfig, PowerOn, vars
  <1>4. CASE PowerOff
    <2>1. flash' \in AfterCut
      BY <1>4 DEF PowerOff
    <2>2. CASE pc \in Writing
      BY <2>1, <2>2 DEF InRow
    <2>3. CASE pc \notin Writing
      <3>1. AfterCut = {flash}
        BY <2>3 DEF AfterCut, Writing
      <3> QED  BY <2>1, <3>1
    <2> QED  BY <2>2, <2>3
  <1> QED  BY <1>1, <1>2, <1>3, <1>4 DEF Next

\* Neither the loader nor the updater changes a byte of the program that runs,
\* whichever reads fail and wherever the power goes: the loader's rows lie
\* behind the boot block, the updater's in it (WriteDataToMemory).
THEOREM FlashSparesItself == Spec => SparesItself
  <1> DEFINE Spares ==
        /\ pc \in LoaderPhases => \A a \in Boot : flash'[a] = flash[a]
        /\ pc \in UpdaterPhases => \A a \in App : flash'[a] = flash[a]
  <1>1. ASSUME IInv, [Next]_vars PROVE Spares
    <2>1. Boot \subseteq Addr /\ App \subseteq Addr
      BY Sizes DEF Boot, App, Addr, Nat1
    <2>2. ASSUME pc \in LoaderPhases PROVE \A a \in Boot : flash'[a] = flash[a]
      <3>1. CASE flash' = flash
        BY <3>1
      <3>2. CASE pc \in Writing /\ InRow
        <4>1. pc \in LoaderBlock
          BY <2>2, <3>2 DEF LoaderPhases, Writing, LoaderBlock
        <4>2. Row \cap Boot = {}
          BY <1>1, <4>1, RowBehindBoot DEF IInv
        <4>3. Spared(Boot)
          BY <2>1, <3>2, <4>2, RowOnly DEF InRow
        <4> QED  BY <4>3 DEF Spared
      <3> QED  BY <1>1, <3>1, <3>2, Changes
    <2>3. ASSUME pc \in UpdaterPhases PROVE \A a \in App : flash'[a] = flash[a]
      <3>1. CASE flash' = flash
        BY <3>1
      <3>2. CASE pc \in Writing /\ InRow
        <4>1. pc \in UpdaterBlock
          BY <2>3, <3>2 DEF UpdaterPhases, Writing, UpdaterBlock
        <4>2. Row \cap App = {}
          BY <1>1, <4>1, RowInBoot DEF IInv
        <4>3. Spared(App)
          BY <2>1, <3>2, <4>2, RowOnly DEF InRow
        <4> QED  BY <4>3 DEF Spared
      <3> QED  BY <1>1, <3>1, <3>2, Changes
    <2> QED  BY <2>2, <2>3
  <1>2. IInv /\ [Next]_vars => [Spares]_vars
    BY <1>1
  <1> QED  BY <1>2, Invariant, PTL DEF Spec, SparesItself

-----------------------------------------------------------------------------
(* What flash and buffer hold *)

EntrySet == (UNION {{v.dir[i] : i \in DOMAIN v.dir} : v \in Cards}) \cup {NoEntry, NoMore}
Headers == [0..(CrcBytes - 1) -> Content]
SectorsOfBytes == [0..(SectorBytes - 1) -> Content]

LEMMA BuffersAre ==
    Buffers = [entries : [0..(PerSector - 1) -> EntrySet], header : Headers,
               bytes : SectorsOfBytes]
  BY DEF Buffers, EntrySet, Headers, SectorsOfBytes

LEMMA EntryIs ==
    ASSUME NEW e \in EntrySet
    PROVE  e.start \in Nat /\ e.size \in 0..(SectorBytes + Top - AppBase)
  <1>1. CASE e \in {NoEntry, NoMore}
    <2>1. SectorBytes + Top - AppBase \in Nat
      BY Sizes DEF Nat1
    <2>2. e.start = 0 /\ e.size = 0
      <3>1. NoEntry.start = 0 /\ NoEntry.size = 0
        BY DEF NoEntry
      <3>2. NoMore.start = 0 /\ NoMore.size = 0
        BY DEF NoMore
      <3> QED  BY <1>1, <3>1, <3>2
    <2> QED  BY <2>1, <2>2
  <1>2. CASE e \notin {NoEntry, NoMore}
    <2>1. PICK v \in Cards : e \in {v.dir[i] : i \in DOMAIN v.dir}
      BY <1>2 DEF EntrySet
    <2>2. PICK i \in DOMAIN v.dir : e = v.dir[i]
      BY <2>1
    <2>3. v.dir \in [0..(v.listed - 1) ->
                       [name : {"", "end", "firmware", "loader", "other"},
                        start : 0..LastCluster(v),
                        size : 0..(SectorBytes + Top - AppBase)]]
      BY CardsAssumption, Zenon
    <2>4. LastCluster(v) \in Nat
      <3>1. v.clusters \in Nat
        BY CardsAssumption, Zenon
      <3> QED  BY <3>1 DEF LastCluster
    <2>5. e \in [name : {"", "end", "firmware", "loader", "other"},
                 start : 0..LastCluster(v), size : 0..(SectorBytes + Top - AppBase)]
      BY <2>2, <2>3
    <2>6. e.start \in 0..LastCluster(v) /\ e.size \in 0..(SectorBytes + Top - AppBase)
      BY <2>5, Zenon
    <2> QED  BY <2>4, <2>6
  <1> QED  BY <1>1, <1>2

LEMMA ContentHas == Junk \in Content /\ Erased \in Content
  BY DEF Content

LEMMA NothingIs == NoHeader \in Headers /\ AllJunk \in SectorsOfBytes
  BY ContentHas DEF NoHeader, AllJunk, Headers, SectorsOfBytes

LEMMA OtherIs == OtherSector \in Buffers
  <1>1. NoEntries \in [0..(PerSector - 1) -> EntrySet]
    BY DEF NoEntries, EntrySet
  <1> QED  BY <1>1, NothingIs, BuffersAre DEF OtherSector

LEMMA DirectoryIs ==
    ASSUME NEW v \in Cards, NEW k
    PROVE  DirSector(v, k) \in Buffers
  <1>1. ASSUME NEW i \in DOMAIN v.dir PROVE v.dir[i] \in EntrySet
    BY DEF EntrySet
  <1>2. NoMore \in EntrySet
    BY DEF EntrySet
  <1>3. [i \in 0..(PerSector - 1) |->
            IF k * PerSector + i \in DOMAIN v.dir
            THEN v.dir[k * PerSector + i] ELSE NoMore] \in [0..(PerSector - 1) -> EntrySet]
    BY <1>1, <1>2
  <1> QED  BY <1>3, NothingIs, BuffersAre DEF DirSector

LEMMA MemoryIs ==
    ASSUME NEW p \in Programs
    PROVE  Memory(p) \in [Addr -> Content]
  <1>1. ASSUME NEW a \in Addr
        PROVE  (IF a \in Span(p) THEN <<p, a>> ELSE Erased) \in Content
    BY <1>1 DEF Content
  <1> QED  BY <1>1 DEF Memory

LEMMA CheckedIs ==
    ASSUME NEW mem \in [Addr -> Content]
    PROVE  Checked(mem) \in Headers
  <1>1. ASSUME NEW i \in 0..(CrcBytes - 1) PROVE AppBase + i \in Addr
    BY Sizes DEF Addr, Nat1
  <1> QED  BY <1>1 DEF Checked, Headers

LEMMA RoundedUp ==
    ASSUME NEW n \in Nat, n < Top
    PROVE  RoundUp(n) \in Int /\ RoundUp(n) <= Top
  <1>1. PageBytes \in Nat1 /\ Top \in Int /\ Top % PageBytes = 0
    BY Sizes DEF Nat1
  <1>2. PICK q \in Int : Top = q * PageBytes
    BY <1>1, Multiple
  <1> DEFINE d == (n + PageBytes - 1) \div PageBytes
  <1>3. d \in Int /\ d * PageBytes <= n + PageBytes - 1
    <2> DEFINE x == n + PageBytes - 1
    <2>1. x \in Int /\ PageBytes \in Int /\ PageBytes > 0
      BY <1>1 DEF Nat1
    <2> HIDE DEF x
    <2>2. x = PageBytes * (x \div PageBytes) + (x % PageBytes)
          /\ x % PageBytes \in 0..(PageBytes - 1) /\ x \div PageBytes \in Int
      BY <2>1
    <2>3. (x \div PageBytes) * PageBytes = PageBytes * (x \div PageBytes)
      BY <2>1, <2>2
    <2>4. x \div PageBytes \in Int /\ (x \div PageBytes) * PageBytes <= x
      BY <2>1, <2>2, <2>3
    <2> QED  BY <2>4 DEF x
  <1> HIDE DEF d
  <1>4. d <= q
    <2>1. SUFFICES ASSUME q + 1 <= d PROVE FALSE
      BY <1>2, <1>3
    <2>2. (q + 1) * PageBytes <= d * PageBytes
      <3>1. PageBytes \in Nat /\ q + 1 \in Int
        BY <1>1, <1>2 DEF Nat1
      <3> QED  BY <1>3, <2>1, <3>1, Monotone
    <2>3. (q + 1) * PageBytes = Top + PageBytes
      BY <1>1, <1>2 DEF Nat1
    <2> QED  BY <1>1, <1>3, <2>2, <2>3 DEF Nat1
  <1>5. d * PageBytes <= Top /\ d * PageBytes \in Int
    <2>1. PageBytes \in Nat
      BY <1>1 DEF Nat1
    <2> QED  BY <1>2, <1>3, <1>4, <2>1, Monotone
  <1> QED  BY <1>5 DEF RoundUp, d

LEMMA FileByteIs ==
    ASSUME NEW p \in Programs, NEW k \in Nat, NEW i \in 0..(SectorBytes - 1)
    PROVE  FileByte(p, k, i) \in Content
  <1> DEFINE offset == k * SectorBytes + i
  <1>1. offset \in Nat
    BY Sizes DEF Nat1
  <1>2. Bytes[p] \in Nat1 /\ (Role[p] # "loader" => Bytes[p] <= Top - AppBase)
    BY ProgramsAssumption
  <1> HIDE DEF offset
  <1>3. CASE offset < HeaderBytes(p) \/ offset >= FileSize(p)
    BY <1>3, ContentHas DEF FileByte, offset
  <1>4. CASE ~(offset < HeaderBytes(p) \/ offset >= FileSize(p))
    <2>1. Base(p) + offset - HeaderBytes(p) \in Addr
      <3>1. CASE Role[p] = "loader"
        BY <1>1, <1>4, <3>1, Sizes DEF Base, HeaderBytes, FileSize, Addr, Nat1
      <3>2. CASE Role[p] # "loader"
        <4>1. AppBase + Bytes[p] - 1 \in Nat /\ AppBase + Bytes[p] - 1 < Top
          BY <1>2, <3>2, Sizes DEF Nat1
        <4>2. RoundUp(AppBase + Bytes[p] - 1) \in Int /\ RoundUp(AppBase + Bytes[p] - 1) <= Top
          BY <4>1, RoundedUp
        <4> DEFINE r == RoundUp(AppBase + Bytes[p] - 1)
        <4>3. FileSize(p) = SectorBytes + r - AppBase /\ HeaderBytes(p) = SectorBytes
              /\ Base(p) = AppBase
          BY <3>2 DEF FileSize, HeaderBytes, Base
        <4> HIDE DEF r
        <4>4. r \in Int /\ r <= Top
          BY <4>2 DEF r
        <4> QED  BY <1>1, <1>4, <4>3, <4>4, Sizes DEF Addr, Nat1
      <3> QED  BY <3>1, <3>2
    <2>2. Memory(p)[Base(p) + offset - HeaderBytes(p)] \in Content
      BY <2>1, MemoryIs
    <2> QED  BY <1>4, <2>2 DEF FileByte, offset
  <1> QED  BY <1>3, <1>4

LEMMA DataIs ==
    ASSUME NEW v \in Cards, NEW s \in DOMAIN v.data
    PROVE  DataSector(v, s) \in Buffers
  <1>1. v.data[s] \in [of : Programs, k : Nat] \cup {NoSector}
    BY CardsAssumption
  <1>2. CASE v.data[s] = NoSector
    BY <1>2, OtherIs DEF DataSector
  <1>3. CASE v.data[s] # NoSector
    <2> DEFINE f == v.data[s]
    <2>1. f \in [of : Programs, k : Nat]
      BY <1>1, <1>3
    <2> HIDE DEF f
    <2>2. f.of \in Programs /\ f.k \in Nat
      BY <2>1
    <2>3. (IF HeaderBytes(f.of) > 0 /\ f.k = 0 THEN Checked(Memory(f.of)) ELSE NoHeader)
            \in Headers
      BY <2>2, MemoryIs, CheckedIs, NothingIs
    <2>4. [i \in 0..(SectorBytes - 1) |-> FileByte(f.of, f.k, i)] \in SectorsOfBytes
      BY <2>2, FileByteIs DEF SectorsOfBytes
    <2>5. NoEntries \in [0..(PerSector - 1) -> EntrySet]
      BY DEF NoEntries, EntrySet
    <2>6. DataSector(v, s) =
            [entries |-> NoEntries,
             header |-> IF HeaderBytes(f.of) > 0 /\ f.k = 0
                        THEN Checked(Memory(f.of)) ELSE NoHeader,
             bytes |-> [i \in 0..(SectorBytes - 1) |-> FileByte(f.of, f.k, i)]]
      BY <1>3 DEF DataSector, f
    <2> QED  BY <2>3, <2>4, <2>5, <2>6, BuffersAre
  <1> QED  BY <1>2, <1>3

-----------------------------------------------------------------------------
(* Type correctness *)

DataOK == flash \in [Addr -> Content] /\ buf \in Buffers /\ card \in Cards
FlagsOK ==
    /\ config \in BOOLEAN /\ clean \in BOOLEAN /\ trusted \in BOOLEAN /\ brickable \in BOOLEAN
    /\ pc \in Phases
    /\ outcome \in {"none", "not asked", "no card", "no file", "refused", "same", "flashed"}
CountsOK ==
    /\ sector \in Int /\ n_rootdir \in Nat /\ stop \in Int /\ address \in 0..Top
    /\ tries \in 0..MaxMountTries /\ mishaps \in 0..MaxMishaps
FileOK == fs \in [open : BOOLEAN, size : Nat, fptr : Nat, clust : Nat]

\* The loader stops at the end of the flash, and a try is left to mount.
Bounds ==
    /\ stop <= Top
    /\ pc \in LoaderBlock => address < stop
    /\ pc \in {"reset config", "pf_mount"} => tries < MaxMountTries

Types == DataOK /\ FlagsOK /\ CountsOK /\ FileOK /\ Bounds

LEMMA TypesMean == Place /\ Types => TypeOK
  BY DEF Place, Types, DataOK, FlagsOK, CountsOK, FileOK, TypeOK

LEMMA WrittenIs ==
    ASSUME Place, DataOK
    PROVE  Written \in [Addr -> Content]
  <1>1. buf.bytes \in SectorsOfBytes
    BY BuffersAre, Zenon DEF DataOK
  <1>2. row * RowBytes \in Nat /\ row * RowBytes + RowBytes <= SectorBytes
    BY InBlock DEF Place
  <1>3. address \in Nat /\ RowBytes \in Nat /\ SectorBytes \in Nat
    BY Sizes DEF Place, Nat1
  <1>4. ASSUME NEW a \in Row PROVE a - address \in 0..(SectorBytes - 1)
    BY <1>2, <1>3 DEF Row, RowBase
  <1>5. ASSUME NEW a \in Addr
        PROVE  (IF a \in Row THEN buf.bytes[a - address] ELSE flash[a]) \in Content
    BY <1>1, <1>4 DEF SectorsOfBytes, DataOK
  <1> QED  BY <1>5 DEF Written

LEMMA FlashStep ==
    ASSUME Place, DataOK, [Next]_vars
    PROVE  flash' \in [Addr -> Content]
  <1>1. flash \in [Addr -> Content] /\ Written \in [Addr -> Content]
    BY WrittenIs DEF DataOK
  <1>2. CASE flash' = [a \in Addr |-> IF a \in Row THEN Erased ELSE flash[a]]
    BY <1>1, <1>2, ContentHas
  <1>3. CASE flash' \in AfterCut
    <2>1. \/ flash' = flash
          \/ flash' = [a \in Addr |-> IF a \in Row THEN Junk ELSE flash[a]]
          \/ \E n \in Row : flash' = [a \in Addr |-> IF a \in Row /\ a < n THEN Written[a] ELSE flash[a]]
      BY <1>3, Zenon DEF AfterCut
    <2> QED  BY <1>1, <2>1, ContentHas
  <1> QED  BY <1>1, <1>2, <1>3, Changes DEF InRow

LEMMA SectorThere ==
    ASSUME NEW v \in Cards, FileOK, NEW c \in 2..LastCluster(v)
    PROVE  FirstSector(v, c) + SectorInCluster(v) \in DOMAIN v.data
  <1>1. v.csize \in Nat1 /\ v.clusters \in Nat
    BY CardsAssumption, Zenon
  <1>2. v.data \in [0..(v.clusters * v.csize - 1) ->
                       [of : Programs, k : Nat] \cup {NoSector}]
    BY CardsAssumption, Zenon
  <1> DEFINE q == fs.fptr \div SectorBytes
             z == v.csize
             r == q % z
  <1>3. q \in Int
    <2>1. fs.fptr \in Nat
      BY DEF FileOK
    <2> QED  BY <2>1, Sizes DEF Nat1
  <1> HIDE DEF q
  <1>4. z \in Nat1
    BY <1>1
  <1> HIDE DEF z
  <1>5. r \in 0..(z - 1)
    BY <1>3, <1>4 DEF Nat1
  <1>6. c - 2 \in 0..(v.clusters - 1)
    BY <1>1 DEF LastCluster
  <1> HIDE DEF r
  <1>7. (c - 2) * z + r \in 0..(v.clusters * z - 1)
    BY <1>1, <1>4, <1>5, <1>6, InCluster
  <1>8. FirstSector(v, c) + SectorInCluster(v) = (c - 2) * z + r
    BY DEF FirstSector, SectorInCluster, q, z, r
  <1> QED  BY <1>2, <1>7, <1>8 DEF z

LEMMA BytesChanged ==
    ASSUME NEW E, NEW H, NEW S, NEW b \in [entries : E, header : H, bytes : S], NEW x \in S
    PROVE  [b EXCEPT !.bytes = x] \in [entries : E, header : H, bytes : S]
  OBVIOUS

LEMMA PartIs ==
    ASSUME NEW b \in Buffers, NEW n, buf \in Buffers
    PROVE  Part(b, n) \in Buffers
  <1>1. b.bytes \in SectorsOfBytes /\ buf.bytes \in SectorsOfBytes
    BY BuffersAre, Zenon
  <1> DEFINE x == [i \in 0..(SectorBytes - 1) |-> IF i < n THEN b.bytes[i] ELSE buf.bytes[i]]
  <1>2. x \in SectorsOfBytes
    BY <1>1 DEF SectorsOfBytes
  <1>3. Part(b, n) = [b EXCEPT !.bytes = x]
    BY DEF Part
  <1> HIDE DEF x
  <1> QED  BY <1>2, <1>3, BytesChanged, BuffersAre

LEMMA BufferStep ==
    ASSUME DataOK, FileOK, [Next]_vars
    PROVE  buf' \in Buffers
  <1> USE DEF storage
  <1>1. buf \in Buffers /\ card \in Cards
    BY DEF DataOK
  <1>2. CASE buf' = buf \/ buf' = OtherSector
    BY <1>1, <1>2, OtherIs
  <1>3. CASE ScanSector
    <2>1. buf' = DirSector(card, sector) \/ buf' = buf
      BY <1>3 DEF ScanSector, ReadInto, Misread
    <2> QED  BY <1>1, <2>1, DirectoryIs
  <1>4. CASE ReadHeader \/ ReadSector
    <2>1. (OnCard(sector) /\ buf' = DataSector(card, sector)) \/ buf' = buf
      BY <1>4, Zenon DEF ReadHeader, ReadSector, ReadInto, Misread
    <2> QED  BY <1>1, <2>1, DataIs DEF OnCard
  <1>5. CASE pf_read
    <2> DEFINE want == Shorter(SectorBytes, fs.size - fs.fptr)
               clust == ClusterAt(card)
               s == FirstSector(card, clust) + SectorInCluster(card)
    <2>1. \/ clust \in 2..LastCluster(card) /\ buf' = Part(DataSector(card, s), want)
          \/ buf' = buf
      BY <1>5, Zenon DEF pf_read, Misread
    <2> HIDE DEF want, clust
    <2>2. CASE clust \in 2..LastCluster(card) /\ buf' = Part(DataSector(card, s), want)
      <3>1. s \in DOMAIN card.data
        BY <1>1, <2>2, SectorThere
      <3>2. DataSector(card, s) \in Buffers
        BY <1>1, <3>1, DataIs
      <3> QED  BY <1>1, <2>2, <3>2, PartIs
    <2> QED  BY <1>1, <2>1, <2>2
  <1>6. CASE BootLoader /\ ~ScanSector /\ ~ReadHeader /\ ~ReadSector
    BY <1>2, <1>6 DEF BootLoader, main, disk_initialise, mount, EraseApp, EraseRow, WriteApp,
                      EnterFirmware, ForgetAll
  <1>7. CASE BootUpdater /\ ~pf_read
    BY <1>2, <1>7 DEF BootUpdater, ResetConfig, pf_mount, pf_open, EraseBoot, EraseRow,
                      WriteBoot
  <1>8. CASE SetConfig \/ PowerOff \/ PowerOn \/ UNCHANGED vars
    BY <1>2, <1>8 DEF SetConfig, PowerOff, PowerOn, ForgetAll, vars
  <1> QED  BY <1>3, <1>4, <1>5, <1>6, <1>7, <1>8 DEF Next

LEMMA DataStep ==
    ASSUME Place, DataOK, FileOK, [Next]_vars
    PROVE  DataOK'
  <1>1. card' \in Cards
    <2>1. card' = card \/ card' \in Cards
      BY Zenon DEF Next, BootLoader, BootUpdater, main, disk_initialise, mount, ScanSector,
         ReadHeader, ReadSector, EraseApp, EraseRow, WriteApp, EnterFirmware, ResetConfig,
         pf_mount, pf_open, pf_read, EraseBoot, WriteBoot, SetConfig, PowerOff, PowerOn,
         storage, vars
    <2> QED  BY <2>1 DEF DataOK
  <1> QED  BY <1>1, FlashStep, BufferStep DEF DataOK

LEMMA FlagsStep ==
    ASSUME FlagsOK, [Next]_vars
    PROVE  FlagsOK'
  <1> USE DEF storage, block, loader, updater, seen, ghosts, Phases, LoaderPhases, UpdaterPhases
  <1>1. CASE BootLoader
    <2>1. config' = config /\ brickable' = brickable
      BY <1>1, Zenon DEF BootLoader, main, disk_initialise, mount, ScanSector, ReadHeader,
         ReadSector, EraseApp, EraseRow, WriteApp, EnterFirmware
    <2>2. clean' = clean \/ clean' = FALSE \/ clean' = TRUE
      BY <1>1, Zenon DEF BootLoader, main, disk_initialise, mount, ScanSector, ReadHeader,
         ReadSector, ReadInto, Misread, EraseApp, EraseRow, WriteApp, EnterFirmware, ForgetAll
    <2>3. trusted' \in BOOLEAN
      <3>1. trusted' = trusted \/ trusted' = FALSE \/ trusted' = (clean /\ Usable)
        BY <1>1, Zenon DEF BootLoader, main, disk_initialise, mount, ScanSector, ReadHeader,
           ReadSector, EraseApp, EraseRow, WriteApp, EnterFirmware
      <3> QED  BY <3>1, Zenon DEF FlagsOK
    <2>4. pc' \in Phases
      BY <1>1, Zenon DEF BootLoader, main, disk_initialise, mount, ScanSector, ReadHeader, Leave,
         ReadSector, EraseApp, EraseRow, WriteApp, WriteRow, EnterFirmware
    <2>5. outcome' \in {"none", "not asked", "no card", "no file", "refused", "same", "flashed"}
      BY <1>1, Zenon DEF BootLoader, main, disk_initialise, mount, ScanSector, ReadHeader, Leave,
         ReadSector, EraseApp, EraseRow, WriteApp, EnterFirmware, ForgetAll, FlagsOK
    <2> QED  BY <2>1, <2>2, <2>3, <2>4, <2>5, Zenon DEF FlagsOK
  <1>2. CASE BootUpdater
    <2>1. (config' = config \/ config' = TRUE) /\ trusted' = trusted /\ outcome' = outcome
      BY <1>2, Zenon DEF BootUpdater, ResetConfig, pf_mount, pf_open, pf_read, EraseBoot,
         EraseRow, WriteBoot
    <2>2. clean' = clean \/ clean' = FALSE
      BY <1>2, Zenon DEF BootUpdater, ResetConfig, pf_mount, pf_open, pf_read, Misread, EraseBoot,
         EraseRow, WriteBoot
    <2>3. brickable' = brickable \/ brickable' = TRUE \/ brickable' = FALSE
      BY <1>2, Zenon DEF BootUpdater, ResetConfig, pf_mount, pf_open, pf_read, EraseBoot,
         EraseRow, WriteBoot
    <2>4. pc' \in Phases
      BY <1>2, Zenon DEF BootUpdater, ResetConfig, pf_mount, pf_open, pf_read, EraseBoot,
         EraseRow, WriteBoot, WriteRow
    <2> QED  BY <2>1, <2>2, <2>3, <2>4, Zenon DEF FlagsOK
  <1>3. CASE SetConfig \/ PowerOff \/ PowerOn
    BY <1>3, Zenon DEF SetConfig, PowerOff, PowerOn, ForgetAll, FlagsOK
  <1>4. CASE UNCHANGED vars
    BY <1>4, Zenon DEF vars, FlagsOK
  <1> QED  BY <1>1, <1>2, <1>3, <1>4 DEF Next

LEMMA FileStep ==
    ASSUME DataOK, FileOK, [Next]_vars
    PROVE  FileOK'
  <1> USE DEF storage, block, loader, updater, seen, ghosts
  <1>1. CASE fs' = fs \/ fs' = Closed
    <2>1. Closed \in [open : BOOLEAN, size : Nat, fptr : Nat, clust : Nat]
      BY DEF Closed
    <2> QED  BY <1>1, <2>1, Zenon DEF FileOK
  <1>2. CASE pf_open
    <2>1. CASE fs' = fs
      BY <1>1, <2>1
    <2>2. CASE fs' # fs
      <3>1. PICK i \in Listed(card) :
               fs' = [open |-> TRUE, size |-> card.dir[i].size, fptr |-> 0,
                      clust |-> card.dir[i].start]
        BY <1>2, <2>2, Zenon DEF pf_open
      <3>2. card.dir[i] \in EntrySet
        BY <3>1 DEF Listed, EntrySet, DataOK
      <3>3. card.dir[i].size \in Nat /\ card.dir[i].start \in Nat
        BY <3>2, EntryIs, Sizes DEF Nat1
      <3> QED  BY <3>1, <3>3 DEF FileOK
    <2> QED  BY <2>1, <2>2
  <1>3. CASE pf_read
    <2> DEFINE want == Shorter(SectorBytes, fs.size - fs.fptr)
               clust == ClusterAt(card)
    <2>1. \/ fs' = fs
          \/ fs' = [fs EXCEPT !.open = FALSE]
          \/ /\ want > 0 /\ clust \in 2..LastCluster(card)
             /\ fs' = [fs EXCEPT !.fptr = fs.fptr + want, !.clust = clust]
      BY <1>3, Zenon DEF pf_read
    <2>2. want \in Int
      BY Sizes DEF FileOK, Shorter, Nat1
    <2>3. LastCluster(card) \in Nat
      <3>1. card.clusters \in Nat
        BY CardsAssumption, Zenon DEF DataOK
      <3> QED  BY <3>1 DEF LastCluster
    <2> HIDE DEF want, clust
    <2>4. CASE /\ want > 0 /\ clust \in 2..LastCluster(card)
               /\ fs' = [fs EXCEPT !.fptr = fs.fptr + want, !.clust = clust]
      <3>1. fs.fptr + want \in Nat /\ clust \in Nat
        BY <2>2, <2>3, <2>4 DEF FileOK
      <3> QED  BY <2>4, <3>1 DEF FileOK
    <2>5. CASE fs' = [fs EXCEPT !.open = FALSE]
      BY <2>5 DEF FileOK
    <2> QED  BY <1>1, <2>1, <2>4, <2>5
  <1>4. CASE ~pf_open /\ ~pf_read
    <2>1. fs' = fs \/ fs' = Closed
      BY <1>4, Zenon DEF Next, BootLoader, BootUpdater, main, disk_initialise, mount, ScanSector,
         ReadHeader, ReadSector, EraseApp, EraseRow, WriteApp, EnterFirmware, ForgetAll,
         ResetConfig, pf_mount, EraseBoot, WriteBoot, SetConfig, PowerOff, PowerOn, vars
    <2> QED  BY <1>1, <2>1
  <1> QED  BY <1>2, <1>3, <1>4

\* A row number and a block that goes on are inside the flash.
LEMMA NextBlock ==
    ASSUME Place, Types, NEW e \in {AppBase, Top}, address < e
    PROVE  address + SectorBytes \in 0..Top
  <1>1. SectorBytes \in Nat1 /\ address \in Nat /\ address \in Int /\ address % SectorBytes = 0
    BY Sizes DEF Place, Nat1
  <1>2. e \in Int /\ e % SectorBytes = 0 /\ e <= Top /\ Top \in Int /\ SectorBytes \in Nat
    BY Sizes DEF Nat1
  <1>3. address + SectorBytes <= e
    BY <1>1, <1>2, NextMultiple
  <1>4. address + SectorBytes \in Nat
    BY <1>1, <1>2
  <1> QED  BY <1>2, <1>3, <1>4

CountsAndBounds == CountsOK /\ Bounds

LEMMA Still ==
    ASSUME CountsAndBounds, UNCHANGED <<sector, n_rootdir, stop, address, tries, mishaps>>,
           pc' \in LoaderBlock => pc \in LoaderBlock,
           pc' \notin {"reset config", "pf_mount"}
    PROVE  CountsAndBounds'
  BY DEF CountsAndBounds, CountsOK, Bounds

LEMMA Forgotten ==
    ASSUME CountsAndBounds, ForgetAll, mishaps' \in 0..MaxMishaps, pc' \notin LoaderBlock
    PROVE  CountsAndBounds'
  <1>1. /\ sector' = 0 /\ n_rootdir' = 0 /\ address' = 0 /\ stop' = 0 /\ tries' = 0
    BY DEF ForgetAll
  <1>2. Top \in Nat /\ 0 < MaxMountTries /\ MaxMountTries \in Nat
    BY Sizes DEF Nat1
  <1>3. CountsOK'
    BY <1>1, <1>2 DEF CountsOK
  <1>4. Bounds'
    <2>1. stop' <= Top /\ tries' < MaxMountTries
      BY <1>1, <1>2
    <2> QED  BY <2>1, Zenon DEF Bounds
  <1> QED  BY <1>3, <1>4 DEF CountsAndBounds

LEMMA MishapCounts ==
    ASSUME CountsOK, Mishap \/ mishaps' = mishaps
    PROVE  mishaps' \in 0..MaxMishaps
  BY BoundAssumption DEF CountsOK, Mishap

LEMMA MisreadCounts ==
    ASSUME CountsOK, NEW there, Misread(there)
    PROVE  mishaps' \in 0..MaxMishaps
  BY MishapCounts DEF Misread

LEMMA ReadCounts ==
    ASSUME CountsOK, NEW there, NEW contents, ReadInto(there, contents)
    PROVE  mishaps' \in 0..MaxMishaps
  BY MisreadCounts, MishapCounts DEF ReadInto, seen

LEMMA FoundEntry ==
    ASSUME NEW b \in Buffers, NEW i \in Found(b)
    PROVE  b.entries[i].start \in Nat /\ b.entries[i].size \in 0..(SectorBytes + Top - AppBase)
  <1>1. b.entries \in [0..(PerSector - 1) -> EntrySet]
    BY BuffersAre, Zenon
  <1>2. i \in 0..(PerSector - 1)
    BY DEF Found
  <1> QED  BY <1>1, <1>2, EntryIs

LEMMA LoaderCounts ==
    ASSUME Place, Types, BootLoader
    PROVE  CountsAndBounds'
  <1> USE DEF storage, loader, updater, block, seen, LoaderBlock
  <1>0. CountsAndBounds /\ CountsOK /\ card \in Cards /\ MaxMishaps \in Nat
    BY BoundAssumption DEF Types, CountsAndBounds, DataOK
  <1>1. CASE main
    BY <1>0, <1>1, Still DEF main, Leave
  <1>2. CASE disk_initialise
    BY <1>0, <1>2, Still DEF disk_initialise, Leave
  <1>3. CASE mount
    <2>1. CASE UNCHANGED <<sector, n_rootdir>>
      BY <1>0, <1>3, <2>1, Still DEF mount, Leave
    <2>2. CASE sector' = 0 /\ n_rootdir' = card.rootEntries \div PerSector
      <3>1. card.rootEntries \in Nat
        BY <1>0, CardsAssumption, Zenon
      <3>2. n_rootdir' \in Nat
        BY <2>2, <3>1, Sizes DEF Nat1
      <3>3. UNCHANGED <<stop, address, tries, mishaps>>
        BY <1>3 DEF mount
      <3>4. pc' \in {"scan", "start"}
        BY <1>3, Zenon DEF mount, Leave
      <3>5. CountsOK'
        BY <1>0, <2>2, <3>2, <3>3 DEF CountsOK
      <3>6. Bounds'
        BY <1>0, <3>3, <3>4 DEF Bounds, CountsAndBounds
      <3> QED  BY <3>5, <3>6 DEF CountsAndBounds
    <2> QED  BY <1>3, <2>1, <2>2, Zenon DEF mount
  <1>4. CASE ScanSector
    <2>1. mishaps' \in 0..MaxMishaps
      BY <1>0, <1>4, ReadCounts DEF ScanSector
    <2>2. UNCHANGED <<address, tries>> /\ pc' \in {"header", "scan", "start"}
      BY <1>4, Zenon DEF ScanSector, Leave
    <2>3. buf' \in Buffers
      BY <1>4, BufferStep DEF Types, Next, BootLoader
    <2>4. /\ sector' \in Int /\ n_rootdir' \in Nat /\ stop' \in Int /\ stop' <= Top
      <3>1. CASE \E i \in First(buf') :
                   /\ sector' = FirstSector(card, buf'.entries[i].start)
                   /\ stop' = AppBase + buf'.entries[i].size - SectorBytes
                   /\ n_rootdir' = n_rootdir
        <4>1. PICK i \in Found(buf') :
                /\ sector' = FirstSector(card, buf'.entries[i].start)
                /\ stop' = AppBase + buf'.entries[i].size - SectorBytes
                /\ n_rootdir' = n_rootdir
          BY <3>1 DEF First
        <4> DEFINE e == buf'.entries[i]
        <4>2. e.start \in Nat /\ e.size \in 0..(SectorBytes + Top - AppBase)
          BY <2>3, FoundEntry
        <4> HIDE DEF e
        <4>3. sector' = FirstSector(card, e.start) /\ stop' = AppBase + e.size - SectorBytes
          BY <4>1 DEF e
        <4>4. card.csize \in Nat
          <5>1. card.csize \in Nat1
            BY <1>0, CardsAssumption, Zenon
          <5> QED  BY <5>1 DEF Nat1
        <4>5. (e.start - 2) * card.csize \in Int
          BY <4>2, <4>4
        <4>6. sector' \in Int
          BY <4>3, <4>5 DEF FirstSector
        <4>7. stop' \in Int /\ stop' <= Top
          BY <4>2, <4>3, Sizes DEF Nat1
        <4> QED  BY <1>0, <4>1, <4>6, <4>7 DEF CountsOK
      <3>2. CASE sector' = sector + 1 /\ n_rootdir' = LeftAfter(n_rootdir) /\ stop' = stop
        <4>1. n_rootdir \in Nat /\ PerSector \in Nat
          BY <1>0, Sizes DEF CountsOK, Nat1
        <4>2. n_rootdir' \in Nat
          BY <3>2, <4>1 DEF LeftAfter
        <4>3. sector \in Int /\ stop \in Int /\ stop <= Top
          BY <1>0 DEF CountsOK, CountsAndBounds, Bounds
        <4> QED  BY <3>2, <4>2, <4>3
      <3> QED  BY <1>4, <3>1, <3>2, Zenon DEF ScanSector
    <2>5. CountsOK'
      BY <1>0, <2>1, <2>2, <2>4 DEF CountsOK
    <2>6. Bounds'
      BY <2>2, <2>4 DEF Bounds
    <2> QED  BY <2>5, <2>6 DEF CountsAndBounds
  <1>5. CASE ReadHeader
    <2>1. mishaps' \in 0..MaxMishaps
      BY <1>0, <1>5, ReadCounts DEF ReadHeader
    <2>2. /\ UNCHANGED <<stop, n_rootdir, tries>> /\ sector' = sector + 1 /\ address' = AppBase
      BY <1>5, Zenon DEF ReadHeader
    <2>3. pc' = "start" \/ (pc' = "read" /\ AppBase < stop)
      BY <1>5, Zenon DEF ReadHeader, Leave
    <2>4. AppBase \in 0..Top
      BY Sizes DEF Nat1
    <2>5. CountsOK'
      BY <1>0, <2>1, <2>2, <2>4 DEF CountsOK
    <2>6. Bounds'
      BY <1>0, <2>2, <2>3 DEF Bounds, CountsAndBounds
    <2> QED  BY <2>5, <2>6 DEF CountsAndBounds
  <1>6. CASE ReadSector
    <2>1. mishaps' \in 0..MaxMishaps
      BY <1>0, <1>6, ReadCounts DEF ReadSector
    <2>2. /\ UNCHANGED <<stop, n_rootdir, tries, address>> /\ sector' = sector + 1
          /\ pc = "read" /\ pc' = "erase"
      BY <1>6, Zenon DEF ReadSector
    <2>3. CountsOK'
      BY <1>0, <2>1, <2>2 DEF CountsOK
    <2>4. Bounds'
      BY <1>0, <2>2 DEF Bounds, CountsAndBounds
    <2> QED  BY <2>3, <2>4 DEF CountsAndBounds
  <1>7. CASE EraseApp
    BY <1>0, <1>7, Still DEF EraseApp, EraseRow
  <1>8. CASE WriteApp
    <2>1. UNCHANGED <<sector, n_rootdir, stop, tries, mishaps>> /\ pc = "write"
      BY <1>8 DEF WriteApp, WriteRow
    <2>2. \/ address' = address /\ pc' = "erase"
          \/ /\ address' = address + SectorBytes
             /\ (pc' = "read" /\ address + SectorBytes < stop) \/ pc' = "start"
      BY <1>8 DEF WriteApp, WriteRow
    <2>3. address < stop /\ stop <= Top /\ address \in Nat /\ stop \in Int /\ Top \in Int
      BY <1>0, <2>1, Sizes DEF CountsAndBounds, Bounds, CountsOK, Nat1
    <2>4. address + SectorBytes \in 0..Top
      BY <2>3, NextBlock
    <2>5. CountsOK'
      BY <1>0, <2>1, <2>2, <2>4 DEF CountsOK
    <2>6. Bounds'
      BY <1>0, <2>1, <2>2, <2>3 DEF Bounds, CountsAndBounds
    <2> QED  BY <2>5, <2>6 DEF CountsAndBounds
  <1>9. CASE EnterFirmware
    <2>1. pc' \notin LoaderBlock /\ mishaps' = mishaps /\ ForgetAll
      BY <1>9, Zenon DEF EnterFirmware
    <2>2. mishaps' \in 0..MaxMishaps
      BY <1>0, <2>1 DEF CountsOK
    <2> QED  BY <1>0, <2>1, <2>2, Forgotten
  <1> QED  BY <1>1, <1>2, <1>3, <1>4, <1>5, <1>6, <1>7, <1>8, <1>9 DEF BootLoader

LEMMA UpdaterCounts ==
    ASSUME Place, Types, BootUpdater
    PROVE  CountsAndBounds'
  <1> USE DEF storage, loader, updater, block, seen, LoaderBlock
  <1>0. CountsAndBounds /\ CountsOK
    BY DEF Types, CountsAndBounds
  <1>1. CASE ResetConfig
    BY <1>1, <1>0 DEF ResetConfig, CountsAndBounds, CountsOK, Bounds
  <1>2. CASE pf_mount
    <2>1. UNCHANGED <<sector, n_rootdir, stop, address, mishaps>> /\ pc = "pf_mount"
      BY <1>2 DEF pf_mount
    <2>2. \/ pc' = "pf_open" /\ tries' = tries
          \/ tries' = tries + 1 /\ pc' = "pf_mount" /\ tries + 1 < MaxMountTries
          \/ tries' = tries + 1 /\ pc' = "bail"
      BY <1>2 DEF pf_mount
    <2>3. tries \in Nat /\ tries < MaxMountTries /\ MaxMountTries \in Nat
      BY <1>0, <2>1, Sizes DEF CountsAndBounds, CountsOK, Bounds, Nat1
    <2>4. tries' \in 0..MaxMountTries
      BY <2>2, <2>3
    <2>5. CountsOK'
      BY <1>0, <2>1, <2>4 DEF CountsOK
    <2>6. Bounds'
      BY <1>0, <2>1, <2>2 DEF Bounds, CountsAndBounds
    <2> QED  BY <2>5, <2>6 DEF CountsAndBounds
  <1>3. CASE pf_open
    <2>1. /\ UNCHANGED <<sector, n_rootdir, stop, tries, mishaps>>
          /\ address' = 0 \/ address' = address
          /\ pc' \in {"pf_read", "bail"}
      BY <1>3, Zenon DEF pf_open
    <2>2. 0 \in 0..Top
      BY Sizes DEF Nat1
    <2>3. CountsOK'
      BY <1>0, <2>1, <2>2 DEF CountsOK
    <2>4. Bounds'
      BY <1>0, <2>1 DEF Bounds, CountsAndBounds
    <2> QED  BY <2>3, <2>4 DEF CountsAndBounds
  <1>4. CASE pf_read
    <2>1. /\ UNCHANGED <<sector, n_rootdir, stop, address, tries>> /\ pc' = "erase boot"
      BY <1>4, Zenon DEF pf_read
    <2>2. mishaps' = mishaps \/ \E there : Misread(there)
      BY <1>4, Zenon DEF pf_read
    <2>3. mishaps' \in 0..MaxMishaps
      BY <1>0, <2>2, MisreadCounts, MishapCounts
    <2>4. CountsOK'
      BY <1>0, <2>1, <2>3 DEF CountsOK
    <2>5. Bounds'
      BY <1>0, <2>1 DEF Bounds, CountsAndBounds
    <2> QED  BY <2>4, <2>5 DEF CountsAndBounds
  <1>5. CASE EraseBoot
    BY <1>0, <1>5, Still DEF EraseBoot, EraseRow
  <1>6. CASE WriteBoot
    <2>1. UNCHANGED <<sector, n_rootdir, stop, tries, mishaps>> /\ pc = "write boot"
      BY <1>6 DEF WriteBoot, WriteRow
    <2>2. /\ address' = address \/ address' = address + SectorBytes
          /\ pc' \in {"erase boot", "pf_read", "blink"}
      BY <1>6 DEF WriteBoot, WriteRow
    <2>3. address < AppBase
      BY <2>1 DEF Place, UpdaterBlock
    <2>4. address + SectorBytes \in 0..Top
      BY <2>3, NextBlock
    <2>5. CountsOK'
      BY <1>0, <2>1, <2>2, <2>4 DEF CountsOK
    <2>6. Bounds'
      BY <1>0, <2>1, <2>2 DEF Bounds, CountsAndBounds
    <2> QED  BY <2>5, <2>6 DEF CountsAndBounds
  <1> QED  BY <1>1, <1>2, <1>3, <1>4, <1>5, <1>6 DEF BootUpdater

LEMMA OtherCounts ==
    ASSUME Types, SetConfig \/ PowerOff \/ PowerOn \/ UNCHANGED vars
    PROVE  CountsAndBounds'
  <1> USE DEF storage, loader, updater, block, seen, LoaderBlock
  <1>0. CountsAndBounds /\ CountsOK
    BY DEF Types, CountsAndBounds
  <1>1. CASE SetConfig
    BY <1>0, <1>1, Still DEF SetConfig
  <1>2. CASE PowerOff
    <2>1. ForgetAll /\ pc' = "off" /\ (Mishap \/ mishaps' = mishaps)
      BY <1>2, Zenon DEF PowerOff
    <2> QED  BY <1>0, <2>1, MishapCounts, Forgotten
  <1>3. CASE PowerOn
    BY <1>0, <1>3, Still DEF PowerOn
  <1>4. CASE UNCHANGED vars
    BY <1>0, <1>4 DEF vars, CountsAndBounds, CountsOK, Bounds
  <1> QED  BY <1>1, <1>2, <1>3, <1>4

LEMMA InitTypes == Init => Types
  <1> SUFFICES ASSUME Init PROVE Types
    OBVIOUS
  <1>1. DataOK
    <2>1. Memory(Factory) \in [Addr -> Content] /\ Memory(Bodger) \in [Addr -> Content]
      BY ProgramsAssumption, MemoryIs
    <2>2. flash \in [Addr -> Content]
      BY <2>1 DEF Init
    <2> QED  BY <2>2, OtherIs DEF Init, DataOK
  <1>2. FlagsOK
    BY Zenon DEF Init, FlagsOK, Phases
  <1>3. CountsOK /\ Bounds
    <2>1. Top \in Nat /\ MaxMountTries \in Nat /\ MaxMishaps \in Nat
      BY Sizes, BoundAssumption DEF Nat1
    <2> QED  BY <2>1 DEF Init, CountsOK, Bounds, LoaderBlock
  <1>4. FileOK
    BY DEF Init, FileOK, Closed
  <1> QED  BY <1>1, <1>2, <1>3, <1>4 DEF Types

LEMMA Typing == Spec => []Types
  <1>1. IInv /\ Types /\ [Next]_vars => Types'
    <2> SUFFICES ASSUME Place, Types, [Next]_vars PROVE Types'
      BY DEF IInv
    <2>1. DataOK' /\ FileOK' /\ FlagsOK'
      BY DataStep, FileStep, FlagsStep DEF Types
    <2>2. CountsAndBounds'
      BY LoaderCounts, UpdaterCounts, OtherCounts DEF Next
    <2> QED  BY <2>1, <2>2 DEF Types, CountsAndBounds
  <1> QED  BY InitTypes, <1>1, Invariant, PTL DEF Spec

\* Every variable keeps its type, with any cards and any reads that fail: no
\* row behind the end of the flash is erased or written, no byte from outside
\* the sector buffer gets there, and mounting is tried a bounded number of
\* times (BootLoader.c, BootUpdater.c).
THEOREM FlashTypeOK == Spec => []TypeOK
  <1>1. IInv /\ Types => TypeOK
    BY TypesMean DEF IInv
  <1> QED  BY <1>1, Invariant, Typing, PTL

-----------------------------------------------------------------------------
(* The boot block: division into blocks *)

LEMMA Divided ==
    ASSUME NEW b \in Nat1, NEW q \in Int, NEW r \in 0..(b - 1)
    PROVE  (q * b + r) \div b = q /\ (q * b + r) % b = r
  BY DEF Nat1

LEMMA DivMod ==
    ASSUME NEW b \in Int, b > 0, NEW a \in Int
    PROVE  /\ a = (a \div b) * b + (a % b)
           /\ a \div b \in Int /\ a % b \in 0..(b - 1)
  OBVIOUS

LEMMA Integer == \A n \in Nat : n \in Int
  OBVIOUS

LEMMA Division ==
    ASSUME NEW b \in Nat1, NEW a \in Int
    PROVE  \E q \in Int, r \in 0..(b - 1) : a = q * b + r /\ a \div b = q /\ a % b = r
  <1>1. b \in Int /\ b > 0
    BY DEF Nat1
  <1>2. a = (a \div b) * b + (a % b) /\ a \div b \in Int /\ a % b \in 0..(b - 1)
    BY <1>1, DivMod
  <1> QED  BY <1>2, Zenon

\* In blocks of s, c of them to a cluster: where the k-th block lies.
LEMMA BlockPlace ==
    ASSUME NEW s \in Nat1, NEW c \in Nat1, NEW k \in Nat
    PROVE  /\ (k * s) \div s = k
           /\ k % c = 0 <=> (k * s) % (c * s) = 0
  <1>1. (k * s) \div s = k
    BY DEF Nat1
  <1>2. PICK q \in Int, r \in 0..(c - 1) : k = q * c + r /\ k % c = r
    BY Division, Integer, Zenon
  <1>3. r * s \in 0..(c * s - 1)
    <2>1. s \in Nat /\ s > 0 /\ r \in Nat /\ r + 1 \in Nat /\ r + 1 <= c /\ c \in Nat
      BY <1>2 DEF Nat1
    <2>2. (r + 1) * s <= c * s /\ 0 * s <= r * s
      BY <2>1, Monotone
    <2> QED  BY <2>1, <2>2
  <1>4. c * s \in Nat1 /\ k * s = q * (c * s) + r * s
    BY <1>2 DEF Nat1
  <1>5. (k * s) % (c * s) = r * s
    BY <1>3, <1>4, Divided
  <1>6. r * s = 0 <=> r = 0
    BY <1>2 DEF Nat1
  <1> QED  BY <1>1, <1>2, <1>5, <1>6

\* The block before it is in the same cluster, or in the one before.
LEMMA BlockBefore ==
    ASSUME NEW c \in Nat1, NEW k \in Nat, k > 0
    PROVE  /\ k % c = 0 => k \div c > 0 /\ (k - 1) \div c = k \div c - 1
           /\ k % c # 0 => (k - 1) \div c = k \div c
  <1>1. PICK q \in Int, r \in 0..(c - 1) : k = q * c + r /\ k \div c = q /\ k % c = r
    BY Division, Integer, Zenon
  <1>2. CASE r = 0
    <2>1. k - 1 = (q - 1) * c + (c - 1) /\ c - 1 \in 0..(c - 1)
      BY <1>1, <1>2 DEF Nat1
    <2>2. (k - 1) \div c = q - 1
      BY <2>1, Divided
    <2>3. q > 0
      <3>1. SUFFICES ASSUME q <= 0 PROVE FALSE
        BY <1>1
      <3>2. q * c <= 0 * c
        BY <3>1, <1>1, Monotone DEF Nat1
      <3> QED  BY <3>2, <1>1, <1>2 DEF Nat1
    <2> QED  BY <1>1, <1>2, <2>2, <2>3
  <1>3. CASE r # 0
    <2>1. k - 1 = q * c + (r - 1) /\ r - 1 \in 0..(c - 1)
      BY <1>1, <1>3 DEF Nat1
    <2> QED  BY <1>1, <1>3, <2>1, Divided
  <1> QED  BY <1>2, <1>3

LEMMA DivMonotone ==
    ASSUME NEW c \in Nat1, NEW k \in Nat, NEW n \in Nat, k <= n
    PROVE  k \div c \in 0..(n \div c)
  <1>1. PICK q \in Int, r \in 0..(c - 1) : k = q * c + r /\ k \div c = q
    BY Division, Integer, Zenon
  <1>2. PICK u \in Int, w \in 0..(c - 1) : n = u * c + w /\ n \div c = u
    BY Division, Integer, Zenon
  <1>3. q >= 0
    <2>1. SUFFICES ASSUME q <= -1 PROVE FALSE
      BY <1>1
    <2>2. c \in Nat
      BY DEF Nat1
    <2>3. q * c <= (-1) * c
      BY <2>1, <2>2, <1>1, Monotone
    <2> QED  BY <1>1, <2>2, <2>3
  <1>4. q <= u
    <2>1. SUFFICES ASSUME u + 1 <= q PROVE FALSE
      BY <1>1, <1>2
    <2>2. c \in Nat
      BY DEF Nat1
    <2>3. (u + 1) * c <= q * c
      BY <2>1, <2>2, <1>1, <1>2, Monotone
    <2>4. (u + 1) * c = u * c + c
      BY <1>2, <2>2
    <2> QED  BY <1>1, <1>2, <2>2, <2>3, <2>4
  <1> QED  BY <1>1, <1>2, <1>3, <1>4
-----------------------------------------------------------------------------
(* The boot block *)

\* The bytes of p up to address n are there.
Begun(p, n) == \A a \in 0..(n - 1) : flash[a] = <<p, a>>

\* The updater copies the loader p from the clusters of chain.
Copies(i, p, chain) ==
    LET k == address \div SectorBytes IN
    /\ IsLoader(p) /\ FileOfLoader(card, i, p, chain)
    /\ fs.open /\ fs.size = AppBase
    /\ pc = "pf_read" =>
         /\ fs.fptr = address /\ row = 0
         /\ fs.clust = chain[IF k = 0 THEN 0 ELSE (k - 1) \div card.csize]
         /\ Begun(p, address)
    /\ pc \in {"erase boot", "write boot"} =>
         /\ fs.fptr = address + SectorBytes
         /\ fs.clust = chain[k \div card.csize]
         /\ \A j \in 0..(SectorBytes - 1) : buf.bytes[j] = <<p, address + j>>
         /\ Begun(p, RowBase)
Chains(v) == [0..((BootSectors - 1) \div v.csize) -> 2..LastCluster(v)]

\* A loader is there, or is being put there from a file that is one.
Updating ==
    /\ pc \in UpdaterBlock =>
         /\ brickable
         /\ clean => \E i \in Listed(card), p \in Programs, chain \in Chains(card) :
                        Copies(i, p, chain)
    /\ LoaderKept

LEMMA BootBlocks ==
    /\ BootSectors \in Nat1 /\ AppBase = BootSectors * SectorBytes
  <1>1. SectorBytes \in Nat1 /\ AppBase \in Nat1 /\ AppBase \in Int /\ AppBase % SectorBytes = 0
    BY Sizes DEF Nat1
  <1>2. PICK q \in Int, r \in 0..(SectorBytes - 1) :
            AppBase = q * SectorBytes + r /\ AppBase \div SectorBytes = q /\ AppBase % SectorBytes = r
    BY <1>1, Division, Zenon
  <1>3. AppBase = q * SectorBytes
    BY <1>1, <1>2 DEF Nat1
  <1>4. q > 0
    <2>1. SUFFICES ASSUME q <= 0 PROVE FALSE
      BY <1>2
    <2>2. q * SectorBytes <= 0 * SectorBytes
      BY <1>1, <2>1, Monotone DEF Nat1
    <2> QED  BY <1>1, <1>3, <2>2 DEF Nat1
  <1> QED  BY <1>2, <1>3, <1>4 DEF BootSectors, Nat1

LEMMA Block ==
    ASSUME Place, pc \in UpdaterBlock
    PROVE  LET k == address \div SectorBytes IN
           k \in 0..(BootSectors - 1) /\ address = k * SectorBytes /\ address + SectorBytes <= AppBase
  <1>1. SectorBytes \in Nat1 /\ address \in Int /\ address % SectorBytes = 0 /\ AppBase \in Int
        /\ AppBase % SectorBytes = 0 /\ 0 <= address /\ address < AppBase
    BY Sizes DEF Place, Nat1
  <1>2. address + SectorBytes <= AppBase
    BY <1>1, NextMultiple
  <1>3. PICK q \in Int, r \in 0..(SectorBytes - 1) :
            address = q * SectorBytes + r /\ address \div SectorBytes = q /\ address % SectorBytes = r
    BY <1>1, Division, Zenon
  <1>4. address = q * SectorBytes
    BY <1>1, <1>3 DEF Nat1
  <1>5. AppBase = BootSectors * SectorBytes /\ BootSectors \in Int
    BY BootBlocks DEF Nat1
  <1>6. q >= 0
    <2>1. SUFFICES ASSUME q <= -1 PROVE FALSE
      BY <1>3
    <2>2. q * SectorBytes <= (-1) * SectorBytes
      BY <1>1, <1>3, <2>1, Monotone DEF Nat1
    <2> QED  BY <1>1, <1>4, <2>2 DEF Nat1
  <1>7. q < BootSectors
    <2>1. SUFFICES ASSUME BootSectors <= q PROVE FALSE
      BY <1>3, <1>5
    <2>2. BootSectors * SectorBytes <= q * SectorBytes
      BY <1>1, <1>3, <1>5, <2>1, Monotone DEF Nat1
    <2> QED  BY <1>1, <1>4, <1>5, <2>2
  <1> QED  BY <1>2, <1>3, <1>4, <1>5, <1>6, <1>7

LEMMA LoaderIs ==
    ASSUME NEW p \in Programs, IsLoader(p)
    PROVE  /\ Span(p) = 0..(AppBase - 1) /\ FileSize(p) = AppBase
           /\ \A k \in 0..(BootSectors - 1), j \in 0..(SectorBytes - 1) :
                 FileByte(p, k, j) = <<p, k * SectorBytes + j>>
  <1>1. Bytes[p] = AppBase /\ Role[p] = "loader"
    BY ProgramsAssumption DEF IsLoader
  <1>2. Span(p) = 0..(AppBase - 1) /\ FileSize(p) = AppBase /\ HeaderBytes(p) = 0 /\ Base(p) = 0
    BY <1>1, Sizes DEF Span, Base, FileSize, HeaderBytes, Nat1
  <1>3. ASSUME NEW k \in 0..(BootSectors - 1), NEW j \in 0..(SectorBytes - 1)
        PROVE  FileByte(p, k, j) = <<p, k * SectorBytes + j>>
    <2> DEFINE offset == k * SectorBytes + j
    <2>1. BootSectors \in Nat /\ SectorBytes \in Nat /\ AppBase = BootSectors * SectorBytes
      BY BootBlocks, Sizes DEF Nat1
    <2>2. (k + 1) * SectorBytes <= BootSectors * SectorBytes /\ 0 * SectorBytes <= k * SectorBytes
      BY <2>1, Monotone
    <2>3. offset \in 0..(AppBase - 1)
      BY <2>1, <2>2
    <2> HIDE DEF offset
    <2>4. offset \in Addr /\ ~(offset < 0) /\ ~(offset >= AppBase) /\ 0 + offset - 0 = offset
      BY <2>3, Sizes DEF Addr, Nat1
    <2>5. FileByte(p, k, j) = Memory(p)[offset]
      BY <1>2, <2>4 DEF FileByte, offset
    <2>6. Memory(p)[offset] = <<p, offset>>
      BY <1>2, <2>3, <2>4 DEF Memory
    <2> QED  BY <2>5, <2>6 DEF offset
  <1> QED  BY <1>2, <1>3
LEMMA CardIs ==
    ASSUME DataOK
    PROVE  card.csize \in Nat1 /\ card.clusters \in Nat
  BY CardsAssumption, Zenon DEF DataOK

LEMMA OpenBoot ==
    ASSUME Place, DataOK, LoadersAreLoaders, pf_open, pc' # "bail"
    PROVE  pc' = "pf_read" /\ brickable'
           /\ \E i \in Listed(card'), p \in Programs, chain \in Chains(card') : Copies(i, p, chain)'
  <1>1. PICK i \in Listed(card) :
            /\ fs' = [open |-> TRUE, size |-> card.dir[i].size, fptr |-> 0,
                      clust |-> card.dir[i].start]
            /\ address' = 0 /\ row' = 0 /\ pc' = "pf_read" /\ brickable' = TRUE /\ card' = card
    BY Zenon DEF pf_open, storage
  <1>2. PICK p \in Programs, chain \in Chains(card) : IsLoader(p) /\ FileOfLoader(card, i, p, chain)
    BY Zenon DEF LoadersAreLoaders, HoldsLoader, Chains, DataOK
  <1>3. Begun(p, address)'
    BY <1>1 DEF Begun
  <1>4. fs'.open /\ fs'.fptr = address' /\ fs'.size = AppBase /\ fs'.clust = chain[0]
    BY <1>1, <1>2, LoaderIs DEF FileOfLoader
  <1>5. address' \div SectorBytes = 0
    BY <1>1, Sizes DEF Nat1
  <1>6. IsLoader(p)' /\ FileOfLoader(card, i, p, chain)'
    BY <1>1, <1>2 DEF IsLoader, FileOfLoader, FirstSector
  <1>7. Copies(i, p, chain)'
    BY <1>1, <1>3, <1>4, <1>5, <1>6 DEF Copies
  <1> QED  BY <1>1, <1>7

\* The sector that is read is the next one of the loader's file.
LEMMA ReadBoot ==
    ASSUME Place, DataOK, FileOK, pf_read, clean',
           NEW i, NEW p \in Programs, NEW chain \in Chains(card), Copies(i, p, chain)
    PROVE  Copies(i, p, chain)' /\ card' = card /\ pc' = "erase boot" /\ brickable' = brickable
  <1> DEFINE k == address \div SectorBytes
             want == Shorter(SectorBytes, fs.size - fs.fptr)
             clust == ClusterAt(card)
             c == card.csize
  <1>1. /\ pc = "pf_read" /\ pc' = "erase boot" /\ card' = card /\ brickable' = brickable
        /\ UNCHANGED <<address, row, flash>>
    BY DEF pf_read, storage, block, ghosts
  <1>2. k \in 0..(BootSectors - 1) /\ address = k * SectorBytes /\ address + SectorBytes <= AppBase
    BY <1>1, Block DEF UpdaterBlock
  <1>3. /\ fs.open /\ fs.size = AppBase /\ fs.fptr = address /\ Begun(p, address) /\ row = 0
        /\ fs.clust = chain[IF k = 0 THEN 0 ELSE (k - 1) \div c]
        /\ IsLoader(p) /\ FileOfLoader(card, i, p, chain)
    BY <1>1 DEF Copies
  <1>4. c \in Nat1 /\ BootSectors \in Nat1 /\ SectorBytes \in Nat1 /\ SectorBytes \in Int
        /\ AppBase \in Int /\ address \in Int
        /\ k \in Nat /\ k <= BootSectors - 1 /\ BootSectors - 1 \in Nat
    BY <1>2, CardIs, BootBlocks, Sizes DEF Place, Nat1
  <1>5. want = SectorBytes
    <2>1. fs.size - fs.fptr = AppBase - address
      BY <1>3
    <2>2. ~(SectorBytes < AppBase - address) => AppBase - address = SectorBytes
      BY <1>2, <1>4
    <2> QED  BY <2>1, <2>2 DEF Shorter
  <1>6. k \div c \in 0..((BootSectors - 1) \div c)
    <2> HIDE DEF k, c
    <2> QED  BY <1>4, DivMonotone
  <1>7. clust = chain[k \div c]
    <2>1. fs.fptr % (c * SectorBytes) = 0 <=> k % c = 0
      <3>1. fs.fptr = k * SectorBytes
        BY <1>2, <1>3
      <3> HIDE DEF k, c
      <3> QED  BY <1>4, <3>1, BlockPlace
    <2>2. fs.fptr = 0 <=> k = 0
      <3>1. SectorBytes \in Nat /\ SectorBytes > 0 /\ fs.fptr = k * SectorBytes /\ k \in Nat
        BY <1>2, <1>3, <1>4 DEF Nat1
      <3> HIDE DEF k
      <3>2. k > 0 => 1 * SectorBytes <= k * SectorBytes
        BY <3>1, Monotone
      <3> QED  BY <3>1, <3>2
    <2>3. CASE k = 0
      <3>1. k \div c = 0
        <4> HIDE DEF k, c
        <4> QED  BY <1>4, <2>3 DEF Nat1
      <3> QED  BY <1>3, <2>2, <2>3, <3>1 DEF ClusterAt
    <2>4. CASE k # 0 /\ k % c # 0
      <3>1. (k - 1) \div c = k \div c
        <4> HIDE DEF k, c
        <4> QED  BY <1>4, <2>4, BlockBefore
      <3> QED  BY <1>3, <2>1, <2>4, <3>1 DEF ClusterAt
    <2>5. CASE k # 0 /\ k % c = 0
      <3>1. (k - 1) \div c = k \div c - 1 /\ k \div c > 0
        <4> HIDE DEF k, c
        <4> QED  BY <1>4, <2>5, BlockBefore
      <3> DEFINE n == k \div c
      <3>2. n \in DOMAIN chain /\ n > 0 /\ n - 1 \in DOMAIN chain
        <4>1. DOMAIN chain = 0..((BootSectors - 1) \div c)
          BY DEF Chains
        <4>2. n > 0 /\ n \in 0..((BootSectors - 1) \div c)
          BY <1>6, <3>1
        <4> DEFINE d == (BootSectors - 1) \div c
        <4>3. DOMAIN chain = 0..d /\ n \in 0..d /\ n > 0
          BY <4>1, <4>2
        <4>4. d \in Int
          <5>1. BootSectors - 1 \in Int /\ c \in Int /\ c > 0
            BY <1>4 DEF Nat1
          <5> HIDE DEF c
          <5> QED  BY <5>1, DivMod
        <4> HIDE DEF n, d
        <4> QED  BY <4>3, <4>4
      <3>3. chain[n] = card.fat[chain[n - 1]] /\ chain[n - 1] \in 2..LastCluster(card)
        BY <1>3, <3>2 DEF FileOfLoader, Chains
      <3>4. chain[n - 1] \in DOMAIN card.fat
        <4>1. card.fat \in [2..LastCluster(card) -> Nat]
          BY CardsAssumption, Zenon DEF DataOK
        <4> QED  BY <3>3, <4>1
      <3>5. fs.clust = chain[n - 1]
        BY <1>3, <2>5, <3>1
      <3> HIDE DEF n
      <3>6. clust = card.fat[fs.clust]
        BY <1>3, <2>1, <2>2, <2>5, <3>4, <3>5 DEF ClusterAt
      <3> QED  BY <3>3, <3>5, <3>6 DEF n
    <2> QED  BY <2>3, <2>4, <2>5
  <1> DEFINE s == FirstSector(card, clust) + SectorInCluster(card)
  <1>8. clust \in 2..LastCluster(card)
    BY <1>6, <1>7 DEF Chains
  <1>9. card.data[s] = [of |-> p, k |-> k]
    <2>1. fs.fptr \div SectorBytes = k
      <3>1. fs.fptr = k * SectorBytes
        BY <1>2, <1>3
      <3> HIDE DEF k, c
      <3> QED  BY <1>4, <3>1, BlockPlace
    <2>2. SectorInCluster(card) = k % c
      BY <2>1 DEF SectorInCluster
    <2>3. card.data[FirstSector(card, chain[k \div c]) + (k % c)] = [of |-> p, k |-> k]
      BY <1>2, <1>3 DEF FileOfLoader
    <2>4. s = FirstSector(card, chain[k \div c]) + (k % c)
      <3> HIDE DEF clust, k, c
      <3> QED  BY <1>7, <2>2, Zenon
    <2> QED  BY <2>3, <2>4
  <1>10. /\ buf' = Part(DataSector(card, s), want)
         /\ fs' = [fs EXCEPT !.fptr = fs.fptr + want, !.clust = clust]
    <2>1. want > 0 /\ want # 0
      BY <1>4, <1>5 DEF Nat1
    <2> HIDE DEF want, clust, s
    <2> QED  BY <1>3, <2>1, Zenon DEF pf_read, Misread, want, clust, s
  <1>11. ASSUME NEW j \in 0..(SectorBytes - 1)
         PROVE  buf'.bytes[j] = <<p, address' + j>>
    <2>1. buf'.bytes[j] = DataSector(card, s).bytes[j]
      <3>1. j < want
        BY <1>4, <1>5
      <3>2. buf' \in Buffers /\ buf \in Buffers /\ DataSector(card, s) \in Buffers
        <4>1. s \in DOMAIN card.data
          BY <1>8, SectorThere DEF DataOK
        <4>2. DataSector(card, s) \in Buffers
          BY <4>1, DataIs DEF DataOK
        <4> QED  BY <1>10, <4>2, PartIs DEF DataOK
      <3> HIDE DEF want, s
      <3>3. DataSector(card, s).bytes \in SectorsOfBytes
        BY <3>2, BuffersAre, Zenon
      <3>4. buf'.bytes = [x \in 0..(SectorBytes - 1) |->
                            IF x < want THEN DataSector(card, s).bytes[x] ELSE buf.bytes[x]]
        BY <1>10, <3>2, BuffersAre DEF Part
      <3> QED  BY <3>1, <3>4
    <2>2. DataSector(card, s).bytes[j] = FileByte(p, k, j)
      <3>1. card.data[s] # NoSector
        <4>1. p # NoSector.of
          BY ProgramsAssumption
        <4> QED  BY <1>9, <4>1
      <3> QED  BY <1>9, <3>1 DEF DataSector
    <2>3. FileByte(p, k, j) = <<p, k * SectorBytes + j>>
      BY <1>2, <1>3, LoaderIs
    <2> QED  BY <1>1, <1>2, <2>1, <2>2, <2>3
  <1>12. Begun(p, RowBase)'
    <2>1. RowBytes \in Int /\ 0 * RowBytes = 0
      BY Sizes DEF Nat1
    <2>2. RowBase' = address + 0 * RowBytes
      BY <1>1, <1>3 DEF RowBase
    <2>3. RowBase' = address
      BY <1>4, <2>1, <2>2
    <2> QED  BY <1>1, <1>3, <2>3 DEF Begun
  <1>13. /\ fs'.open /\ fs'.size = AppBase /\ fs'.fptr = address' + SectorBytes
         /\ fs'.clust = chain[k \div card'.csize]
    BY <1>1, <1>3, <1>5, <1>7, <1>10 DEF FileOK
  <1>14. IsLoader(p)' /\ FileOfLoader(card, i, p, chain)'
    BY <1>1, <1>3 DEF IsLoader, FileOfLoader, FirstSector
  <1> QED  BY <1>1, <1>11, <1>12, <1>13, <1>14 DEF Copies
LEMMA RowPlace ==
    ASSUME Place
    PROVE  /\ address \in Nat /\ row \in Nat /\ RowBase \in Nat /\ address <= RowBase
           /\ RowBytes \in Nat /\ RowBytes > 0 /\ SectorBytes \in Nat /\ SectorBytes > 0
           /\ RowBase + RowBytes <= address + SectorBytes
           /\ Row = RowBase..(RowBase + RowBytes - 1)
           /\ \A a \in 0..(RowBase + RowBytes - 1) : a \in 0..(RowBase - 1) \/ a \in Row
           /\ \A a \in Row : a - address \in 0..(SectorBytes - 1) /\ address + (a - address) = a
  <1> DEFINE x == row * RowBytes
  <1>1. address \in Nat /\ row \in Nat /\ x \in Nat /\ x + RowBytes <= SectorBytes
        /\ RowBytes \in Nat /\ RowBytes > 0 /\ SectorBytes \in Nat /\ SectorBytes > 0
    BY InBlock, Sizes DEF Place, Nat1
  <1>2. RowBase = address + x
    BY DEF RowBase
  <1> HIDE DEF x
  <1>3. RowBase \in Nat /\ address <= RowBase /\ RowBase + RowBytes <= address + SectorBytes
    BY <1>1, <1>2
  <1>4. Row = RowBase..(RowBase + RowBytes - 1)
    BY DEF Row
  <1>5. /\ \A a \in 0..(RowBase + RowBytes - 1) : a \in 0..(RowBase - 1) \/ a \in Row
        /\ \A a \in Row : a - address \in 0..(SectorBytes - 1) /\ address + (a - address) = a
    BY <1>1, <1>3, <1>4
  <1> QED  BY <1>1, <1>3, <1>4, <1>5

\* A row that is erased lies behind what is written of the block.
LEMMA EraseStep ==
    ASSUME Place, DataOK, EraseBoot,
           NEW i, NEW p \in Programs, NEW chain \in Chains(card), Copies(i, p, chain)
    PROVE  Copies(i, p, chain)' /\ card' = card /\ pc' = "write boot"
           /\ clean' = clean /\ brickable' = brickable
  <1>1. /\ pc = "erase boot" /\ pc' = "write boot" /\ card' = card
        /\ clean' = clean /\ brickable' = brickable
        /\ UNCHANGED <<address, row, buf, fs>>
        /\ flash' = [a \in Addr |-> IF a \in Row THEN Erased ELSE flash[a]]
    BY DEF EraseBoot, EraseRow, storage, block, updater, seen, ghosts
  <1>2. RowBase' = RowBase
    BY <1>1 DEF RowBase
  <1>3. \A a \in 0..(RowBase - 1) : a \in Addr /\ a \notin Row
    <2>1. address \in Nat /\ row * RowBytes \in Nat /\ row * RowBytes + RowBytes <= SectorBytes
      BY InBlock DEF Place
    <2>2. RowBase \in Nat /\ RowBase + RowBytes <= address + SectorBytes
      BY <2>1, Sizes DEF RowBase, Nat1
    <2>3. address + SectorBytes <= AppBase
      BY <1>1, Block DEF UpdaterBlock
    <2> QED  BY <2>1, <2>2, <2>3, Sizes DEF Row, Addr, Nat1
  <1>4. Begun(p, RowBase)'
    BY <1>1, <1>2, <1>3 DEF Begun, Copies
  <1>5. IsLoader(p)' /\ FileOfLoader(card, i, p, chain)'
    BY <1>1 DEF Copies, IsLoader, FileOfLoader, FirstSector
  <1> QED  BY <1>1, <1>4, <1>5 DEF Copies

\* The row that is written is the one of the loader.
LEMMA RowOfLoader ==
    ASSUME Place, DataOK, WriteBoot,
           NEW i, NEW p \in Programs, NEW chain \in Chains(card), Copies(i, p, chain),
           NEW n \in Int, n = RowBase + RowBytes
    PROVE  \A a \in 0..(n - 1) : flash'[a] = <<p, a>>
  <1>0. pc = "write boot" /\ flash' = Written
    BY DEF WriteBoot, WriteRow
  <1>1. n < Top /\ Top \in Int
    <2>1. address + SectorBytes <= AppBase
      BY <1>0, Block DEF UpdaterBlock
    <2>2. /\ address \in Nat /\ RowBase \in Nat /\ RowBytes \in Nat /\ SectorBytes \in Nat
          /\ RowBase + RowBytes <= address + SectorBytes
      BY RowPlace
    <2> QED  BY <2>1, <2>2, Sizes DEF Nat1
  <1>2. \A a \in 0..(n - 1) : a \in 0..(RowBase - 1) \/ a \in Row
    BY RowPlace
  <1>3. ASSUME NEW a \in 0..(n - 1) PROVE flash'[a] = <<p, a>>
    <2>1. a \in Addr
      BY <1>1 DEF Addr
    <2>2. CASE a \in Row
      <3>1. a - address \in 0..(SectorBytes - 1) /\ address + (a - address) = a
        BY <2>2, RowPlace
      <3>2. buf.bytes[a - address] = <<p, address + (a - address)>>
        BY <1>0, <3>1 DEF Copies
      <3> QED  BY <1>0, <2>1, <2>2, <3>1, <3>2 DEF Written
    <2>3. CASE a \notin Row
      <3>1. a \in 0..(RowBase - 1)
        BY <1>2, <2>3
      <3> QED  BY <1>0, <2>1, <2>3, <3>1 DEF Written, Copies, Begun
    <2> QED  BY <2>2, <2>3
  <1> QED  BY <1>3

LEMMA WriteStep ==
    ASSUME Place, DataOK, WriteBoot,
           NEW i, NEW p \in Programs, NEW chain \in Chains(card), Copies(i, p, chain)
    PROVE  /\ card' = card /\ clean' = clean
           /\ \/ pc' \in UpdaterBlock /\ brickable' = brickable /\ Copies(i, p, chain)'
              \/ pc' = "blink" /\ IsLoader(p)' /\ Whole(p)'
  <1> DEFINE next == IF address + SectorBytes < AppBase THEN "pf_read" ELSE "blink"
  <1>1. /\ pc = "write boot" /\ card' = card /\ clean' = clean /\ flash' = Written
        /\ WriteRow("write boot", "erase boot", next)
        /\ UNCHANGED <<buf, fs>>
        /\ brickable' = IF pc' = "blink" /\ clean THEN FALSE ELSE brickable
    BY DEF WriteBoot, WriteRow, updater, seen
  <1>2. ASSUME NEW n \in Int, n = RowBase + RowBytes
        PROVE  \A a \in 0..(n - 1) : flash'[a] = <<p, a>>
    BY <1>1, <1>2, RowOfLoader
  <1>3. IsLoader(p)' /\ FileOfLoader(card, i, p, chain)'
    BY <1>1 DEF Copies, IsLoader, FileOfLoader, FirstSector
  <1>4. address \in Nat /\ row \in Nat /\ RowBytes \in Nat /\ SectorBytes \in Nat /\ AppBase \in Nat
        /\ address + SectorBytes <= AppBase /\ SectorBytes > 0
    <2>1. address + SectorBytes <= AppBase
      BY <1>1, Block DEF UpdaterBlock
    <2> QED  BY <2>1, RowPlace, Sizes DEF Nat1
  <1>5. CASE row + 1 < RowsPerSector
    <2>1. row' = row + 1 /\ pc' = "erase boot" /\ address' = address
      BY <1>1, <1>5 DEF WriteRow
    <2>2. RowBase' = RowBase + RowBytes
      <3>1. RowBase' = address + (row + 1) * RowBytes
        BY <2>1 DEF RowBase
      <3>2. (row + 1) * RowBytes = row * RowBytes + RowBytes /\ row * RowBytes \in Nat
        BY <1>4
      <3> QED  BY <1>4, <3>1, <3>2 DEF RowBase
    <2>3. Begun(p, RowBase)'
      <3> DEFINE n == RowBase + RowBytes
      <3>1. n \in Int
        BY RowPlace
      <3>2. RowBase' = n
        BY <2>2
      <3> HIDE DEF n
      <3>3. \A a \in 0..(n - 1) : flash'[a] = <<p, a>>
        BY <1>2, <3>1 DEF n
      <3> QED  BY <3>2, <3>3 DEF Begun
    <2> QED  BY <1>1, <1>3, <2>1, <2>3 DEF Copies, UpdaterBlock
  <1>6. CASE ~(row + 1 < RowsPerSector)
    <2>1. row' = 0 /\ pc' = next /\ address' = address + SectorBytes
      BY <1>1, <1>6 DEF WriteRow
    <2>2. RowBase + RowBytes = address'
      <3>1. RowsPerSector \in Int /\ SectorBytes = RowsPerSector * RowBytes /\ row <= RowsPerSector - 1
        <4>1. SectorBytes % RowBytes = 0 /\ RowBytes \in Int /\ RowBytes > 0 /\ SectorBytes \in Int
          BY Sizes DEF Nat1
        <4>2. RowsPerSector \in Int /\ SectorBytes = RowsPerSector * RowBytes
          BY <4>1, DivMod DEF RowsPerSector
        <4>3. row \in 0..(RowsPerSector - 1)
          BY DEF Place
        <4> QED  BY <4>2, <4>3
      <3>2. row + 1 = RowsPerSector
        BY <1>4, <1>6, <3>1
      <3>3. row * RowBytes + RowBytes = (row + 1) * RowBytes
        BY <1>4
      <3> QED  BY <1>4, <2>1, <3>1, <3>2, <3>3 DEF RowBase
    <2>3. \A a \in 0..(address' - 1) : flash'[a] = <<p, a>>
      <3>1. address' \in Int
        BY <1>4, <2>1
      <3> QED  BY <1>2, <2>2, <3>1
    <2>4. CASE address + SectorBytes < AppBase
      <3>1. pc' = "pf_read"
        BY <2>1, <2>4
      <3> DEFINE k == address \div SectorBytes
      <3>2. k \in Nat /\ address = k * SectorBytes
        <4>1. k \in 0..(BootSectors - 1) /\ address = k * SectorBytes
          BY <1>1, Block DEF UpdaterBlock
        <4> HIDE DEF k
        <4> QED  BY <4>1, BootBlocks DEF Nat1
      <3>3. address' \div SectorBytes = k + 1
        <4>1. address' = (k + 1) * SectorBytes + 0 /\ 0 \in 0..(SectorBytes - 1)
          <5> HIDE DEF k
          <5> QED  BY <1>4, <2>1, <3>2
        <4>2. SectorBytes \in Nat1 /\ k + 1 \in Int
          BY <3>2, Sizes
        <4> HIDE DEF k
        <4> QED  BY <4>1, <4>2, Divided
      <3>4. fs'.fptr = address' /\ fs'.clust = chain[k \div card.csize] /\ fs'.open /\ fs'.size = AppBase
        BY <1>1, <2>1 DEF Copies
      <3>5. Begun(p, address)'
        BY <2>3 DEF Begun
      <3>6. k + 1 # 0 /\ (k + 1) - 1 = k
        BY <3>2
      <3> HIDE DEF k
      <3>7. fs'.clust = chain[IF address' \div SectorBytes = 0 THEN 0
                              ELSE (address' \div SectorBytes - 1) \div card'.csize]
        BY <1>1, <3>3, <3>4, <3>6
      <3>8. Copies(i, p, chain)'
        BY <1>3, <2>1, <3>1, <3>4, <3>5, <3>7 DEF Copies
      <3> QED  BY <1>1, <3>1, <3>8 DEF UpdaterBlock
    <2>5. CASE ~(address + SectorBytes < AppBase)
      <3>1. pc' = "blink" /\ address' = AppBase
        BY <1>4, <2>1, <2>5
      <3>2. Whole(p)'
        <4>1. Span(p)' = 0..(AppBase - 1)
          BY <1>3, LoaderIs DEF Span, Base, IsLoader
        <4> QED  BY <2>3, <3>1, <4>1 DEF Whole
      <3> QED  BY <1>1, <1>3, <3>1, <3>2
    <2> QED  BY <2>4, <2>5
  <1> QED  BY <1>5, <1>6

\* Nothing else changes the boot block.
LEMMA BootStays ==
    ASSUME Place, [Next]_vars, pc \notin UpdaterBlock,
           NEW p \in Programs, IsLoader(p), Whole(p)
    PROVE  IsLoader(p)' /\ Whole(p)'
  <1>1. Span(p) = Boot /\ Span(p)' = Span(p) /\ Boot \subseteq Addr
    BY LoaderIs, Sizes DEF Boot, Span, Base, Addr, Nat1
  <1>2. \A a \in Boot : flash'[a] = flash[a]
    <2>1. CASE flash' = flash
      BY <2>1
    <2>2. CASE pc \in Writing /\ InRow
      <3>1. pc \in LoaderBlock
        BY <2>2 DEF Writing, LoaderBlock, UpdaterBlock
      <3>2. Row \cap Boot = {}
        BY <3>1, RowBehindBoot
      <3> QED  BY <1>1, <2>2, <3>2, RowOnly DEF InRow, Spared
    <2> QED  BY <2>1, <2>2, Changes
  <1> QED  BY <1>1, <1>2 DEF Whole, IsLoader

\* The bits of the history the argument needs.
LEMMA History ==
    ASSUME [Next]_vars
    PROVE  /\ pc' \in UpdaterBlock => pc \in UpdaterBlock \/ pf_open
           /\ brickable' = brickable \/ (pf_open /\ pc' = "pf_read") \/ WriteBoot
           /\ pc' \in UpdaterBlock /\ clean' => clean
  <1> USE DEF UpdaterBlock, storage, block, loader, updater, seen, ghosts, Leave
  <1>1. CASE BootLoader
    <2>1. pc' \in {"dead", "reset", "firmware", "reset config", "init", "mount", "scan", "header",
                   "read", "erase", "write", "start"}
      BY <1>1, Zenon DEF BootLoader, main, disk_initialise, mount, ScanSector, ReadHeader,
         ReadSector, EraseApp, EraseRow, WriteApp, WriteRow, EnterFirmware
    <2>2. brickable' = brickable
      BY <1>1, Zenon DEF BootLoader, main, disk_initialise, mount, ScanSector, ReadHeader,
         ReadSector, EraseApp, EraseRow, WriteApp, WriteRow, EnterFirmware
    <2> QED  BY <2>1, <2>2
  <1>2. CASE BootUpdater
    <2>1. CASE ResetConfig
      BY <2>1 DEF ResetConfig
    <2>2. CASE pf_mount
      BY <2>2 DEF pf_mount
    <2>3. CASE pf_open
      BY <2>3 DEF pf_open
    <2>4. CASE pf_read
      <3>1. brickable' = brickable /\ pc = "pf_read"
        BY <2>4 DEF pf_read
      <3>2. clean' => clean
        BY <2>4, Zenon DEF pf_read, Misread
      <3> QED  BY <3>1, <3>2
    <2>5. CASE EraseBoot
      BY <2>5 DEF EraseBoot, EraseRow
    <2>6. CASE WriteBoot
      BY <2>6 DEF WriteBoot, WriteRow
    <2> QED  BY <1>2, <2>1, <2>2, <2>3, <2>4, <2>5, <2>6 DEF BootUpdater
  <1>3. CASE SetConfig \/ PowerOff \/ PowerOn
    <2>1. /\ brickable' = brickable
          /\ \/ pc' = pc /\ pc = "firmware"
             \/ pc' \in {"off", "reset"}
      BY <1>3, Zenon DEF SetConfig, PowerOff, PowerOn
    <2> QED  BY <2>1
  <1>4. CASE UNCHANGED vars
    BY <1>4, Zenon DEF vars
  <1> QED  BY <1>1, <1>2, <1>3, <1>4 DEF Next

LEMMA UpdatingStep ==
    ASSUME LoadersAreLoaders, Place, Types, Updating, [Next]_vars
    PROVE  Updating'
  <1>0. DataOK /\ FileOK
    BY DEF Types
  <1>1. CASE pc \notin UpdaterBlock
    <2>1. CASE pf_open /\ pc' = "pf_read"
      <3>1. brickable' /\ \E i \in Listed(card'), p \in Programs, chain \in Chains(card') :
                             Copies(i, p, chain)'
        BY <1>0, <2>1, OpenBoot
      <3> QED  BY <3>1 DEF Updating, LoaderKept
    <2>2. CASE ~(pf_open /\ pc' = "pf_read")
      <3>1. pc' \notin UpdaterBlock
        BY <1>1, <2>2, History DEF pf_open, UpdaterBlock
      <3>2. brickable' = brickable
        BY <1>1, <2>2, History DEF WriteBoot, WriteRow, UpdaterBlock
      <3>3. LoaderKept'
        <4>1. CASE brickable
          BY <3>2, <4>1 DEF LoaderKept
        <4>2. CASE ~brickable
          <5>1. PICK p \in Programs : IsLoader(p) /\ Whole(p)
            BY <4>2 DEF Updating, LoaderKept
          <5>2. IsLoader(p)' /\ Whole(p)'
            BY <1>1, <5>1, BootStays
          <5> QED  BY <5>2 DEF LoaderKept
        <4> QED  BY <4>1, <4>2
      <3> QED  BY <3>1, <3>3 DEF Updating
    <2> QED  BY <2>1, <2>2
  <1>2. CASE pc \in UpdaterBlock
    <2>1. brickable
      BY <1>2 DEF Updating
    <2>2. clean => \E i \in Listed(card), p \in Programs, chain \in Chains(card) : Copies(i, p, chain)
      BY <1>2 DEF Updating
    <2>3. CASE WriteBoot /\ clean
      <3>1. PICK i \in Listed(card), p \in Programs, chain \in Chains(card) : Copies(i, p, chain)
        BY <2>2, <2>3
      <3>2. /\ card' = card /\ clean' = clean
            /\ \/ pc' \in UpdaterBlock /\ brickable' = brickable /\ Copies(i, p, chain)'
               \/ pc' = "blink" /\ IsLoader(p)' /\ Whole(p)'
        BY <1>0, <2>3, <3>1, WriteStep
      <3>3. CASE pc' = "blink" /\ IsLoader(p)' /\ Whole(p)'
        BY <3>3 DEF Updating, LoaderKept, UpdaterBlock
      <3>4. CASE pc' \in UpdaterBlock /\ brickable' = brickable /\ Copies(i, p, chain)'
        <4>1. i \in Listed(card') /\ chain \in Chains(card')
          BY <3>1, <3>2
        <4> QED  BY <2>1, <3>4, <4>1 DEF Updating, LoaderKept
      <3> QED  BY <3>2, <3>3, <3>4
    <2>4. CASE ~(WriteBoot /\ clean)
      <3>1. brickable'
        <4>1. CASE WriteBoot
          BY <2>1, <2>4, <4>1 DEF WriteBoot
        <4>2. CASE pf_open /\ pc' = "pf_read"
          BY <1>2, <4>2 DEF pf_open, UpdaterBlock
        <4> QED  BY <2>1, <4>1, <4>2, History
      <3>2. CASE pc' \notin UpdaterBlock
        BY <3>1, <3>2 DEF Updating, LoaderKept
      <3>3. CASE ~clean'
        BY <3>1, <3>3 DEF Updating, LoaderKept
      <3>4. CASE pc' \in UpdaterBlock /\ clean'
        <4>1. clean /\ ~WriteBoot
          BY <2>4, <3>4, History
        <4>2. PICK i \in Listed(card), p \in Programs, chain \in Chains(card) : Copies(i, p, chain)
          BY <2>2, <4>1
        <4>3. pf_read \/ EraseBoot \/ UNCHANGED vars
          <5> USE DEF UpdaterBlock
          <5>1. ~BootLoader
            BY <1>2, Zenon DEF BootLoader, main, disk_initialise, mount, ScanSector, ReadHeader,
               ReadSector, EraseApp, EraseRow, WriteApp, WriteRow, EnterFirmware
          <5>2. ~SetConfig /\ ~PowerOff /\ ~PowerOn
            BY <1>2, <3>4, Zenon DEF SetConfig, PowerOff, PowerOn
          <5>3. ~ResetConfig /\ ~pf_mount /\ ~pf_open
            BY <1>2, Zenon DEF ResetConfig, pf_mount, pf_open
          <5> QED  BY <4>1, <5>1, <5>2, <5>3 DEF Next, BootUpdater
        <4>4. card' = card /\ Copies(i, p, chain)'
          <5>1. CASE pf_read
            BY <1>0, <3>4, <4>2, <5>1, ReadBoot
          <5>2. CASE EraseBoot
            BY <1>0, <4>2, <5>2, EraseStep
          <5>3. CASE UNCHANGED vars
            BY <4>2, <5>3 DEF vars, Copies, IsLoader, FileOfLoader, FirstSector, Begun, RowBase
          <5> QED  BY <4>3, <5>1, <5>2, <5>3
        <4>5. i \in Listed(card') /\ chain \in Chains(card')
          BY <4>2, <4>4
        <4> QED  BY <3>1, <4>4, <4>5 DEF Updating, LoaderKept
      <3> QED  BY <3>2, <3>3, <3>4
    <2> QED  BY <2>3, <2>4
  <1> QED  BY <1>1, <1>2

LEMMA InitUpdating == Init => Updating
  <1> SUFFICES ASSUME Init PROVE Updating
    OBVIOUS
  <1>1. Factory \in Programs /\ IsLoader(Factory)
    BY ProgramsAssumption DEF IsLoader
  <1>2. Span(Factory) = Boot /\ Boot \subseteq Addr
    BY <1>1, LoaderIs, Sizes DEF Boot, Addr, Nat1
  <1>3. Whole(Factory)
    BY <1>2 DEF Init, Whole, Memory
  <1>4. pc \notin UpdaterBlock
    BY DEF Init, UpdaterBlock
  <1> QED  BY <1>1, <1>3, <1>4 DEF Updating, LoaderKept

\* Whatever the sizes and the cards, fragmented ones too, the boot block holds
\* a whole loader, unless the updater is at work on it or was cut short or
\* misread: no step of the loader or the firmware breaks it, and an update
\* without a mishap ends with the new one whole. The user is trusted to call
\* nothing else a loader: the updater looks at the name only (BootUpdater.c).
THEOREM LoaderStays == LoadersAreLoaders => (Spec => []LoaderKept)
  <1> SUFFICES ASSUME LoadersAreLoaders PROVE Spec => []LoaderKept
    OBVIOUS
  <1>1. IInv /\ Types /\ Updating /\ [Next]_vars => Updating'
    BY UpdatingStep DEF IInv
  <1>2. Updating => LoaderKept
    BY DEF Updating
  <1> QED  BY InitUpdating, <1>1, <1>2, Invariant, Typing, PTL DEF Spec

-----------------------------------------------------------------------------
(* The file the loader takes *)

\* The file of p, a program for behind the boot block, is the one at entry i
\* of the card: the one the loader takes.
Taken(i, p) ==
    /\ ~IsLoader(p)
    /\ i \in Candidates(card) \cap Searched(card)
    /\ \A j \in Candidates(card) : i <= j
    /\ card.dir[i].size = FileSize(p) /\ card.dir[i].start >= 2
    /\ \A k \in 0..((FileSize(p) - 1) \div SectorBytes) :
          /\ FirstSector(card, card.dir[i].start) + k \in DOMAIN card.data
          /\ card.data[FirstSector(card, card.dir[i].start) + k] = [of |-> p, k |-> k]

FileEnd(p) == AppBase + FileSize(p) - SectorBytes

\* The flash holds the file of p as far as address n.
HasUpTo(p, n) == \A a \in AppBase..(n - 1) : a < FileEnd(p) => flash[a] = Memory(p)[a]

Scanning ==
    pc = "scan" /\ clean =>
        /\ card.fs # "none" /\ sector \in Nat /\ n_rootdir > 0
        /\ n_rootdir + sector * PerSector = card.rootEntries \div PerSector
        /\ \A j \in Candidates(card) : sector * PerSector <= j

\* Where the loader is in the file at entry i.
Heading(i, p) ==
    sector = FirstSector(card, card.dir[i].start) /\ stop = FileEnd(p)

Copying(i, p) ==
    LET k == (address - AppBase) \div SectorBytes IN
    /\ stop = FileEnd(p)
    /\ pc = "read" =>
         /\ row = 0
         /\ sector = FirstSector(card, card.dir[i].start) + k + 1
         /\ HasUpTo(p, address)
    /\ pc \in {"erase", "write"} =>
         /\ sector = FirstSector(card, card.dir[i].start) + k + 2
         /\ \A j \in 0..(SectorBytes - 1) :
               address + j < stop => buf.bytes[j] = Memory(p)[address + j]
         /\ HasUpTo(p, RowBase)

\* A history without a rewriting that was cut short: one program is there.
Trusting ==
    trusted =>
        /\ pc \notin LoaderBlock
        /\ \E q \in Programs : ~IsLoader(q) /\ Holds(q, FileArea(q) \cup {AppBase})

Taking ==
    /\ Scanning
    /\ pc = "header" /\ clean => \A i \in DOMAIN card.dir, p \in Programs : Taken(i, p) => Heading(i, p)
    /\ pc \in LoaderBlock /\ clean => \A i \in DOMAIN card.dir, p \in Programs : Taken(i, p) => Copying(i, p)
    /\ Trusting
    /\ UpdateTakes

LEMMA OffersIs ==
    ASSUME NEW p \in Programs
    PROVE  Offers(card, p) <=> \E i \in DOMAIN card.dir : Taken(i, p)
  BY DEF Offers, Taken, Searched

\* As long as the card is there, so is the file.
LEMMA OfferStays ==
    ASSUME card' = card
    PROVE  /\ \A i, p : Taken(i, p)' <=> Taken(i, p)
           /\ \A p : Offers(card, p)' <=> Offers(card, p)
  BY DEF Taken, Offers, Candidates, Searched, FirstSector, FileSize, RoundUp, IsLoader

LEMMA RoundsUp ==
    ASSUME NEW n \in Nat
    PROVE  RoundUp(n) \in Int /\ n <= RoundUp(n)
  <1> DEFINE x == n + PageBytes - 1
  <1>1. PageBytes \in Int /\ PageBytes > 0 /\ x \in Int
    BY Sizes DEF Nat1
  <1>2. x = (x \div PageBytes) * PageBytes + (x % PageBytes)
        /\ x \div PageBytes \in Int /\ x % PageBytes \in 0..(PageBytes - 1)
    <2> HIDE DEF x
    <2> QED  BY <1>1, DivMod
  <1> DEFINE d == x \div PageBytes
  <1>3. d * PageBytes \in Int /\ d * PageBytes >= x - (PageBytes - 1)
    <2> HIDE DEF d, x
    <2>1. d \in Int /\ x = d * PageBytes + (x % PageBytes) /\ x % PageBytes \in 0..(PageBytes - 1)
      BY <1>2 DEF d
    <2>2. d * PageBytes \in Int
      BY <1>1, <2>1
    <2> QED  BY <1>1, <2>1, <2>2
  <1>4. RoundUp(n) = d * PageBytes
    BY DEF RoundUp
  <1> HIDE DEF d
  <1> QED  BY <1>1, <1>3, <1>4

\* The file of a program for behind the boot block.
LEMMA ProgramFile ==
    ASSUME NEW p \in Programs, ~IsLoader(p)
    PROVE  /\ FileSize(p) \in Nat /\ SectorBytes <= FileSize(p)
           /\ FileEnd(p) \in Nat /\ AppBase <= FileEnd(p) /\ FileEnd(p) <= Top
           /\ FileEnd(p) = AppBase + FileSize(p) - SectorBytes
           /\ FileArea(p) = AppBase..(FileEnd(p) - 1)
           /\ HeaderBytes(p) = SectorBytes /\ Base(p) = AppBase
           /\ Memory(p)[AppBase] = <<p, AppBase>>
  <1> DEFINE last == AppBase + Bytes[p] - 1
  <1>1. Role[p] # "loader" /\ Bytes[p] \in Nat1 /\ Bytes[p] <= Top - AppBase
    BY ProgramsAssumption DEF IsLoader
  <1>2. last \in Nat /\ AppBase <= last /\ last < Top
    BY <1>1, Sizes DEF Nat1
  <1> HIDE DEF last
  <1>3. RoundUp(last) \in Int /\ last <= RoundUp(last) /\ RoundUp(last) <= Top
    BY <1>2, RoundsUp, RoundedUp
  <1>4. FileSize(p) = SectorBytes + RoundUp(last) - AppBase
    BY <1>1 DEF FileSize, last
  <1>5. FileSize(p) \in Nat /\ SectorBytes <= FileSize(p)
    BY <1>2, <1>3, <1>4, Sizes DEF Nat1
  <1>6. FileEnd(p) \in Nat /\ AppBase <= FileEnd(p) /\ FileEnd(p) <= Top
    BY <1>2, <1>3, <1>4, Sizes DEF FileEnd, Nat1
  <1>7. HeaderBytes(p) = SectorBytes /\ Base(p) = AppBase
    BY <1>1 DEF HeaderBytes, Base
  <1>8. Memory(p)[AppBase] = <<p, AppBase>>
    <2>1. AppBase \in Addr /\ AppBase \in Span(p)
      BY <1>1, <1>7, Sizes DEF Addr, Span, Nat1
    <2> QED  BY <2>1 DEF Memory
  <1>9. FileArea(p) = AppBase..(FileEnd(p) - 1)
    <2>1. AppBase + FileSize(p) - SectorBytes - 1 = FileEnd(p) - 1
      BY <1>5, Sizes DEF FileEnd, Nat1
    <2> QED  BY <2>1 DEF FileArea
  <1> QED  BY <1>5, <1>6, <1>7, <1>8, <1>9 DEF FileEnd

\* The k-th sector of the file is where the loader expects it.
LEMMA FileSector ==
    ASSUME DataOK, NEW p \in Programs, NEW i, Taken(i, p),
           NEW k \in Nat, k * SectorBytes < FileSize(p)
    PROVE  LET s == FirstSector(card, card.dir[i].start) + k IN
           /\ s \in DOMAIN card.data /\ card.data[s] = [of |-> p, k |-> k]
           /\ card.data[s] # NoSector
  <1>1. SectorBytes \in Nat1 /\ SectorBytes \in Nat /\ FileSize(p) \in Nat
    BY Sizes, ProgramFile DEF Taken, Nat1
  <1> DEFINE x == k * SectorBytes
             n == FileSize(p) - 1
  <1>2. x \in Nat /\ n \in Nat /\ x <= n
    BY <1>1
  <1>3. x \div SectorBytes = k
    BY <1>1, BlockPlace
  <1>4. x \div SectorBytes \in 0..(n \div SectorBytes)
    <2> HIDE DEF x, n
    <2> QED  BY <1>1, <1>2, DivMonotone
  <1>5. k \in 0..((FileSize(p) - 1) \div SectorBytes)
    BY <1>3, <1>4
  <1>6. p # NoSector.of
    BY ProgramsAssumption
  <1> QED  BY <1>5, <1>6 DEF Taken

\* The converter refuses to make a file shorter than the check sum's range.
LEMMA FileLongEnough ==
    ASSUME DataOK, NEW p \in Programs, NEW i, Taken(i, p)
    PROVE  AppBase + CrcBytes <= FileEnd(p)
  <1>1. ~IsLoader(p) /\ 0 * SectorBytes < FileSize(p)
    BY Sizes, ProgramFile DEF Taken, Nat1
  <1> DEFINE s == FirstSector(card, card.dir[i].start) + 0
  <1>2. s \in DOMAIN card.data /\ card.data[s] = [of |-> p, k |-> 0] /\ card.data[s] # NoSector
    BY <1>1, FileSector
  <1>3. Convertible(card.data[s].of)
    <2> HIDE DEF s
    <2> QED  BY <1>2, CardsAssumption, Zenon DEF DataOK
  <1>4. Convertible(p)
    BY <1>2, <1>3
  <1>5. FileSize(p) >= SectorBytes + CrcBytes
    BY <1>1, <1>4 DEF Convertible, IsLoader
  <1> QED  BY <1>1, <1>5, ProgramFile, Sizes DEF Nat1

\* Byte j of sector k + 1 belongs at address AppBase + k * SectorBytes + j.
LEMMA FileBytes ==
    ASSUME NEW p \in Programs, ~IsLoader(p), NEW k \in Nat, NEW j \in 0..(SectorBytes - 1),
           NEW a \in Nat, a = AppBase + k * SectorBytes + j, a < FileEnd(p)
    PROVE  FileByte(p, k + 1, j) = Memory(p)[a]
  <1> DEFINE offset == (k + 1) * SectorBytes + j
  <1>1. SectorBytes \in Nat /\ SectorBytes > 0 /\ AppBase \in Nat /\ k * SectorBytes \in Nat
    BY Sizes DEF Nat1
  <1>2. (k + 1) * SectorBytes = k * SectorBytes + SectorBytes
    BY <1>1
  <1>3. offset \in Nat /\ offset = a - AppBase + SectorBytes
    BY <1>1, <1>2
  <1>4. /\ HeaderBytes(p) = SectorBytes /\ Base(p) = AppBase
        /\ FileEnd(p) = AppBase + FileSize(p) - SectorBytes /\ FileSize(p) \in Nat
    BY ProgramFile
  <1> HIDE DEF offset
  <1>5. ~(offset < HeaderBytes(p) \/ offset >= FileSize(p))
    BY <1>1, <1>3, <1>4
  <1>6. Base(p) + offset - HeaderBytes(p) = a
    BY <1>1, <1>3, <1>4
  <1> QED  BY <1>5, <1>6 DEF FileByte, offset

\* The header in the buffer is that of the file.
LEMMA HeaderOfFile ==
    ASSUME DataOK, NEW p \in Programs, NEW i, Taken(i, p)
    PROVE  LET s == FirstSector(card, card.dir[i].start) IN
           /\ s \in DOMAIN card.data
           /\ DataSector(card, s).header = Checked(Memory(p))
           /\ DataSector(card, s).header # NoHeader
  <1> DEFINE s == FirstSector(card, card.dir[i].start)
  <1>1. ~IsLoader(p) /\ 0 * SectorBytes < FileSize(p) /\ SectorBytes > 0
    BY Sizes, ProgramFile DEF Taken, Nat1
  <1>2. s + 0 \in DOMAIN card.data /\ card.data[s + 0] = [of |-> p, k |-> 0]
        /\ card.data[s + 0] # NoSector
    BY <1>1, FileSector
  <1>3. s + 0 = s
    <2>1. card.csize \in Int /\ card.dir[i].start \in Int
      <3>1. card.csize \in Nat1
        BY CardsAssumption, Zenon DEF DataOK
      <3>2. card.dir[i] \in EntrySet
        BY DEF Taken, Candidates, EntrySet, DataOK
      <3> QED  BY <3>1, <3>2, EntryIs DEF Nat1
    <2> QED  BY <2>1 DEF FirstSector
  <1>4. DataSector(card, s).header = Checked(Memory(p))
    <2>1. HeaderBytes(p) > 0
      BY <1>1, ProgramFile
    <2> HIDE DEF s
    <2> QED  BY <1>2, <1>3, <2>1 DEF DataSector
  <1>5. Checked(Memory(p)) # NoHeader
    <2>1. 0 \in 0..(CrcBytes - 1) /\ AppBase + 0 = AppBase /\ AppBase # 0
      BY Sizes DEF Nat1
    <2>2. Checked(Memory(p))[0] = <<p, AppBase>>
      BY <1>1, <2>1, ProgramFile DEF Checked
    <2>3. NoHeader[0] = Junk
      BY <2>1 DEF NoHeader
    <2>4. <<p, AppBase>> # Junk
      BY <2>1 DEF Junk
    <2> QED  BY <2>2, <2>3, <2>4
  <1> QED  BY <1>2, <1>3, <1>4, <1>5

LEMMA IndexIs ==
    ASSUME DataOK, NEW i \in DOMAIN card.dir
    PROVE  i \in Nat
  <1>1. card.listed \in Nat
    BY CardsAssumption, Zenon DEF DataOK
  <1>2. card.dir \in [0..(card.listed - 1) ->
                       [name : {"", "end", "firmware", "loader", "other"},
                        start : 0..LastCluster(card),
                        size : 0..(SectorBytes + Top - AppBase)]]
    BY CardsAssumption, Zenon DEF DataOK
  <1>3. DOMAIN card.dir = 0..(card.listed - 1)
    BY <1>2, Zenon
  <1> QED  BY <1>1, <1>3

\* Entry i of the k-th sector of the directory.
LEMMA EntryOfSector ==
    ASSUME DataOK, NEW k \in Nat, NEW i \in 0..(PerSector - 1)
    PROVE  LET e == DirSector(card, k).entries[i]
               m == k * PerSector + i
           IN  /\ e.name = "firmware" <=> m \in Candidates(card)
               /\ m \in Candidates(card) => e = card.dir[m]
  <1> DEFINE m == k * PerSector + i
  <1>1. DirSector(card, k).entries[i] = IF m \in DOMAIN card.dir THEN card.dir[m] ELSE NoMore
    BY DEF DirSector
  <1>2. NoMore.name # "firmware"
    BY DEF NoMore
  <1> HIDE DEF m
  <1>3. m \in Candidates(card) <=> m \in DOMAIN card.dir /\ card.dir[m].name = "firmware"
    BY DEF Candidates
  <1> QED  BY <1>1, <1>2, <1>3 DEF m
-----------------------------------------------------------------------------
(* The invariant *)

LEMMA CleanRead ==
    ASSUME NEW there, NEW contents, ReadInto(there, contents), clean'
    PROVE  there /\ clean /\ buf' = contents
  BY Zenon DEF ReadInto, Misread, seen

\* Behind the boot block the flash changes only where the loader is at work.
LEMMA AppStays ==
    ASSUME Place, [Next]_vars, pc \notin LoaderBlock
    PROVE  \A a \in App : flash'[a] = flash[a]
  <1>1. CASE flash' = flash
    BY <1>1
  <1>2. CASE pc \in Writing /\ InRow
    <2>1. pc \in UpdaterBlock
      BY <1>2 DEF Writing, LoaderBlock, UpdaterBlock
    <2>2. Row \cap App = {} /\ App \subseteq Addr
      BY <2>1, RowInBoot, Sizes DEF App, Addr, Nat1
    <2> QED  BY <1>2, <2>2, RowOnly DEF InRow, Spared
  <1> QED  BY <1>1, <1>2, Changes

LEMMA AreaInApp ==
    ASSUME NEW q \in Programs, ~IsLoader(q)
    PROVE  FileArea(q) \cup {AppBase} \subseteq App /\ CheckedArea \subseteq App
  BY ProgramFile, Sizes DEF App, CheckedArea, Nat1

LEMMA TrustStays ==
    ASSUME Place, [Next]_vars, Trusting, trusted' = trusted, pc' \notin LoaderBlock
    PROVE  Trusting'
  <1> SUFFICES ASSUME trusted PROVE Trusting'
    BY DEF Trusting
  <1>1. PICK q \in Programs : ~IsLoader(q) /\ Holds(q, FileArea(q) \cup {AppBase})
    BY DEF Trusting
  <1>2. \A a \in App : flash'[a] = flash[a]
    BY AppStays DEF Trusting
  <1>3. \A a \in FileArea(q) \cup {AppBase} : flash'[a] = Memory(q)[a]
    BY <1>1, <1>2, AreaInApp DEF Holds
  <1>4. Holds(q, FileArea(q) \cup {AppBase})' /\ (~IsLoader(q))'
    BY <1>1, <1>3 DEF Holds, IsLoader, FileArea, FileSize, RoundUp, Memory, Span, Base
  <1> QED  BY <1>4 DEF Trusting

\* A step that begins no search and ends none.
LEMMA Quiet ==
    ASSUME Place, [Next]_vars, Taking, trusted' = trusted,
           pc' \notin {"scan", "header"} \cup LoaderBlock,
           pc' = "start" => outcome' \in {"not asked", "no card"}
    PROVE  Taking'
  <1>1. Trusting'
    BY TrustStays DEF Taking
  <1>2. UpdateTakes'
    BY DEF UpdateTakes
  <1>3. Scanning' /\ pc' # "header" /\ pc' \notin LoaderBlock
    BY DEF Scanning
  <1> QED  BY <1>1, <1>2, <1>3 DEF Taking

\* The loader looked in vain: there is no file to take.
LEMMA NothingTaken ==
    ASSUME Trusting', card' = card, pc' = "start",
           clean' => \A i \in DOMAIN card.dir, p \in Programs : ~Taken(i, p)
    PROVE  Taking'
  <1>1. clean' => \A p \in Programs : ~Offers(card, p)'
    BY OffersIs, OfferStays
  <1>2. UpdateTakes'
    BY <1>1 DEF UpdateTakes
  <1> QED  BY <1>2 DEF Taking, Scanning, LoaderBlock

LEMMA MountTakes ==
    ASSUME Place, DataOK, Taking, mount
    PROVE  Taking'
  <1>1. trusted' = trusted /\ card' = card /\ Trusting' /\ [Next]_vars
    <2>1. trusted' = trusted /\ card' = card /\ pc' \in {"scan", "start"} /\ [Next]_vars
      BY DEF mount, ghosts, storage, Leave, Next, BootLoader
    <2> QED  BY <2>1, TrustStays DEF Taking, LoaderBlock
  <1>2. CASE outcome' = "no card" /\ pc' = "start"
    BY <1>1, <1>2, Quiet DEF LoaderBlock
  <1>3. CASE /\ card.fs # "none" /\ n_rootdir' = card.rootEntries \div PerSector /\ sector' = 0
             /\ IF n_rootdir' > 0 THEN pc' = "scan" ELSE pc' = "start"
    <2>1. card.rootEntries \in Nat /\ PerSector \in Nat /\ PerSector > 0
        <3>1. card.rootEntries \in Nat
        BY CardsAssumption, Zenon DEF DataOK
      <3> QED  BY <3>1, Sizes DEF Nat1
    <2>2. CASE n_rootdir' > 0 /\ pc' = "scan"
      <3>1. Scanning'
        <4>1. \A j \in Candidates(card) : 0 <= j
          BY IndexIs DEF Candidates
        <4>2. sector' * PerSector = 0 /\ n_rootdir' \in Int
          BY <1>3, <2>1
        <4> QED  BY <1>1, <1>3, <2>2, <4>1, <4>2 DEF Scanning, Candidates
      <3> QED  BY <1>1, <2>2, <3>1 DEF Taking, UpdateTakes, LoaderBlock
    <2>3. CASE ~(n_rootdir' > 0) /\ pc' = "start"
      <3>1. \A i \in DOMAIN card.dir, p \in Programs : ~Taken(i, p)
        <4> SUFFICES ASSUME NEW i \in DOMAIN card.dir, NEW p \in Programs, Taken(i, p) PROVE FALSE
          OBVIOUS
        <4>1. i \in Nat /\ i < n_rootdir'
          BY <1>3, IndexIs DEF Taken, Searched
        <4>2. n_rootdir' \in Int
          BY <1>3, <2>1
        <4> QED  BY <2>3, <4>1, <4>2
      <3> QED  BY <1>1, <2>3, <3>1, NothingTaken
    <2> QED  BY <1>3, <2>2, <2>3
  <1> QED  BY <1>2, <1>3, Zenon DEF mount, Leave

\* Mount and search go through the entries in order: the first one with the
\* name is the file.
LEMMA ScanTakes ==
    ASSUME Place, DataOK, CountsOK, Taking, ScanSector
    PROVE  Taking'
  <1>1. trusted' = trusted /\ card' = card /\ flash' = flash /\ pc = "scan" /\ Trusting' /\ [Next]_vars
    <2>1. /\ trusted' = trusted /\ card' = card /\ flash' = flash /\ pc = "scan"
          /\ pc' \in {"header", "scan", "start"} /\ [Next]_vars
      BY DEF ScanSector, ghosts, storage, Leave, Next, BootLoader
    <2> QED  BY <2>1, TrustStays DEF Taking, LoaderBlock
  <1>2. ASSUME clean' PROVE clean /\ buf' = DirSector(card, sector)
    BY <1>2, CleanRead DEF ScanSector
  <1> DEFINE here == sector * PerSector
             N == card.rootEntries \div PerSector
  <1>3. ASSUME clean'
        PROVE  /\ card.fs # "none" /\ sector \in Nat /\ n_rootdir > 0
               /\ n_rootdir + here = N
               /\ \A j \in Candidates(card) : here <= j
    BY <1>1, <1>2, <1>3 DEF Taking, Scanning
  <1>4. PerSector \in Nat /\ PerSector > 0 /\ n_rootdir \in Nat
        /\ \A j \in Candidates(card) : j \in Nat
    BY Sizes, IndexIs DEF CountsOK, Nat1, Candidates
  <1>5. CASE \E i \in First(buf') :
                /\ sector' = FirstSector(card, buf'.entries[i].start)
                /\ stop' = AppBase + buf'.entries[i].size - SectorBytes
                /\ pc' = "header"
    <2>1. PICK i \in First(buf') :
             /\ sector' = FirstSector(card, buf'.entries[i].start)
             /\ stop' = AppBase + buf'.entries[i].size - SectorBytes
             /\ pc' = "header"
      BY <1>5
    <2>2. ASSUME clean', NEW m \in DOMAIN card.dir, NEW p \in Programs, Taken(m, p)
          PROVE  Heading(m, p)'
      <3>1. i \in 0..(PerSector - 1) /\ i \in Found(buf') /\ \A j \in Found(buf') : i <= j
        BY <2>1 DEF First, Found
      <3>2. buf' = DirSector(card, sector) /\ sector \in Nat
        BY <1>2, <1>3, <2>2
      <3>3. here + i \in Candidates(card)
        BY <3>1, <3>2, EntryOfSector DEF Found
      <3>4. m \in Candidates(card) /\ m <= here + i /\ here <= m
        BY <1>3, <2>2, <3>3 DEF Taken
      <3>5. m = here + i
        <4> DEFINE j == m - here
        <4>1. here \in Nat /\ m \in Nat /\ i \in Nat /\ i <= PerSector - 1
          BY <1>4, <3>1, <3>2, <3>4
        <4> HIDE DEF here
        <4>2. j \in 0..(PerSector - 1) /\ here + j = m
          BY <1>4, <3>4, <4>1
        <4> HIDE DEF j
        <4>3. j \in Found(buf')
          BY <3>2, <3>4, <4>2, EntryOfSector DEF Found, here
        <4>4. i <= j
          BY <3>1, <4>3
        <4> QED  BY <3>4, <4>1, <4>2, <4>4
      <3>6. buf'.entries[i] = card.dir[m]
        BY <3>1, <3>2, <3>3, <3>5, EntryOfSector
      <3>7. sector' = FirstSector(card, card.dir[m].start) /\ stop' = FileEnd(p)
        BY <2>1, <2>2, <3>6 DEF Taken, FileEnd
      <3> QED  BY <1>1, <3>7 DEF Heading, FirstSector, FileEnd, FileSize, RoundUp
    <2>3. clean' => \A m \in DOMAIN card'.dir, p \in Programs : Taken(m, p)' => Heading(m, p)'
      BY <1>1, <2>2, OfferStays
    <2> QED  BY <1>1, <2>1, <2>3 DEF Taking, Scanning, UpdateTakes, LoaderBlock
  <1>6. CASE /\ Found(buf') = {} /\ sector' = sector + 1 /\ n_rootdir' = LeftAfter(n_rootdir)
             /\ IF n_rootdir' > 0 THEN pc' = "scan" ELSE pc' = "start"
    <2>1. ASSUME clean', NEW j \in Candidates(card) PROVE here + PerSector <= j
      <3>1. here <= j /\ j \in Nat /\ sector \in Nat /\ buf' = DirSector(card, sector)
        BY <1>2, <1>3, <1>4, <2>1
      <3>2. here \in Nat
        BY <1>4, <3>1
      <3> DEFINE i == j - here
      <3> HIDE DEF here
      <3>3. SUFFICES ASSUME i \in 0..(PerSector - 1) PROVE FALSE
        BY <1>4, <3>1, <3>2
      <3>4. here + i = j
        BY <3>1, <3>2
      <3> HIDE DEF i
      <3>5. i \in Found(buf')
        BY <2>1, <3>1, <3>3, <3>4, EntryOfSector DEF Found, here
      <3> QED  BY <1>6, <3>5
    <2>2. CASE n_rootdir' > 0 /\ pc' = "scan"
      <3>1. Scanning'
        <4> SUFFICES ASSUME clean' PROVE Scanning'
          BY DEF Scanning
        <4>1. sector \in Nat /\ n_rootdir + here = N /\ card.fs # "none"
          BY <1>3
        <4>2. sector' * PerSector = here + PerSector /\ here \in Nat /\ sector' \in Nat
          BY <1>4, <1>6, <4>1
        <4> HIDE DEF here, N
        <4>3. n_rootdir' = n_rootdir - PerSector
          BY <1>4, <1>6, <2>2 DEF LeftAfter
        <4>4. n_rootdir' + sector' * PerSector = N
          <5> DEFINE y == sector' * PerSector
          <5>1. y = here + PerSector
            BY <4>2
          <5> HIDE DEF y
          <5>2. n_rootdir' + y = N
            BY <1>4, <4>1, <4>2, <4>3, <5>1
          <5> QED  BY <5>2 DEF y
        <4>5. \A j \in Candidates(card) : sector' * PerSector <= j
          BY <2>1, <4>2
        <4> QED  BY <1>1, <2>2, <4>1, <4>2, <4>4, <4>5 DEF Scanning, Candidates, N
      <3> QED  BY <1>1, <2>2, <3>1 DEF Taking, UpdateTakes, LoaderBlock
    <2>3. CASE ~(n_rootdir' > 0) /\ pc' = "start"
      <3>1. ASSUME clean', NEW i \in DOMAIN card.dir, NEW p \in Programs, Taken(i, p)
            PROVE  FALSE
        <4>1. i \in Candidates(card) /\ i < N
          BY <3>1 DEF Taken, Searched
        <4>2. i \in Nat /\ here + PerSector <= i /\ sector \in Nat /\ n_rootdir + here = N
          BY <1>3, <1>4, <2>1, <3>1, <4>1
        <4>3. here \in Nat
          BY <1>4, <4>2
        <4> HIDE DEF here, N
        <4>4. n_rootdir <= PerSector
          BY <1>4, <1>6, <2>3 DEF LeftAfter
        <4> QED  BY <1>4, <4>1, <4>2, <4>3, <4>4
      <3> QED  BY <1>1, <2>3, <3>1, NothingTaken
    <2> QED  BY <1>6, <2>2, <2>3
  <1> QED  BY <1>5, <1>6, Zenon DEF ScanSector, Leave

\* The block that is written, counted from the start of the programs.
LEMMA AppBlock ==
    ASSUME Place, pc \in LoaderBlock
    PROVE  LET k == (address - AppBase) \div SectorBytes IN
           /\ k \in Nat /\ address = AppBase + k * SectorBytes
           /\ ((address + SectorBytes) - AppBase) \div SectorBytes = k + 1
  <1>1. SectorBytes \in Nat1 /\ SectorBytes \in Nat /\ SectorBytes > 0 /\ AppBase \in Nat
        /\ AppBase % SectorBytes = 0 /\ address \in Nat /\ address % SectorBytes = 0
        /\ AppBase <= address
    BY Sizes DEF Place, Nat1
  <1>2. PICK q \in Int : address = q * SectorBytes
    BY <1>1, Multiple
  <1>3. PICK r \in Int : AppBase = r * SectorBytes
    BY <1>1, Multiple
  <1> DEFINE d == q - r
  <1>4. d \in Int /\ address - AppBase = d * SectorBytes + 0 /\ 0 \in 0..(SectorBytes - 1)
    BY <1>1, <1>2, <1>3
  <1>5. (address + SectorBytes) - AppBase = (d + 1) * SectorBytes + 0 /\ d + 1 \in Int
    BY <1>1, <1>2, <1>3
  <1> HIDE DEF d
  <1>6. (address - AppBase) \div SectorBytes = d
    BY <1>1, <1>4, Divided
  <1>7. ((address + SectorBytes) - AppBase) \div SectorBytes = d + 1
    BY <1>1, <1>4, <1>5, Divided
  <1>8. d >= 0
    <2>1. SUFFICES ASSUME d <= -1 PROVE FALSE
      BY <1>4
    <2>2. d * SectorBytes <= (-1) * SectorBytes
      BY <1>1, <1>4, <2>1, Monotone
    <2> QED  BY <1>1, <1>4, <2>2
  <1> QED  BY <1>1, <1>4, <1>6, <1>7, <1>8

\* Two programs that both are at the start are one.
LEMMA SameTakes ==
    ASSUME DataOK, Trusting, buf'.header = Checked(flash), flash' = flash,
           NEW p \in Programs, ~IsLoader(p), buf'.header = Checked(Memory(p))
    PROVE  /\ \A a \in CheckedArea : flash'[a] = Memory(p)[a]
           /\ trusted => \A a \in FileArea(p) : flash'[a] = Memory(p)[a]
  <1>1. ASSUME NEW a \in CheckedArea PROVE flash[a] = Memory(p)[a]
    <2> DEFINE j == a - AppBase
    <2>1. j \in 0..(CrcBytes - 1) /\ AppBase + j = a
      BY Sizes DEF CheckedArea, Nat1
    <2> HIDE DEF j
    <2>2. Checked(flash)[j] = flash[a] /\ Checked(Memory(p))[j] = Memory(p)[a]
      BY <2>1 DEF Checked
    <2> QED  BY <2>2
  <1>2. ASSUME trusted PROVE \A a \in FileArea(p) : flash[a] = Memory(p)[a]
    <2>1. PICK q \in Programs : ~IsLoader(q) /\ Holds(q, FileArea(q) \cup {AppBase})
      BY <1>2 DEF Trusting
    <2>2. AppBase \in CheckedArea
      BY Sizes DEF CheckedArea, Nat1
    <2>3. flash[AppBase] = <<q, AppBase>> /\ flash[AppBase] = <<p, AppBase>>
      BY <1>1, <2>1, <2>2, ProgramFile DEF Holds
    <2>4. q = p
      BY <2>3
    <2> QED  BY <2>1, <2>4 DEF Holds
  <1> QED  BY <1>1, <1>2

LEMMA HoldsThen ==
    ASSUME NEW p, NEW area, \A a \in area : flash'[a] = Memory(p)[a]
    PROVE  \A a \in area : flash'[a] = (Memory(p)[a])'
  BY DEF Memory, Addr, Span, Base, Erased

\* What a step has to show for the property.
LEMMA NowTakes ==
    ASSUME card' = card,
           clean' => \A i \in DOMAIN card.dir, p \in Programs : Taken(i, p) =>
              /\ \A a \in CheckedArea : flash'[a] = Memory(p)[a]
              /\ trusted' => \A a \in FileArea(p) : flash'[a] = Memory(p)[a]
    PROVE  UpdateTakes'
  <1> SUFFICES ASSUME clean', NEW p \in Programs, Offers(card, p)'
               PROVE  Holds(p, CheckedArea)' /\ (trusted' => Holds(p, FileArea(p))')
    BY DEF UpdateTakes
  <1>1. PICK i \in DOMAIN card.dir : Taken(i, p)
    BY OffersIs, OfferStays
  <1>2. Holds(p, CheckedArea)'
    BY <1>1, HoldsThen DEF Holds, CheckedArea
  <1>3. trusted' => Holds(p, FileArea(p))'
    BY <1>1, HoldsThen DEF Holds, FileArea, FileSize, RoundUp
  <1> QED  BY <1>2, <1>3

LEMMA HeaderTakes ==
    ASSUME Place, DataOK, CountsOK, Taking, ReadHeader
    PROVE  Taking'
  <1>1. /\ pc = "header" /\ card' = card /\ flash' = flash /\ [Next]_vars
        /\ sector' = sector + 1 /\ address' = AppBase /\ row' = 0 /\ stop' = stop
    BY DEF ReadHeader, storage, Next, BootLoader
  <1>2. ASSUME clean', NEW i \in DOMAIN card.dir, NEW p \in Programs, Taken(i, p)
        PROVE  /\ clean /\ Heading(i, p) /\ ~IsLoader(p)
               /\ buf'.header = Checked(Memory(p)) /\ buf'.header # NoHeader
    <2>1. clean /\ buf' = DataSector(card, sector)
      BY <1>2, CleanRead DEF ReadHeader
    <2>2. Heading(i, p)
      BY <1>1, <1>2, <2>1 DEF Taking
    <2>3. ~IsLoader(p)
      BY <1>2 DEF Taken
    <2> QED  BY <1>2, <2>1, <2>2, <2>3, HeaderOfFile DEF Heading
  <1>3. CASE buf'.header = NoHeader
    <2>1. pc' = "start" /\ trusted' = trusted
      BY <1>3 DEF ReadHeader, Leave
    <2>2. Trusting'
      BY <1>1, <2>1, TrustStays DEF Taking, LoaderBlock
    <2> QED  BY <1>1, <1>2, <1>3, <2>1, <2>2, NothingTaken
  <1>4. CASE buf'.header # NoHeader /\ SameProgram
    <2>1. pc' = "start" /\ trusted' = trusted
      BY <1>4 DEF ReadHeader, Leave
    <2>2. Trusting'
      BY <1>1, <2>1, TrustStays DEF Taking, LoaderBlock
    <2>3. ASSUME clean', NEW i \in DOMAIN card.dir, NEW p \in Programs, Taken(i, p)
          PROVE  /\ \A a \in CheckedArea : flash'[a] = Memory(p)[a]
                 /\ trusted' => \A a \in FileArea(p) : flash'[a] = Memory(p)[a]
      <3>1. ~IsLoader(p) /\ buf'.header = Checked(Memory(p))
        BY <1>2, <2>3
      <3>2. buf'.header = Checked(flash) /\ Trusting
        BY <1>4 DEF SameProgram, Taking
      <3> QED  BY <1>1, <2>1, <3>1, <3>2, SameTakes
    <2>4. UpdateTakes'
      BY <1>1, <2>3, NowTakes
    <2> QED  BY <2>1, <2>2, <2>4 DEF Taking, Scanning, LoaderBlock
  <1>5. CASE buf'.header # NoHeader /\ ~SameProgram
    <2>1. trusted' = FALSE /\ IF AppBase < stop THEN pc' = "read" ELSE pc' = "start"
      BY <1>5 DEF ReadHeader, Leave
    <2>2. Trusting'
      BY <2>1 DEF Trusting
    <2>3. CASE AppBase < stop
      <3>1. ASSUME clean', NEW i \in DOMAIN card.dir, NEW p \in Programs, Taken(i, p)
            PROVE  Copying(i, p)'
        <4>1. sector = FirstSector(card, card.dir[i].start) /\ stop = FileEnd(p)
          BY <1>2, <3>1 DEF Heading
        <4>2. (address' - AppBase) \div SectorBytes = 0
          BY <1>1, Sizes DEF Nat1
        <4>3. sector \in Int /\ AppBase \in Int
          BY Sizes DEF CountsOK, Nat1
        <4>4. sector' = FirstSector(card', card'.dir[i].start) + 0 + 1
          BY <1>1, <4>1, <4>3
        <4>5. HasUpTo(p, address)'
          <5>1. AppBase..(address' - 1) = {}
            BY <1>1, <4>3
          <5> QED  BY <5>1 DEF HasUpTo
        <4>6. stop' = FileEnd(p)'
          BY <1>1, <4>1 DEF FileEnd, FileSize, RoundUp
        <4>7. pc' = "read"
          BY <2>1, <2>3
        <4> QED  BY <1>1, <4>2, <4>4, <4>5, <4>6, <4>7 DEF Copying, FirstSector
      <3>2. clean' => \A i \in DOMAIN card'.dir, p \in Programs : Taken(i, p)' => Copying(i, p)'
        BY <1>1, <3>1, OfferStays
      <3> QED  BY <2>1, <2>2, <2>3, <3>2 DEF Taking, Scanning, UpdateTakes
    <2>4. CASE ~(AppBase < stop)
      <3>1. ASSUME clean', NEW i \in DOMAIN card.dir, NEW p \in Programs, Taken(i, p)
            PROVE  FALSE
        <4>1. stop = FileEnd(p) /\ AppBase + CrcBytes <= FileEnd(p) /\ FileEnd(p) \in Nat
          BY <1>2, <3>1, FileLongEnough, ProgramFile DEF Heading
        <4> QED  BY <2>4, <4>1, Sizes DEF Nat1
      <3> QED  BY <1>1, <2>1, <2>2, <2>4, <3>1, NothingTaken
    <2> QED  BY <2>3, <2>4
  <1> QED  BY <1>3, <1>4, <1>5

\* What a step of the loader on a block has to show.
LEMMA BlockTakes ==
    ASSUME card' = card, trusted' = FALSE \/ trusted' = trusted, Taking, pc \in LoaderBlock,
           pc' \in LoaderBlock,
           clean' => \A i \in DOMAIN card.dir, p \in Programs : Taken(i, p) => Copying(i, p)'
    PROVE  Taking'
  <1>1. ~trusted'
    BY DEF Taking, Trusting
  <1>2. clean' => \A i \in DOMAIN card'.dir, p \in Programs : Taken(i, p)' => Copying(i, p)'
    BY OfferStays
  <1> QED  BY <1>1, <1>2 DEF Taking, Trusting, Scanning, UpdateTakes, LoaderBlock

LEMMA ReadTakes ==
    ASSUME Place, DataOK, CountsOK, Bounds, Taking, ReadSector
    PROVE  Taking'
  <1>1. /\ pc = "read" /\ pc' = "erase" /\ card' = card /\ flash' = flash /\ trusted' = trusted
        /\ sector' = sector + 1 /\ address' = address /\ row' = row /\ stop' = stop
    BY DEF ReadSector, storage, ghosts
  <1>2. ASSUME clean', NEW i \in DOMAIN card.dir, NEW p \in Programs, Taken(i, p)
        PROVE  Copying(i, p)'
    <2> DEFINE k == (address - AppBase) \div SectorBytes
               f == FirstSector(card, card.dir[i].start)
    <2>1. clean /\ buf' = DataSector(card, sector)
      BY <1>2, CleanRead DEF ReadSector
    <2>2. /\ stop = FileEnd(p) /\ row = 0 /\ sector = f + k + 1 /\ HasUpTo(p, address)
      BY <1>1, <1>2, <2>1 DEF Taking, Copying, LoaderBlock
    <2>3. k \in Nat /\ address = AppBase + k * SectorBytes
      BY <1>1, AppBlock DEF LoaderBlock
    <2>4. ~IsLoader(p) /\ address < FileEnd(p)
      BY <1>1, <1>2, <2>2 DEF Taken, Bounds, LoaderBlock
    <2>5. f \in Int
      <3>1. card.csize \in Nat1
        BY CardsAssumption, Zenon DEF DataOK
      <3>2. card.dir[i] \in EntrySet
        BY DEF EntrySet, DataOK
      <3>3. card.dir[i].start \in Nat /\ card.csize \in Nat
        BY <3>1, <3>2, EntryIs DEF Nat1
      <3> QED  BY <3>3 DEF FirstSector
    <2>6. /\ card.data[f + (k + 1)] = [of |-> p, k |-> k + 1] /\ card.data[f + (k + 1)] # NoSector
      <3>1. (k + 1) * SectorBytes < FileSize(p)
        <4>1. FileEnd(p) = AppBase + FileSize(p) - SectorBytes /\ FileSize(p) \in Nat
              /\ SectorBytes \in Nat /\ AppBase \in Nat
          BY <2>4, ProgramFile, Sizes DEF Nat1
        <4> HIDE DEF k
        <4>2. (k + 1) * SectorBytes = k * SectorBytes + SectorBytes /\ k * SectorBytes \in Nat
          BY <2>3, <4>1
        <4> QED  BY <2>3, <2>4, <4>1, <4>2
      <3>2. k + 1 \in Nat
        BY <2>3
      <3> HIDE DEF k
      <3> QED  BY <1>2, <3>1, <3>2, FileSector
    <2>7. sector = f + (k + 1)
      <3> HIDE DEF k, f
      <3> QED  BY <2>2, <2>3, <2>5
    <2>8. ASSUME NEW j \in 0..(SectorBytes - 1), address + j < stop
          PROVE  buf'.bytes[j] = Memory(p)[address + j]
      <3>1. buf'.bytes[j] = FileByte(p, k + 1, j)
        <4> HIDE DEF f, k
        <4> QED  BY <2>1, <2>6, <2>7 DEF DataSector
      <3> DEFINE a == address + j
      <3>2. a \in Nat /\ a = AppBase + k * SectorBytes + j /\ a < FileEnd(p)
        <4>1. SectorBytes \in Nat /\ AppBase \in Nat /\ address \in Nat
          BY Sizes DEF Nat1, Place
        <4> HIDE DEF k
        <4>2. k * SectorBytes \in Nat
          BY <2>3, <4>1
        <4> QED  BY <2>2, <2>3, <2>8, <4>1, <4>2
      <3> HIDE DEF a, k
      <3>3. FileByte(p, k + 1, j) = Memory(p)[a]
        BY <2>3, <2>4, <3>2, FileBytes
      <3> QED  BY <3>1, <3>3 DEF a
    <2>9. HasUpTo(p, RowBase)'
      <3>1. RowBase' = address
        <4>1. RowBytes \in Int /\ 0 * RowBytes = 0 /\ address \in Int
          BY Sizes DEF Nat1, Place
        <4>2. RowBase' = address + 0 * RowBytes
          BY <1>1, <2>2 DEF RowBase
        <4> QED  BY <4>1, <4>2
      <3>2. \A a \in AppBase..(address - 1) : a < FileEnd(p) => flash'[a] = Memory(p)[a]
        BY <1>1, <2>2 DEF HasUpTo
      <3> QED  BY <3>1, <3>2 DEF HasUpTo, FileEnd, FileSize, RoundUp, Memory, Span, Base
    <2>10. sector' = f + k + 2
      <3> HIDE DEF k, f
      <3> QED  BY <1>1, <2>3, <2>5, <2>7
    <2>11. stop' = FileEnd(p)' /\ FirstSector(card, card.dir[i].start)' = f
           /\ ((address - AppBase) \div SectorBytes)' = k
      BY <1>1, <2>2 DEF FileEnd, FileSize, RoundUp, FirstSector
    <2>12. \A j \in 0..(SectorBytes - 1) : address' + j < stop' => buf'.bytes[j] = Memory(p)[address' + j]
      BY <1>1, <2>8
    <2> HIDE DEF k, f
    <2> QED  BY <1>1, <2>9, <2>10, <2>11, <2>12 DEF Copying, Memory, Span, Base
  <1> QED  BY <1>1, <1>2, BlockTakes DEF LoaderBlock

LEMMA EraseTakes ==
    ASSUME Place, DataOK, Taking, EraseApp
    PROVE  Taking'
  <1>1. /\ pc = "erase" /\ pc' = "write" /\ card' = card /\ trusted' = trusted /\ clean' = clean
        /\ UNCHANGED <<sector, address, row, stop, buf>>
        /\ flash' = [a \in Addr |-> IF a \in Row THEN Erased ELSE flash[a]]
    BY DEF EraseApp, EraseRow, storage, ghosts, loader, block, seen
  <1>2. ASSUME clean', NEW i \in DOMAIN card.dir, NEW p \in Programs, Taken(i, p)
        PROVE  Copying(i, p)'
    <2>1. Copying(i, p) /\ HasUpTo(p, RowBase)
      BY <1>1, <1>2 DEF Taking, Copying, LoaderBlock
    <2>2. ASSUME NEW a \in AppBase..(RowBase - 1), a < FileEnd(p) PROVE flash'[a] = Memory(p)[a]
      <3>1. a \in Addr
        <4>1. FileEnd(p) \in Nat /\ FileEnd(p) <= Top
          BY <1>2, ProgramFile DEF Taken
        <4>2. AppBase \in Nat /\ Top \in Nat /\ RowBase \in Nat
          BY RowPlace, Sizes DEF Nat1
        <4> QED  BY <2>2, <4>1, <4>2 DEF Addr
      <3>2. a \notin Row
        BY RowPlace
      <3> QED  BY <1>1, <2>1, <2>2, <3>1, <3>2 DEF HasUpTo
    <2>3. RowBase' = RowBase
      BY <1>1 DEF RowBase
    <2>4. HasUpTo(p, RowBase)'
      BY <2>2, <2>3 DEF HasUpTo, FileEnd, FileSize, RoundUp, Memory, Span, Base
    <2> QED  BY <1>1, <2>1, <2>4 DEF Copying, FileEnd, FileSize, RoundUp, FirstSector, Memory, Span, Base
  <1> QED  BY <1>1, <1>2, BlockTakes DEF LoaderBlock

\* The row that is written is the one of the file.
LEMMA RowOfFile ==
    ASSUME Place, DataOK, WriteApp, NEW p \in Programs, ~IsLoader(p), NEW i, Copying(i, p),
           NEW n \in Int, n = RowBase + RowBytes
    PROVE  \A a \in AppBase..(n - 1) : a < FileEnd(p) => flash'[a] = Memory(p)[a]
  <1>0. pc = "write" /\ flash' = Written
    BY DEF WriteApp, WriteRow
  <1>1. /\ stop = FileEnd(p) /\ HasUpTo(p, RowBase)
        /\ \A j \in 0..(SectorBytes - 1) : address + j < stop => buf.bytes[j] = Memory(p)[address + j]
    BY <1>0 DEF Copying
  <1>2. FileEnd(p) \in Nat /\ FileEnd(p) <= Top /\ Top \in Nat /\ AppBase \in Nat
    BY ProgramFile, Sizes DEF Nat1
  <1>3. \A a \in 0..(n - 1) : a \in 0..(RowBase - 1) \/ a \in Row
    BY RowPlace
  <1>4. ASSUME NEW a \in AppBase..(n - 1), a < FileEnd(p) PROVE flash'[a] = Memory(p)[a]
    <2>1. a \in Addr /\ a \in 0..(n - 1)
      BY <1>2, <1>4 DEF Addr
    <2>2. CASE a \in Row
      <3>1. a - address \in 0..(SectorBytes - 1) /\ address + (a - address) = a
        BY <2>2, RowPlace
      <3>2. buf.bytes[a - address] = Memory(p)[a]
        BY <1>1, <1>4, <3>1
      <3> QED  BY <1>0, <2>1, <2>2, <3>2 DEF Written
    <2>3. CASE a \notin Row
      <3>1. a \in AppBase..(RowBase - 1)
        BY <1>2, <1>3, <1>4, <2>1, <2>3
      <3> QED  BY <1>0, <1>1, <1>4, <2>1, <2>3, <3>1 DEF Written, HasUpTo
    <2> QED  BY <2>2, <2>3
  <1> QED  BY <1>4

LEMMA LastRow ==
    ASSUME Place, ~(row + 1 < RowsPerSector)
    PROVE  RowBase + RowBytes = address + SectorBytes
  <1>1. SectorBytes % RowBytes = 0 /\ RowBytes \in Int /\ RowBytes > 0 /\ SectorBytes \in Int
    BY Sizes DEF Nat1
  <1>2. RowsPerSector \in Int /\ SectorBytes = RowsPerSector * RowBytes
    BY <1>1, DivMod DEF RowsPerSector
  <1>3. row \in 0..(RowsPerSector - 1)
    BY DEF Place
  <1>4. row + 1 = RowsPerSector /\ row \in Int
    BY <1>2, <1>3
  <1>5. row * RowBytes + RowBytes = (row + 1) * RowBytes /\ row * RowBytes \in Int
    BY <1>1, <1>4
  <1>6. address \in Nat
    BY DEF Place
  <1> QED  BY <1>1, <1>2, <1>4, <1>5, <1>6 DEF RowBase

LEMMA WriteTakes ==
    ASSUME Place, DataOK, CountsOK, Taking, WriteApp
    PROVE  Taking'
  <1> DEFINE next == IF address + SectorBytes < stop THEN "read" ELSE "start"
  <1>1. /\ pc = "write" /\ card' = card /\ clean' = clean
        /\ WriteRow("write", "erase", next)
        /\ UNCHANGED <<sector, stop, buf>>
        /\ IF pc' = "start" THEN trusted' = (clean /\ Usable) ELSE trusted' = trusted
    BY DEF WriteApp, WriteRow, loader, seen
  <1>2. ASSUME clean, NEW i \in DOMAIN card.dir, NEW p \in Programs, Taken(i, p)
        PROVE  Copying(i, p) /\ ~IsLoader(p)
    BY <1>1, <1>2 DEF Taking, Taken, LoaderBlock
  <1>3. ASSUME clean, NEW i \in DOMAIN card.dir, NEW p \in Programs, Taken(i, p),
               NEW n \in Int, n = RowBase + RowBytes
        PROVE  \A a \in AppBase..(n - 1) : a < FileEnd(p) => flash'[a] = Memory(p)[a]
    BY <1>2, <1>3, RowOfFile
  <1>4. address \in Nat /\ row \in Nat /\ RowBytes \in Nat /\ SectorBytes \in Nat /\ stop \in Int
        /\ RowBase \in Nat /\ AppBase \in Nat
    BY RowPlace, Sizes DEF CountsOK, Nat1
  <1>5. CASE row + 1 < RowsPerSector
    <2>1. row' = row + 1 /\ pc' = "erase" /\ address' = address /\ trusted' = trusted
      BY <1>1, <1>5 DEF WriteRow
    <2>2. RowBase' = RowBase + RowBytes
      <3>1. RowBase' = address + (row + 1) * RowBytes
        BY <2>1 DEF RowBase
      <3>2. (row + 1) * RowBytes = row * RowBytes + RowBytes /\ row * RowBytes \in Nat
        BY <1>4
      <3> QED  BY <1>4, <3>1, <3>2 DEF RowBase
    <2>3. ASSUME clean', NEW i \in DOMAIN card.dir, NEW p \in Programs, Taken(i, p)
          PROVE  Copying(i, p)'
      <3> DEFINE n == RowBase + RowBytes
      <3>1. n \in Int
        BY <1>4
      <3>2. RowBase' = n
        BY <2>2
      <3>3. \A a \in AppBase..(n - 1) : a < FileEnd(p) => flash'[a] = Memory(p)[a]
        BY <1>1, <1>3, <2>3, <3>1
      <3> HIDE DEF n
      <3>4. HasUpTo(p, RowBase)'
        BY <3>2, <3>3 DEF HasUpTo, FileEnd, FileSize, RoundUp, Memory, Span, Base
      <3>5. Copying(i, p)
        BY <1>1, <1>2, <2>3
      <3> QED  BY <1>1, <2>1, <3>4, <3>5 DEF Copying, FileEnd, FileSize, RoundUp, FirstSector, Memory, Span, Base
    <2> QED  BY <1>1, <2>1, <2>3, BlockTakes DEF LoaderBlock
  <1>6. CASE ~(row + 1 < RowsPerSector)
    <2>1. row' = 0 /\ pc' = next /\ address' = address + SectorBytes
      BY <1>1, <1>6 DEF WriteRow
    <2>2. RowBase + RowBytes = address'
      BY <1>6, <2>1, LastRow
    <2>3. ASSUME clean, NEW i \in DOMAIN card.dir, NEW p \in Programs, Taken(i, p)
          PROVE  \A a \in AppBase..(address' - 1) : a < FileEnd(p) => flash'[a] = Memory(p)[a]
      <3>1. address' \in Int
        BY <1>4, <2>1
      <3> QED  BY <1>3, <2>2, <2>3, <3>1
    <2>4. CASE address + SectorBytes < stop
      <3>1. pc' = "read" /\ trusted' = trusted
        BY <1>1, <2>1, <2>4
      <3>2. ASSUME clean', NEW i \in DOMAIN card.dir, NEW p \in Programs, Taken(i, p)
            PROVE  Copying(i, p)'
        <4> DEFINE k == (address - AppBase) \div SectorBytes
        <4>1. stop = FileEnd(p) /\ sector = FirstSector(card, card.dir[i].start) + k + 2
          BY <1>1, <1>2, <3>2 DEF Copying
        <4>2. k \in Nat /\ (address' - AppBase) \div SectorBytes = k + 1
          BY <1>1, <2>1, AppBlock DEF LoaderBlock
        <4>3. FirstSector(card, card.dir[i].start) \in Int
          <5>1. card.csize \in Nat1
            BY CardsAssumption, Zenon DEF DataOK
          <5>2. card.dir[i] \in EntrySet
            BY <3>2 DEF EntrySet, DataOK
          <5>3. card.dir[i].start \in Nat /\ card.csize \in Nat
            BY <5>1, <5>2, EntryIs DEF Nat1
          <5> QED  BY <5>3 DEF FirstSector
        <4>4. FirstSector(card, card.dir[i].start) + k + 2 = FirstSector(card, card.dir[i].start) + (k + 1) + 1
          <5> HIDE DEF k
          <5> QED  BY <4>2, <4>3
        <4>5. HasUpTo(p, address)'
          BY <1>1, <2>3, <3>2 DEF HasUpTo, FileEnd, FileSize, RoundUp, Memory, Span, Base
        <4>6. FirstSector(card, card.dir[i].start)' = FirstSector(card, card.dir[i].start)
              /\ ((address - AppBase) \div SectorBytes)' = k + 1 /\ FileEnd(p)' = FileEnd(p)
          BY <1>1, <4>2 DEF FirstSector, FileEnd, FileSize, RoundUp
        <4> HIDE DEF k
        <4> QED  BY <1>1, <2>1, <3>1, <4>1, <4>4, <4>5, <4>6 DEF Copying
      <3> QED  BY <1>1, <3>1, <3>2, BlockTakes DEF LoaderBlock
    <2>5. CASE ~(address + SectorBytes < stop)
      <3>1. pc' = "start" /\ trusted' = (clean /\ Usable)
        BY <1>1, <2>1, <2>5
      <3>2. ASSUME clean, NEW i \in DOMAIN card.dir, NEW p \in Programs, Taken(i, p)
            PROVE  /\ \A a \in CheckedArea : flash'[a] = Memory(p)[a]
                   /\ \A a \in FileArea(p) : flash'[a] = Memory(p)[a]
        <4>1. stop = FileEnd(p) /\ FileEnd(p) \in Nat /\ AppBase + CrcBytes <= FileEnd(p)
              /\ FileArea(p) = AppBase..(FileEnd(p) - 1)
          BY <1>1, <1>2, <3>2, ProgramFile, FileLongEnough DEF Copying
        <4>2. address' \in Int /\ FileEnd(p) <= address' /\ CrcBytes \in Nat
          BY <1>4, <2>1, <2>5, <4>1, Sizes DEF Nat1
        <4>3. \A a \in AppBase..(FileEnd(p) - 1) : flash'[a] = Memory(p)[a]
          BY <1>4, <2>3, <3>2, <4>1, <4>2
        <4>4. CheckedArea \subseteq AppBase..(FileEnd(p) - 1)
          BY <1>4, <4>1, <4>2 DEF CheckedArea
        <4> QED  BY <4>1, <4>3, <4>4
      <3>3. UpdateTakes'
        BY <1>1, <3>2, NowTakes
      <3>4. Trusting'
        <4> SUFFICES ASSUME clean, Usable PROVE Trusting'
          BY <3>1 DEF Trusting
        <4>1. PICK q \in Programs : Offers(card, q)
          BY DEF Usable
        <4>2. PICK i \in DOMAIN card.dir : Taken(i, q)
          BY <4>1, OffersIs
        <4>3. ~IsLoader(q) /\ AppBase \in CheckedArea
          BY <4>2, Sizes DEF Taken, CheckedArea, Nat1
        <4>4. \A a \in FileArea(q) \cup {AppBase} : flash'[a] = Memory(q)[a]
          BY <3>2, <4>2, <4>3
        <4>5. Holds(q, FileArea(q) \cup {AppBase})' /\ (~IsLoader(q))'
          BY <4>3, <4>4 DEF Holds, IsLoader, FileArea, FileSize, RoundUp, Memory, Span, Base
        <4> QED  BY <3>1, <4>5 DEF Trusting, LoaderBlock
      <3> QED  BY <3>1, <3>3, <3>4 DEF Taking, Scanning, LoaderBlock
    <2> QED  BY <2>4, <2>5
  <1> QED  BY <1>5, <1>6

\* The steps that have nothing to do with the search or the copy.
LEMMA OtherTakes ==
    ASSUME Place, Taking, [Next]_vars,
           ~mount, ~ScanSector, ~ReadHeader, ~ReadSector, ~EraseApp, ~WriteApp, vars' # vars
    PROVE  Taking'
  <1> USE DEF storage, block, loader, updater, seen, ghosts, LoaderBlock
  <1>1. trusted' = trusted
    BY Zenon DEF Next, BootLoader, BootUpdater, main, disk_initialise, EnterFirmware, ResetConfig,
       pf_mount, pf_open, pf_read, EraseBoot, EraseRow, WriteBoot, SetConfig, PowerOff, PowerOn
  <1>2. CASE main \/ disk_initialise
    <2>1. \/ pc' \in {"init", "mount", "dead"}
          \/ pc' = "start" /\ outcome' \in {"not asked", "no card"}
      BY <1>2 DEF main, disk_initialise, Leave
    <2> QED  BY <1>1, <2>1, Quiet
  <1>3. CASE EnterFirmware \/ BootUpdater \/ SetConfig \/ PowerOff \/ PowerOn
    <2>1. pc' \in {"dead", "reset", "firmware", "reset config", "pf_mount", "pf_open", "pf_read",
                   "bail", "erase boot", "write boot", "blink", "off"}
      BY <1>3, Zenon DEF EnterFirmware, BootUpdater, ResetConfig, pf_mount, pf_open, pf_read,
         EraseBoot, EraseRow, WriteBoot, WriteRow, SetConfig, PowerOff, PowerOn
    <2> QED  BY <1>1, <2>1, Quiet
  <1> QED  BY <1>2, <1>3 DEF Next, BootLoader

LEMMA TakingStep ==
    ASSUME Place, Types, Taking, [Next]_vars
    PROVE  Taking'
  <1>1. DataOK /\ CountsOK /\ Bounds
    BY DEF Types
  <1>2. CASE vars' = vars
    <2>1. /\ UNCHANGED <<card, pc, flash, clean, trusted, outcome, sector, n_rootdir>>
          /\ UNCHANGED <<stop, address, row, buf>>
      BY <1>2 DEF vars
    <2>2. Trusting'
      BY <2>1 DEF Taking, Trusting, Holds, IsLoader, FileArea, FileSize, RoundUp, Memory, Span, Base
    <2>3. UpdateTakes'
      BY <2>1, OfferStays DEF Taking, UpdateTakes, Holds, CheckedArea, FileArea, FileSize,
                               RoundUp, Memory, Span, Base
    <2>4. Scanning'
      BY <2>1 DEF Taking, Scanning, Candidates
    <2>5. \A i, p : (Heading(i, p)' <=> Heading(i, p)) /\ (Copying(i, p)' <=> Copying(i, p))
      BY <2>1 DEF Heading, Copying, FirstSector, FileEnd, FileSize, RoundUp, HasUpTo, Memory, Span,
                  Base, RowBase
    <2> QED  BY <2>1, <2>2, <2>3, <2>4, <2>5, OfferStays DEF Taking
  <1> QED  BY <1>1, <1>2, MountTakes, ScanTakes, HeaderTakes, ReadTakes, EraseTakes, WriteTakes,
              OtherTakes

LEMMA InitTaking == Init => Taking
  <1> SUFFICES ASSUME Init PROVE Taking
    OBVIOUS
  <1>1. Bodger \in Programs /\ ~IsLoader(Bodger)
    BY ProgramsAssumption DEF IsLoader
  <1>2. \A a \in App : a \in Addr /\ a \notin Boot
    BY Sizes DEF App, Addr, Boot, Nat1
  <1>3. Holds(Bodger, FileArea(Bodger) \cup {AppBase})
    BY <1>1, <1>2, AreaInApp DEF Init, Holds
  <1>4. pc = "off"
    BY DEF Init
  <1> QED  BY <1>1, <1>3, <1>4 DEF Taking, Trusting, Scanning, UpdateTakes, LoaderBlock

\* Asked to look, and with a readable card that has a program's file where it
\* looks, the loader starts with the program's first bytes, as far as the
\* check sum goes, in the flash, and with all of the file if no earlier
\* rewriting was cut short or misread: for any programs, cards and sizes, and
\* any history of cuts and misread sectors (main in BootLoader.c).
THEOREM LoaderTakesUpdate == Spec => []UpdateTakes
  <1>1. IInv /\ Types /\ Taking /\ [Next]_vars => Taking'
    BY TakingStep DEF IInv
  <1>2. Taking => UpdateTakes
    BY DEF Taking
  <1> QED  BY InitTaking, <1>1, <1>2, Invariant, Typing, PTL DEF Spec
=============================================================================
