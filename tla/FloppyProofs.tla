----------------------------- MODULE FloppyProofs -----------------------------
(***************************************************************************)
(* On a card that does not fail, for any names, directories, capacity and  *)
(* cards, while host files and the drives' images share the four FILs: no  *)
(* FIL loses what it still had to write; and, for a host with four of the  *)
(* habits, every step of the firmware is a step of the four floppy drives  *)
(* or changes nothing of theirs.                                           *)
(***************************************************************************)
EXTENDS AtomHostProofs

(* What a FIL has not written yet *)

\* DirtyDataReachesCard, of FIL h between two machines.
SameOpen(m, n, h) == n.fil[h].open /\ n.fil[h].path = m.fil[h].path

Carries(m, n, h) ==
    LET f == m.fil[h]
        g == n.fil[h]
    IN  /\ f.dirty /\ ~(SameOpen(m, n, h) /\ g.dirty /\ g.buf = f.buf) =>
              n.vol[f.path] # NoEntry /\ n.vol[f.path].blk[f.buf] = f.val
        /\ f.open /\ f.written /\ ~(SameOpen(m, n, h) /\ g.written) =>
              n.vol[f.path] # NoEntry /\ n.vol[f.path].size >= f.size

\* A FIL that is not open has nothing to write.
Clean(m, h) == m.fil[h].dirty => m.fil[h].open

LEMMA SameCarries ==
  ASSUME NEW m, NEW n, NEW h \in Slots, Clean(m, h), n.fil[h] = m.fil[h]
  PROVE  Carries(m, n, h)
  BY DEF Clean, Carries, SameOpen

LEMMA ShutCarries ==
  ASSUME NEW m, NEW n, NEW h \in Slots, Clean(m, h), ~m.fil[h].open
  PROVE  Carries(m, n, h)
  BY DEF Clean, Carries

----------------------------------------------------------------------------
(* The calls *)

LEMMA NewFil ==
  ASSUME NEW m \in MachineType, NEW h \in Slots, NEW f, NEW r, NEW v
  PROVE  /\ SetFil(m, h, f, r).fil[h] = f
         /\ SetData(SetFil(m, h, f, r), v).fil[h] = f
         /\ SetFil(m, h, f, r).res = r
  BY DEF SetFil, SetData, MachineType

LEMMA EntryWith ==
  ASSUME NEW a \in Entry, NEW i \in Sectors, NEW v \in Value
  PROVE  LET e == [a EXCEPT !.blk[i] = v] IN e \in Entry /\ e.blk[i] = v
<1> DEFINE b == [a.blk EXCEPT ![i] = v]
<1>1. b \in [Sectors -> Value] /\ b[i] = v
  BY DEF Entry
<1> HIDE DEF b
<1>2. LET e == [a EXCEPT !.blk = b] IN e \in Entry /\ e.blk = b
  BY <1>1 DEF Entry
<1>3. QED
  BY <1>1, <1>2 DEF b

LEMMA FlushWrites ==
  ASSUME NEW m, MachineOK(m), NEW h \in Slots, m.fil[h].open, m.fil[h].dirty
  PROVE  LET f == m.fil[h]
             e == FlushBuf(m, h).vol[f.path]
         IN  e # NoEntry /\ e.blk[f.buf] = f.val
<1> DEFINE f == m.fil[h]
           e == [m.vol[f.path] EXCEPT !.blk[f.buf] = f.val]
<1>1. /\ f.path \in Path /\ m.vol[f.path] \in Entry
      /\ f.buf \in Sectors /\ f.val \in Value
  BY OpenFil
<1>2. FlushBuf(m, h).vol = [m.vol EXCEPT ![f.path] = e]
  BY DEF FlushBuf, MachineOK, MachineType
<1>3. e \in Entry /\ e.blk[f.buf] = f.val
  BY <1>1, EntryWith, ZenonT(60)
<1> HIDE DEF e
<1>4. FlushBuf(m, h).vol[f.path] = e
  BY <1>1, <1>2 DEF MachineOK, MachineType
<1>5. QED
  BY <1>3, <1>4, NoEntryAssumption

\* What f_read, f_write and f_lseek leave of FIL h: it keeps its file, and if
\* its sector is no longer in it, that is on the card.
Serves(m, n, h) ==
    LET f == m.fil[h]
        g == n.fil[h]
    IN  /\ Kept(m, n, h)
        /\ \/ n.vol = m.vol /\ g.dirty = f.dirty /\ g.buf = f.buf
           \/ f.open /\ n.vol = FlushBuf(m, h).vol
        /\ f.open => (f.written => g.written) /\ f.size <= g.size

LEMMA ServesCarries ==
  ASSUME NEW m, MachineOK(m), NEW h \in Slots, Clean(m, h), NEW n, Serves(m, n, h)
  PROVE  Carries(m, n, h)
<1>1. CASE m.fil[h].open /\ n.vol = FlushBuf(m, h).vol
  BY <1>1, FlushWrites, ZenonT(60) DEF Serves, Kept, SameFile, Carries, SameOpen
<1>2. CASE n.vol = m.vol /\ n.fil[h].dirty = m.fil[h].dirty /\ n.fil[h].buf = m.fil[h].buf
  BY <1>2 DEF Serves, Kept, SameFile, Carries, SameOpen, Clean
<1>3. QED
  BY <1>1, <1>2 DEF Serves

LEMMA ServesClean ==
  ASSUME NEW m, NEW h \in Slots, m.fil[h].open, NEW n, Serves(m, n, h)
  PROVE  n.fil[h].open /\ n.fil[h].path = m.fil[h].path
  BY DEF Serves, Kept, SameFile

\* A refused call.
LEMMA ReturnServes ==
  ASSUME NEW m, MachineOK(m), NEW h \in Slots, NEW r \in Result
  PROVE  Serves(m, Return(m, r), h) /\ Return(m, r).fil = m.fil
         /\ Return(m, r).vol = m.vol /\ Return(m, r).res = r
<1>1. r \in 0..255
  BY ResultCodes
<1>2. /\ Kept(m, Return(m, r), h) /\ Return(m, r).fil = m.fil
      /\ Return(m, r).res = r /\ Return(m, r).vol = m.vol
  BY <1>1, ReturnLemma, VolKept, ZenonT(60) DEF MachineOK
<1>3. m.fil[h].open => m.fil[h].size <= m.fil[h].size
  BY OpenFil, CapacityAssumption DEF Fil
<1>4. QED
  BY <1>2, <1>3, Zenon DEF Serves

LEMMA CleanedFil ==
  ASSUME NEW f \in Fil
  PROVE  LET g == [f EXCEPT !.dirty = FALSE] IN
         /\ g \in Fil /\ ~g.dirty /\ g.written = f.written /\ g.size = f.size
  BY DEF Fil

LEMMA ReadServes ==
  ASSUME ~Faults, NEW m, MachineOK(m), NEW h \in Slots, NEW n \in f_read(m, h)
  PROVE  Serves(m, n, h) /\ (n.fil[h].dirty => m.fil[h].dirty)
<1> DEFINE f == m.fil[h]
           x == FlushBuf(m, h)
           y == LoadBuf(m, h, f.fptr)
           no == Refusal(f, CanRead(f))
<1>1. Kept(m, n, h)
  BY ReadLemma DEF CallResult
<1>2. CanRead(f) \in BOOLEAN
  BY DEF CanRead
<1>3. CASE no # FR_OK \/ f.fptr >= f.size
  <2>1. n = Return(m, no) \/ n = Return(m, FR_OK)
    BY <1>3 DEF f_read
  <2>2. no \in Result /\ FR_OK \in Result
    BY <1>2, RefusalLemma, ResultCodes
  <2> HIDE DEF no
  <2>3. QED
    BY <2>1, <2>2, ReturnServes
<1>4. CASE no = FR_OK /\ ~(f.fptr >= f.size)
  <2>1. f.open /\ f \in Fil
    BY <1>2, <1>4, RefusalLemma, OpenFil
  <2>2. f.fptr \in Sectors
    BY <1>4, <2>1, CapacityAssumption DEF Fil, Sectors
  <2>3. x \in MachineType /\ x.fil[h] = [f EXCEPT !.dirty = FALSE]
    BY <2>1, FlushLemma DEF Kept, MachineOK
  <2>4. /\ x.fil[h] \in Fil /\ ~x.fil[h].dirty
        /\ x.fil[h].written = f.written /\ x.fil[h].size = f.size
    BY <2>1, <2>3, CleanedFil
  <2>5. y = x \/ \E b, v : y = SetFil(x, h, [x.fil[h] EXCEPT !.buf = b, !.val = v], FR_OK)
    BY DEF LoadBuf
  <2>6. MachineOK(y) /\ y.fil[h].open
    BY <2>1, <2>2, LoadBufLemma DEF Kept, SameFile
  <2> HIDE DEF x, y
  <2>7. /\ y.vol = x.vol /\ ~y.fil[h].dirty
        /\ y.fil[h].written = f.written /\ y.fil[h].size = f.size
    <3>1. CASE y = x
      BY <2>4, <3>1
    <3>2. ASSUME NEW b, NEW v,
                 y = SetFil(x, h, [x.fil[h] EXCEPT !.buf = b, !.val = v], FR_OK)
          PROVE  /\ y.vol = x.vol /\ ~y.fil[h].dirty
                 /\ y.fil[h].written = f.written /\ y.fil[h].size = f.size
      <4> DEFINE g == [x.fil[h] EXCEPT !.buf = b, !.val = v]
      <4>1. ~g.dirty /\ g.written = f.written /\ g.size = f.size
        BY <2>4 DEF Fil
      <4> HIDE DEF g
      <4>2. y.vol = x.vol /\ y.fil[h] = g
        BY <2>3, <3>2, NewFil, VolKept DEF g
      <4>3. QED
        BY <4>1, <4>2
    <3>3. QED
      BY <2>5, <3>1, <3>2
  <2> DEFINE g == [y.fil[h] EXCEPT !.fptr = f.fptr + 1]
  <2>8. n = SetData(SetFil(y, h, g, FR_OK), y.fil[h].val)
    BY <1>4 DEF f_read, OrFault, y
  <2>9. y \in MachineType /\ y.fil[h] \in Fil
    BY <2>6, OpenFil DEF MachineOK
  <2>10. ~g.dirty /\ g.written = f.written /\ g.size = f.size
    BY <2>7, <2>9 DEF Fil
  <2> HIDE DEF g
  <2>11. n.vol = x.vol /\ n.fil[h] = g
    BY <2>7, <2>8, <2>9, NewFil, VolKept
  <2>12. f.size <= f.size
    BY <2>1, CapacityAssumption DEF Fil
  <2>13. QED
    BY <1>1, <2>1, <2>10, <2>11, <2>12 DEF Serves, x
<1>5. QED
  BY <1>3, <1>4

LEMMA WriteServes ==
  ASSUME ~Faults, NEW m, MachineOK(m), NEW h \in Slots, NEW v \in Value,
         NEW n \in f_write(m, h, v)
  PROVE  /\ Serves(m, n, h)
         /\ n.res = FR_OK => m.fil[h].open
         /\ n.res # FR_OK => n.fil = m.fil /\ n.vol = m.vol
<1> DEFINE f == m.fil[h]
           x == FlushBuf(m, h)
           no == Refusal(f, CanWrite(f))
           len == Larger(f.size, f.fptr + 1)
           g == [f EXCEPT !.buf = f.fptr, !.val = v, !.dirty = TRUE,
                          !.fptr = f.fptr + 1, !.size = len, !.written = TRUE]
           c == [f EXCEPT !.written = TRUE]
<1>1. Kept(m, n, h)
  BY WriteLemma DEF CallResult
<1>2. CanWrite(f) \in BOOLEAN
  BY DEF CanWrite
<1>3. CASE no # FR_OK
  <2>1. n = Return(m, no)
    BY <1>3 DEF f_write
  <2>2. no \in Result
    BY <1>2, RefusalLemma
  <2> HIDE DEF no
  <2>3. QED
    BY <1>3, <2>1, <2>2, ReturnServes
<1>4. ASSUME no = FR_OK
      PROVE  f.open /\ f \in Fil /\ f.size \in Int /\ f.fptr \in Int
  <2>1. f.open /\ f \in Fil
    BY <1>2, <1>4, RefusalLemma, OpenFil
  <2>2. QED
    BY <2>1, CapacityAssumption DEF Fil
<1>5. CASE no = FR_OK /\ f.fptr >= Capacity
  <2>1. n = SetFil(m, h, c, FR_OK)
    BY <1>5 DEF f_write
  <2>2. c.dirty = f.dirty /\ c.buf = f.buf /\ c.written /\ f.size <= c.size
    BY <1>4, <1>5 DEF Fil
  <2> HIDE DEF c
  <2>3. n.fil[h] = c /\ n.vol = m.vol /\ n.res = FR_OK
    BY <2>1, NewFil, VolKept DEF MachineOK
  <2>4. QED
    BY <1>1, <1>4, <1>5, <2>2, <2>3 DEF Serves
<1>6. CASE no = FR_OK /\ ~(f.fptr >= Capacity)
  <2>1. n = SetFil(x, h, g, FR_OK)
    BY <1>6 DEF f_write, OrFault
  <2>2. f.size <= len
    BY <1>4, <1>6 DEF Larger
  <2> HIDE DEF len
  <2>3. g.written /\ g.size = len
    BY <1>4, <1>6 DEF Fil
  <2>4. x \in MachineType
    BY <1>4, <1>6, FlushedMachine
  <2> HIDE DEF g, x
  <2>5. n.fil[h] = g /\ n.vol = x.vol /\ n.res = FR_OK
    BY <2>1, <2>4, NewFil, VolKept
  <2>6. QED
    BY <1>1, <1>4, <1>6, <2>2, <2>3, <2>5 DEF Serves, x
<1>7. QED
  BY <1>3, <1>5, <1>6

LEMMA SeekServes ==
  ASSUME ~Faults, NEW m, MachineOK(m), NEW h \in Slots, NEW ofs \in Nat,
         NEW n \in f_lseek(m, h, ofs)
  PROVE  Serves(m, n, h) /\ n.vol = m.vol /\ n.fil[h].dirty = m.fil[h].dirty
<1> DEFINE f == m.fil[h]
           no == Refusal(f, TRUE)
           to == SeekTo(f, ofs)
           len == Larger(f.size, to)
           g == [f EXCEPT !.fptr = to, !.size = len, !.written = @ \/ to > f.size]
<1>1. Kept(m, n, h)
  BY SeekLemma DEF CallResult
<1>2. CASE no # FR_OK
  <2>1. n = Return(m, no) /\ no \in Result
    BY <1>2, RefusalLemma DEF f_lseek
  <2> HIDE DEF no
  <2>2. QED
    BY <2>1, ReturnServes
<1>3. CASE no = FR_OK
  <2>1. n = SetFil(m, h, g, FR_OK)
    BY <1>3 DEF f_lseek, OrFault
  <2>2. f.open /\ f \in Fil /\ f.size \in Int /\ to \in Int
    <3>1. f.open /\ f \in Fil
      BY <1>3, RefusalLemma, OpenFil
    <3>2. QED
      BY <3>1, CapacityAssumption DEF Fil, SeekTo
  <2>3. f.size <= len
    BY <2>2 DEF Larger
  <2> HIDE DEF len, to
  <2>4. /\ g.dirty = f.dirty /\ g.buf = f.buf /\ g.size = len
        /\ f.written => g.written
    BY <2>2 DEF Fil
  <2> HIDE DEF g
  <2>5. n.fil[h] = g /\ n.vol = m.vol
    BY <2>1, NewFil, VolKept DEF MachineOK
  <2>6. QED
    BY <1>1, <2>3, <2>4, <2>5 DEF Serves
<1>4. QED
  BY <1>2, <1>3

\* A call of f_sync on an open FIL: its sector and its size are on the card.
Synced(m, n, h) ==
    LET f == m.fil[h]
        g == n.fil[h]
    IN  /\ ~g.dirty /\ g.size = f.size
        /\ f.written => /\ n.vol[f.path] # NoEntry /\ n.vol[f.path].size = f.size
                        /\ f.dirty => n.vol[f.path].blk[f.buf] = f.val
        /\ ~f.written => n.vol = m.vol /\ g = f

LEMMA SyncSynced ==
  ASSUME ~Faults, NEW m, MachineOK(m), NEW h \in Slots, m.fil[h].open,
         NEW n \in f_sync(m, h)
  PROVE  Synced(m, n, h) /\ n.res = FR_OK
<1> DEFINE f == m.fil[h]
           p == f.path
           x == FlushBuf(m, h)
           u == UpdateEntry(x, h)
<1>1. /\ f \in Fil /\ p \in Path
      /\ f.dirty => f.written /\ f.buf \in Sectors
  BY OpenFil
<1>2. CASE ~f.written
  <2>1. n = Return(m, FR_OK)
    BY <1>2 DEF f_sync
  <2>2. n.fil = m.fil /\ n.vol = m.vol /\ n.res = FR_OK
    BY <2>1, ReturnServes, ResultCodes
  <2>3. QED
    BY <1>1, <1>2, <2>2 DEF Synced
<1>3. CASE f.written
  <2>1. n = u
    BY <1>3 DEF f_sync, OrFault
  <2>2. /\ MachineOK(x) /\ x.fil[h] = [f EXCEPT !.dirty = FALSE]
        /\ x.fil[h].open
    BY FlushLemma DEF Kept, SameFile
  <2> DEFINE c == x.fil[h]
  <2>3. /\ c \in Fil /\ c.path = p /\ c.size = f.size /\ ~c.dirty
        /\ x.vol[p] \in Entry /\ x \in MachineType
    <3>1. c.path = p /\ c.size = f.size /\ ~c.dirty
      BY <1>1, <2>2 DEF Fil
    <3>2. QED
      BY <2>2, <3>1, OpenFil DEF MachineOK
  <2>4. f.dirty => x.vol[p].blk[f.buf] = f.val
    BY FlushWrites
  <2> HIDE DEF x
  <2> DEFINE e == [x.vol[p] EXCEPT !.size = c.size, !.attr = AM_ARC]
             k == [c EXCEPT !.written = FALSE]
  <2>5. /\ u.vol = [x.vol EXCEPT ![p] = e] /\ u.fil = [x.fil EXCEPT ![h] = k]
        /\ u.res = FR_OK
    BY <2>3 DEF UpdateEntry, MachineType
  <2>6. e \in Entry /\ e.size = f.size /\ e.blk = x.vol[p].blk
    BY <1>1, <2>3 DEF Entry, Fil, Attr
  <2>7. ~k.dirty /\ k.size = f.size
    BY <2>3 DEF Fil
  <2> HIDE DEF c, e, k, u
  <2>8. u.vol[p] = e /\ u.fil[h] = k
    BY <1>1, <2>3, <2>5 DEF MachineType
  <2>9. QED
    BY <1>3, <2>1, <2>4, <2>5, <2>6, <2>7, <2>8, NoEntryAssumption DEF Synced
<1>4. QED
  BY <1>2, <1>3

\* f_close releases the FIL; nothing it had to write is lost.
Released(m, n, h) ==
    LET f == m.fil[h] IN
    /\ ~n.fil[h].open /\ ~n.fil[h].dirty
    /\ f.open /\ f.written => n.vol[f.path] # NoEntry /\ n.vol[f.path].size = f.size
    /\ f.open /\ f.dirty => n.vol[f.path] # NoEntry /\ n.vol[f.path].blk[f.buf] = f.val
    /\ ~(f.open /\ f.written) => n.vol = m.vol

LEMMA CloseReleases ==
  ASSUME ~Faults, NEW m, MachineOK(m), NEW h \in Slots, Clean(m, h),
         NEW n \in f_close(m, h)
  PROVE  Released(m, n, h) /\ (m.fil[h].open => n.fil[h] = Closed)
                           /\ (~m.fil[h].open => n.fil = m.fil)
<1>1. PICK k \in f_sync(m, h) :
         n = IF k.res = FR_OK THEN [k EXCEPT !.fil[h] = Closed] ELSE k
  BY DEF f_close
<1>2. CASE ~m.fil[h].open
  <2>1. k = Return(m, FR_INVALID_OBJECT) /\ FR_INVALID_OBJECT \in Result
        /\ FR_INVALID_OBJECT # FR_OK
    BY <1>1, <1>2, ResultCodes DEF f_sync, Errors
  <2>2. k.fil = m.fil /\ k.vol = m.vol /\ k.res # FR_OK
    BY <2>1, ReturnServes
  <2>3. QED
    BY <1>1, <1>2, <2>2 DEF Released, Clean
<1>3. CASE m.fil[h].open
  <2>1. Synced(m, k, h) /\ k.res = FR_OK /\ MachineOK(k)
    BY <1>3, SyncSynced, SyncSpares DEF Kept
  <2>2. n.vol = k.vol /\ n.fil[h] = Closed
    BY <1>1, <2>1 DEF MachineOK, MachineType
  <2>3. ~Closed.dirty /\ ~Closed.open
    BY DEF Closed
  <2>4. m.fil[h].dirty => m.fil[h].written
    BY <1>3 DEF MachineOK, Sound
  <2>5. QED
    BY <1>3, <2>1, <2>2, <2>3, <2>4 DEF Released, Synced
<1>4. QED
  BY <1>2, <1>3

LEMMA ReleasedCarries ==
  ASSUME NEW m, MachineOK(m), NEW h \in Slots, Clean(m, h), NEW n, Released(m, n, h)
  PROVE  Carries(m, n, h)
<1>1. m.fil[h].open => m.fil[h].size \in Int
  BY OpenFil, CapacityAssumption DEF Fil
<1>2. QED
  BY <1>1, SMTT(30) DEF Released, Carries, Clean

\* f_open leaves a FIL with nothing to write.
Fresh(n, h) ==
    LET g == n.fil[h] IN ~g.dirty /\ (g.open => n.vol[g.path].size <= g.size)

LEMMA OpenFresh ==
  ASSUME NEW m, MachineOK(m), NEW h \in Slots, NEW p,
         NEW mode \in {"read", "write", "both"}, NEW how,
         NEW n \in f_open(m, h, p, mode, how)
  PROVE  Fresh(n, h)
<1> DEFINE k == [m EXCEPT !.vol[p] = NewEntry, !.fresh = @ \cup {p}]
<1>1. ASSUME NEW r, n = SetFil(m, h, Closed, r)
      PROVE  Fresh(n, h)
  <2>1. n.fil[h] = Closed
    BY <1>1, NewFil DEF MachineOK
  <2>2. QED
    BY <2>1 DEF Fresh, Closed
<1>2. ASSUME NEW x \in MachineType, NEW new, n = Opened(x, h, p, mode, new), p \in Path,
             x.vol[p] # NoEntry
      PROVE  Fresh(n, h)
  <2>1. n.fil[h].size = x.vol[p].size /\ n.vol = x.vol /\ n.fil[h].path = p
        /\ ~n.fil[h].dirty
    BY <1>2 DEF Opened, MachineType
  <2>2. x.vol[p].size \in Int
    BY <1>2, CapacityAssumption DEF MachineType, Entry
  <2>3. QED
    BY <2>1, <2>2 DEF Fresh
<1>3. p \in Path => k \in MachineType /\ k.vol[p] = NewEntry
  <2>1. ASSUME p \in Path PROVE k \in MachineType
    BY <2>1, NewEntryType, ZenonT(60) DEF MachineOK, MachineType
  <2>2. k.vol = [m.vol EXCEPT ![p] = NewEntry]
    BY DEF MachineOK, MachineType
  <2>3. QED
    BY <2>1, <2>2 DEF MachineOK, MachineType
<1>4. \/ \E r : n = SetFil(m, h, Closed, r)
      \/ p \in Path /\ n = Opened(k, h, p, mode, TRUE)
      \/ Exists(m, p) /\ n = Opened(m, h, p, mode, FALSE)
  BY DEF f_open, OrFault
<1> HIDE DEF k
<1>5. QED
  BY <1>1, <1>2, <1>3, <1>4, NewEntryType DEF Exists, MachineOK

----------------------------------------------------------------------------
(* What is true between two commands *)

HostSlots == {0, 1, 2}

\* A FIL of the host's: closed, or on a file with a host's name.
HostFil(f) == IF f.open THEN f.path[2] \in HostNames ELSE ~f.dirty

\* fildata[3] on an image, with nothing to write but perhaps a larger size.
ImageFil(m) ==
    LET f == m.fil[3] IN
    /\ ~f.dirty
    /\ f.open => /\ f.path[2] \in ImageNames
                 /\ m.vol[f.path].size <= f.size
                 /\ m.last # NoDrive

DataState(m) == (\A h \in HostSlots : HostFil(m.fil[h])) /\ ImageFil(m)

LEMMA DataClean ==
  ASSUME NEW m, DataState(m), NEW h \in Slots
  PROVE  Clean(m, h)
  BY DEF DataState, HostFil, ImageFil, Clean, Slots, HostSlots

LEMMA HostSlotFacts == /\ HostSlots = Slots \ {3} /\ 3 \notin HostSlots
                       /\ HostSlots \subseteq Slots /\ 0 \in HostSlots
  BY DEF HostSlots, Slots

\* Only the file p differs on the card.
OnlyPath(m, n, p) == \A q \in Path \ {p} : n.vol[q] = m.vol[q]

\* A step on a host's FIL and its file leaves the image alone.
LEMMA HostStepData ==
  ASSUME NEW m, NEW n, MachineOK(m), DataState(m), NEW h \in HostSlots,
         Frame(m, n, h), HostFil(n.fil[h]), NEW p, p[2] \notin ImageNames,
         OnlyPath(m, n, p)
  PROVE  DataState(n)
<1>1. \A g \in HostSlots : HostFil(n.fil[g])
  BY HostSlotFacts DEF DataState, Frame
<1>2. n.fil[3] = m.fil[3] /\ n.last = m.last
  BY HostSlotFacts, SlotFacts DEF Frame
<1>3. m.fil[3].open => n.vol[m.fil[3].path] = m.vol[m.fil[3].path]
  <2>1. m.fil[3].open => m.fil[3].path \in Path \ {p}
    BY OpenFil, SlotFacts DEF DataState, ImageFil
  <2>2. QED
    BY <2>1 DEF OnlyPath
<1>4. ImageFil(n)
  BY <1>2, <1>3 DEF DataState, ImageFil
<1>5. QED
  BY <1>1, <1>4 DEF DataState

LEMMA CfgName2 == CfgFile[2] \notin ImageNames
  BY NamesAssumption DEF CfgFile

\* The same for a call that stays on the FIL's own file.
LEMMA HostCallData ==
  ASSUME NEW m, NEW n, MachineOK(m), DataState(m), NEW h \in HostSlots,
         Frame(m, n, h), HostFil(n.fil[h]), OnlyFile(m, n, h)
  PROVE  DataState(n)
<1>1. CASE n.vol = m.vol
  <2>1. OnlyPath(m, n, CfgFile)
    BY <1>1 DEF OnlyPath
  <2>2. QED
    BY <2>1, CfgName2, HostStepData
<1>2. CASE m.fil[h].open /\ OnlyPath(m, n, m.fil[h].path)
  <2>1. m.fil[h].path[2] \notin ImageNames
    BY <1>2, NamesAssumption DEF DataState, HostFil
  <2>2. QED
    BY <1>2, <2>1, HostStepData
<1>3. QED
  BY <1>1, <1>2 DEF OnlyFile, OnlyPath

----------------------------------------------------------------------------
(* The drives on fildata[3] *)

\* ImageFil without its buffer: what holds also between a write and its sync.
ImageSize(m) ==
    LET f == m.fil[3] IN
    f.open => /\ f.path[2] \in ImageNames
              /\ m.vol[f.path].size <= f.size
              /\ m.last # NoDrive

LEMMA ImageParts ==
  ASSUME NEW m
  PROVE  ImageFil(m) <=> ImageSize(m) /\ ~m.fil[3].dirty
  BY DEF ImageFil, ImageSize

\* Image p has size z on the card, or will get at least that from fildata[3].
Owed(m, p, z) ==
    LET f == m.fil[3] IN
    \/ f.open /\ f.path = p /\ f.written /\ z <= f.size
    \/ m.vol[p] # NoEntry /\ z <= m.vol[p].size

Owes(m, n) ==
    \A p \in Path, z \in Nat : p[2] \in ImageNames /\ Owed(m, p, z) => Owed(n, p, z)

\* A step of a drive command: it keeps the host's FILs, but for fildata[0],
\* which it may use while no file is open in it, and the sizes of the images.
Holds(m, n) ==
    /\ MachineOK(n) /\ ImageSize(n) /\ Owes(m, n)
    /\ n.fil[1] = m.fil[1] /\ n.fil[2] = m.fil[2]
    /\ \/ n.fil[0] = m.fil[0]
       \/ ~m.fil[0].open /\ ~n.fil[0].open /\ ~n.fil[0].dirty

Passes(m, n) == Holds(m, n) /\ ~n.fil[3].dirty

LEMMA HoldsTrans ==
  ASSUME NEW m, NEW k, NEW n, Holds(m, k), Holds(k, n)
  PROVE  Holds(m, n)
<1>1. Owes(m, n)
  BY Zenon DEF Holds, Owes
<1>2. QED
  BY <1>1 DEF Holds

LEMMA PassesTrans ==
  ASSUME NEW m, NEW k, NEW n, Passes(m, k), Passes(k, n)
  PROVE  Passes(m, n)
  BY HoldsTrans DEF Passes

LEMMA PassesImage ==
  ASSUME NEW m, NEW n, Passes(m, n)
  PROVE  MachineOK(n) /\ ImageFil(n)
  BY ImageParts DEF Passes, Holds

\* Only the rest of the machine changes.
LEMMA SamePasses ==
  ASSUME NEW m, ImageFil(m), NEW n, MachineOK(n), n.vol = m.vol, n.fil = m.fil,
         n.last = m.last \/ ~n.fil[3].open
  PROVE  Passes(m, n)
  BY DEF ImageFil, ImageSize, Owes, Owed, Holds, Passes

LEMMA ImageEntry ==
  ASSUME NEW m, MachineOK(m), m.fil[3].open
  PROVE  /\ m.fil[3].path \in Path /\ m.fil[3].size \in Nat
         /\ m.vol[m.fil[3].path] # NoEntry /\ m.vol[m.fil[3].path].size \in Nat
<1>1. /\ m.fil[3] \in Fil /\ m.fil[3].path \in Path
      /\ m.vol[m.fil[3].path] \in Entry /\ m.vol[m.fil[3].path] # NoEntry
  BY OpenFil, SlotFacts
<1>2. m.fil[3].size \in Nat
  BY <1>1, CapacityAssumption DEF Fil
<1>3. m.vol[m.fil[3].path].size \in Nat
  BY <1>1, CapacityAssumption DEF Entry
<1>4. QED
  BY <1>1, <1>2, <1>3

LEMMA EntrySize ==
  ASSUME NEW m, MachineOK(m), NEW p \in Path, m.vol[p] # NoEntry
  PROVE  m.vol[p].size \in Nat
  BY CapacityAssumption DEF MachineOK, MachineType, Entry

\* f_read, f_write and f_lseek with nothing in the buffer to write back.
LEMMA ServesHolds ==
  ASSUME NEW m, MachineOK(m), ImageFil(m), NEW n, Serves(m, n, 3)
  PROVE  Holds(m, n)
<1>1. Kept(m, n, 3)
  BY DEF Serves
<1>2. n.vol = m.vol
  BY DEF Serves, ImageFil, FlushBuf
<1>3. /\ n.fil[0] = m.fil[0] /\ n.fil[1] = m.fil[1] /\ n.fil[2] = m.fil[2]
      /\ n.last = m.last
  BY <1>1, SlotFacts DEF Kept, Frame
<1>4. CASE ~m.fil[3].open
  <2>1. ~n.fil[3].open
    BY <1>1, <1>4 DEF Kept, SameFile
  <2>2. QED
    BY <1>1, <1>2, <1>3, <1>4, <2>1 DEF Kept, Holds, ImageSize, Owes, Owed
<1>5. CASE m.fil[3].open
  <2> DEFINE f == m.fil[3]
             g == n.fil[3]
  <2>1. /\ g.open /\ g.path = f.path /\ f.size <= g.size
        /\ f.written => g.written
    BY <1>1, <1>5 DEF Serves, Kept, SameFile
  <2>2. /\ f.size \in Nat /\ g.size \in Nat /\ m.vol[f.path].size \in Nat
    BY <1>1, <1>5, <2>1, ImageEntry DEF Kept
  <2>3. ImageSize(n)
    BY <1>2, <1>3, <1>5, <2>1, <2>2 DEF ImageFil, ImageSize
  <2>4. \A p \in Path, z \in Nat : Owed(m, p, z) => Owed(n, p, z)
    BY <1>2, <2>1, <2>2 DEF Owed
  <2>5. QED
    BY <1>1, <1>3, <2>3, <2>4 DEF Kept, Holds, Owes
<1>6. QED
  BY <1>4, <1>5

\* On the card a call on fildata[3] gives its file the size the FIL has, and
\* touches no other file.
Settles(m, n) ==
    LET f == m.fil[3] IN
    IF f.open /\ f.written
    THEN /\ n.vol[f.path] # NoEntry /\ n.vol[f.path].size = f.size
         /\ \A q \in Path \ {f.path} : n.vol[q] = m.vol[q]
    ELSE n.vol = m.vol

LEMMA SettlesOwes ==
  ASSUME NEW m, MachineOK(m), ImageSize(m), NEW n, Settles(m, n)
  PROVE  Owes(m, n)
<1> DEFINE f == m.fil[3]
<1>1. CASE ~(f.open /\ f.written)
  BY <1>1 DEF Settles, Owes, Owed
<1>2. CASE f.open /\ f.written
  <2>1. /\ f.size \in Nat /\ m.vol[f.path].size \in Nat
        /\ m.vol[f.path].size <= f.size
    BY <1>2, ImageEntry DEF ImageSize
  <2>2. /\ n.vol[f.path] # NoEntry /\ n.vol[f.path].size = f.size
        /\ \A q \in Path \ {f.path} : n.vol[q] = m.vol[q]
    BY <1>2 DEF Settles
  <2>3. ASSUME NEW p \in Path, NEW z \in Nat, Owed(m, p, z) PROVE Owed(n, p, z)
    <3>1. CASE p = f.path
      <4>1. z <= f.size
        BY <2>1, <2>3, <3>1 DEF Owed
      <4>2. QED
        BY <2>2, <3>1, <4>1 DEF Owed
    <3>2. CASE p # f.path
      BY <2>2, <2>3, <3>2 DEF Owed
    <3>3. QED
      BY <3>1, <3>2
  <2>4. QED
    BY <2>3 DEF Owes
<1>3. QED
  BY <1>1, <1>2

LEMMA OnlySettles ==
  ASSUME NEW m, NEW n, OnlyFile(m, n, 3),
         ~(m.fil[3].open /\ m.fil[3].written) => n.vol = m.vol,
         m.fil[3].open /\ m.fil[3].written =>
             /\ n.vol[m.fil[3].path] # NoEntry
             /\ n.vol[m.fil[3].path].size = m.fil[3].size
  PROVE  Settles(m, n)
  BY DEF OnlyFile, Settles

LEMMA SyncPasses ==
  ASSUME ~Faults, NEW m, MachineOK(m), ImageSize(m), m.fil[3].open,
         NEW n \in f_sync(m, 3)
  PROVE  Passes(m, n)
<1> DEFINE f == m.fil[3]
<1>1. Kept(m, n, 3) /\ OnlyFile(m, n, 3) /\ Synced(m, n, 3)
  BY SyncSpares, SyncSynced, SlotFacts
<1>2. Settles(m, n)
  BY <1>1, OnlySettles DEF Synced
<1>3. Owes(m, n)
  BY <1>2, SettlesOwes
<1>4. ImageSize(n)
  <2>1. n.fil[3].path = f.path /\ n.fil[3].size = f.size /\ n.last = m.last
    BY <1>1 DEF Kept, SameFile, Frame, Synced
  <2>2. n.vol[f.path].size = f.size \/ n.vol = m.vol
    BY <1>2 DEF Settles
  <2>3. f.size \in Nat
    BY ImageEntry
  <2>4. QED
    BY <2>1, <2>2, <2>3 DEF ImageSize
<1>5. QED
  BY <1>1, <1>3, <1>4, SlotFacts DEF Kept, Frame, Synced, Holds, Passes

LEMMA ClosePasses ==
  ASSUME ~Faults, NEW m, MachineOK(m), ImageFil(m), NEW n \in f_close(m, 3)
  PROVE  Passes(m, n) /\ ~n.fil[3].open
<1>1. /\ MachineOK(n) /\ Frame(m, n, 3) /\ OnlyFile(m, n, 3)
  BY CloseLemma, CloseSpares, SlotFacts
<1>2. Released(m, n, 3)
  BY CloseReleases, SlotFacts DEF Clean, ImageFil
<1>3. Settles(m, n)
  BY <1>1, <1>2, OnlySettles DEF Released
<1>4. Owes(m, n)
  BY <1>3, SettlesOwes, ImageParts
<1>5. ImageSize(n)
  BY <1>2 DEF Released, ImageSize
<1>6. QED
  BY <1>1, <1>2, <1>4, <1>5, SlotFacts DEF Frame, Released, Holds, Passes

\* f_open of an existing file leaves the card alone.
LEMMA OpenExisting ==
  ASSUME NEW m, MachineOK(m), NEW h \in Slots, NEW p, NEW mode,
         NEW n \in f_open(m, h, p, mode, "existing")
  PROVE  n.vol = m.vol
<1>1. \/ \E r : n = SetFil(m, h, Closed, r)
      \/ n = Opened(m, h, p, mode, FALSE)
  BY DEF f_open, OrFault, Exists
<1>2. Opened(m, h, p, mode, FALSE).vol = m.vol
  BY DEF Opened, MachineOK, MachineType
<1>3. \A r : SetFil(m, h, Closed, r).vol = m.vol
  BY VolKept DEF MachineOK
<1>4. QED
  BY <1>1, <1>2, <1>3

LEMMA ImagePath2 ==
  ASSUME NEW m, MachineOK(m), NEW d \in Drives, <<m.cdir, m.drv[d].name>> \in Path
  PROVE  m.drv[d].name \in ImageNames
<1>1. m.drv[d].name \in ImageNames \cup {NoName}
  BY DriveType DEF ImgInfo
<1>2. m.drv[d].name \in Names
  BY DEF Path
<1>3. QED
  BY <1>1, <1>2, NamesAssumption DEF Names

\* The open of switchDrive, in a fildata[3] that was closed.
LEMMA OpenImagePasses ==
  ASSUME NEW m, MachineOK(m), ~m.fil[3].open, NEW p, p \in Path => p[2] \in ImageNames,
         NEW o \in f_open(m, 3, p, "both", "existing"), NEW d \in Drives,
         NEW n, n = IF o.res = FR_OK THEN [o EXCEPT !.last = d] ELSE o
  PROVE  Passes(m, n)
<1>1. OpenResult(m, o, 3, p, "both") /\ Fresh(o, 3) /\ o.vol = m.vol
  BY OpenLemma, OpenFresh, OpenExisting, SlotFacts
<1>2. /\ MachineOK(n) /\ n.vol = o.vol /\ n.fil = o.fil
      /\ o.res = FR_OK => n.last = d
  BY <1>1, SelectLemma DEF OpenResult
<1>3. n.fil[3].open => n.fil[3].path = p /\ p \in Path /\ o.res = FR_OK
  BY <1>1, <1>2 DEF OpenResult
<1>4. ImageSize(n) /\ ~n.fil[3].dirty
  BY <1>1, <1>2, <1>3, SlotFacts DEF Fresh, ImageSize
<1>5. Owes(m, n)
  BY <1>1, <1>2 DEF Owes, Owed
<1>6. QED
  BY <1>1, <1>2, <1>4, <1>5, SlotFacts DEF OpenResult, Frame, Holds, Passes

LEMMA SwitchPasses ==
  ASSUME ~Faults, NEW m, MachineOK(m), ImageFil(m), NEW d \in Drives,
         NEW n \in switchDrive(m, d)
  PROVE  Passes(m, n)
<1>1. CASE d = m.last
  <2>1. n = Return(m, FR_OK) /\ FR_OK \in 0..255
    BY <1>1, ResultCodes DEF switchDrive
  <2>2. OnlyResult(m, n, FR_OK)
    BY <2>1, ReturnSame
  <2>3. QED
    BY <2>2, SamePasses DEF OnlyResult
<1>2. CASE d # m.last
  <2> DEFINE p == <<m.cdir, m.drv[d].name>>
  <2>1. PICK c \in (IF m.last # NoDrive THEN f_close(m, SDDOS_FILE) ELSE {m}) :
          \E o \in f_open([c EXCEPT !.last = NoDrive], SDDOS_FILE, p,
                          "both", "existing") :
             n = IF o.res = FR_OK THEN [o EXCEPT !.last = d] ELSE o
    BY <1>2 DEF switchDrive
  <2>2. Passes(m, c) /\ ~c.fil[3].open
    <3>1. CASE m.last # NoDrive
      BY <2>1, <3>1, ClosePasses, SlotFacts
    <3>2. CASE m.last = NoDrive
      BY <2>1, <3>2, SamePasses DEF ImageFil
    <3>3. QED
      BY <3>1, <3>2
  <2> DEFINE x == [c EXCEPT !.last = NoDrive]
  <2>3. MachineOK(c) /\ ImageFil(c)
    BY <2>2, PassesImage
  <2>4. MachineOK(x) /\ x.vol = c.vol /\ x.fil = c.fil
    BY <2>3, SelectLemma
  <2>5. p \in Path => p[2] \in ImageNames
    BY ImagePath2
  <2> HIDE DEF x, p
  <2>6. Passes(c, x)
    BY <2>2, <2>3, <2>4, SamePasses
  <2>7. PICK o \in f_open(x, 3, p, "both", "existing") :
             n = IF o.res = FR_OK THEN [o EXCEPT !.last = d] ELSE o
    BY <2>1, SlotFacts DEF x
  <2>8. Passes(x, n)
    BY <2>2, <2>4, <2>5, <2>7, OpenImagePasses
  <2>9. QED
    BY <2>2, <2>6, <2>8, PassesTrans
<1>3. QED
  BY <1>1, <1>2

LEMMA TryPasses ==
  ASSUME ~Faults, NEW m, MachineOK(m), ImageFil(m), NEW d \in Drives,
         m.drv[d].attribs # Unset, NEW n \in tryOpenImage(m, d)
  PROVE  Passes(m, n)
<1>1. PICK x \in switchDrive(m, d) :
         \/ \E r : n = Return(x, r)
         \/ \E a : n = Return([x EXCEPT !.drv[d].attribs = a], a)
  BY DEF tryOpenImage
<1>2. Passes(m, x) /\ MachineOK(x) /\ ImageFil(x)
  BY <1>1, SwitchPasses, PassesImage
<1>3. MachineOK(n)
  BY TryLemma DEF Selects
<1>4. n.vol = x.vol /\ n.fil = x.fil /\ n.last = x.last
  BY <1>1, <1>2 DEF Return, MachineOK, MachineType
<1>5. Passes(x, n)
  BY <1>2, <1>3, <1>4, SamePasses
<1>6. QED
  BY <1>2, <1>5, PassesTrans

LEMMA SetDrivePasses ==
  ASSUME NEW m, MachineOK(m), ImageFil(m), NEW d \in Drives, NEW info \in ImgInfo
  PROVE  Passes(m, SetDrive(m, d, info))
<1>1. LET n == SetDrive(m, d, info) IN
      MachineOK(n) /\ n.fil = m.fil /\ n.last = m.last /\ n.vol = m.vol
  <2>1. SetDrive(m, d, info).vol = m.vol
    BY DEF SetDrive, MachineOK, MachineType
  <2>2. QED
    BY <2>1, SetDriveLemma
<1>2. QED
  BY <1>1, SamePasses

LEMMA UnusedPasses ==
  ASSUME NEW m, MachineOK(m), ImageFil(m), NEW d \in Drives
  PROVE  Passes(m, SetDrive(m, d, Unused))
  BY DriveType, SetDrivePasses

LEMMA ValidatePasses ==
  ASSUME ~Faults, NEW m, MachineOK(m), ImageFil(m), NEW d \in Drives,
         NEW n \in ValidateDrive(m, d)
  PROVE  Passes(m, n) /\ MachineOK(n) /\ ImageFil(n)
<1>1. CASE m.drv[d].attribs = Unset
  BY <1>1, UnusedPasses, PassesImage DEF ValidateDrive
<1>2. CASE m.drv[d].attribs # Unset
  <2>1. PICK t \in tryOpenImage(m, d) : n = SetDrive(t, d, Unused) \/ n = t
    BY <1>2 DEF ValidateDrive
  <2>2. Passes(m, t) /\ MachineOK(t) /\ ImageFil(t)
    BY <1>2, <2>1, TryPasses, PassesImage
  <2>3. QED
    BY <2>1, <2>2, UnusedPasses, PassesTrans, PassesImage
<1>3. QED
  BY <1>1, <1>2

LEMMA ValidateAllPasses ==
  ASSUME ~Faults, NEW m, MachineOK(m), ImageFil(m), NEW n \in ValidateAll(m)
  PROVE  Passes(m, n) /\ MachineOK(n) /\ ImageFil(n)
<1>1. PICK m1 \in ValidateDrive(m, 0) :
         \E m2 \in ValidateDrive(m1, 1) : \E m3 \in ValidateDrive(m2, 2) :
             n \in ValidateDrive(m3, 3)
  BY DEF ValidateAll
<1>2. Passes(m, m1) /\ MachineOK(m1) /\ ImageFil(m1)
  BY <1>1, ValidatePasses, SlotFacts
<1>3. PICK m2 \in ValidateDrive(m1, 1) : \E m3 \in ValidateDrive(m2, 2) :
         n \in ValidateDrive(m3, 3)
  BY <1>1
<1>4. Passes(m1, m2) /\ MachineOK(m2) /\ ImageFil(m2)
  BY <1>2, <1>3, ValidatePasses, SlotFacts
<1>5. PICK m3 \in ValidateDrive(m2, 2) : n \in ValidateDrive(m3, 3)
  BY <1>3
<1>6. Passes(m2, m3) /\ MachineOK(m3) /\ ImageFil(m3)
  BY <1>4, <1>5, ValidatePasses, SlotFacts
<1>7. Passes(m3, n) /\ MachineOK(n) /\ ImageFil(n)
  BY <1>5, <1>6, ValidatePasses, SlotFacts
<1>8. QED
  BY <1>2, <1>4, <1>6, <1>7, PassesTrans

----------------------------------------------------------------------------
(* BOOTDRV.CFG goes through fildata[0] *)

\* f_open writes no file but its own.
LEMMA OpenOnlyPath ==
  ASSUME NEW m, MachineOK(m), NEW h \in Slots, NEW p, NEW mode, NEW how,
         NEW n \in f_open(m, h, p, mode, how)
  PROVE  OnlyPath(m, n, p)
<1>1. n.vol = m.vol \/ n.vol = [m.vol EXCEPT ![p] = NewEntry]
  BY OpenVol
<1>2. QED
  BY <1>1 DEF OnlyPath, MachineOK, MachineType

LEMMA FilOnlyPath ==
  ASSUME NEW m, NEW n, NEW h \in Slots, OnlyFile(m, n, h)
  PROVE  OnlyPath(m, n, m.fil[h].path)
  BY DEF OnlyFile, OnlyPath

LEMMA OnlyPathTrans ==
  ASSUME NEW m, NEW k, NEW n, NEW p, OnlyPath(m, k, p), OnlyPath(k, n, p)
  PROVE  OnlyPath(m, n, p)
  BY DEF OnlyPath

\* fildata[0] is closed again, and only the file p was written.
LEMMA ScratchPasses ==
  ASSUME NEW m, MachineOK(m), ImageFil(m), ~m.fil[0].open, NEW n, ThroughScratch(m, n),
         NEW p, p[2] \notin ImageNames, OnlyPath(m, n, p),
         ~n.fil[0].open, ~n.fil[0].dirty
  PROVE  Passes(m, n)
<1>1. /\ n.fil[1] = m.fil[1] /\ n.fil[2] = m.fil[2] /\ n.fil[3] = m.fil[3]
      /\ n.last = m.last /\ MachineOK(n)
  BY SlotFacts DEF ThroughScratch
<1>2. \A q \in Path : q[2] \in ImageNames => n.vol[q] = m.vol[q]
  BY DEF OnlyPath
<1>3. ImageSize(n)
  <2>1. m.fil[3].open => m.fil[3].path \in Path
    BY ImageEntry
  <2>2. QED
    BY <1>1, <1>2, <2>1 DEF ImageFil, ImageSize
<1>4. Owes(m, n)
  BY <1>1, <1>2 DEF Owes, Owed
<1>5. QED
  BY <1>1, <1>3, <1>4 DEF ImageFil, Holds, Passes

\* What becomes of fildata[0] between the open of BOOTDRV.CFG and its close.
LEMMA CfgClosed ==
  ASSUME ~Faults, NEW l, MachineOK(l), l.fil[0].open, NEW n \in f_close(l, 0)
  PROVE  OnlyPath(l, n, l.fil[0].path) /\ ~n.fil[0].open /\ ~n.fil[0].dirty
<1>1. OnlyFile(l, n, 0)
  BY CloseSpares, SlotFacts
<1>2. Released(l, n, 0)
  BY CloseReleases, SlotFacts DEF Clean
<1>3. QED
  BY <1>1, <1>2, FilOnlyPath, SlotFacts DEF Released

LEMMA SavePasses ==
  ASSUME ~Faults, NEW m, MachineOK(m), ImageFil(m), ~m.fil[0].open,
         NEW n \in saveDrivesImpl(m)
  PROVE  Passes(m, n) /\ OnlyPath(m, n, <<m.cdir, CfgName>>)
<1> DEFINE x == SetData(m, Alien)
           p == <<m.cdir, CfgName>>
<1>1. ThroughScratch(m, n)
  BY SaveLemma
<1>2. MachineOK(x) /\ x.vol = m.vol
  BY SetDataLemma, SlotFacts
<1>3. p[2] \notin ImageNames
  BY NamesAssumption
<1> HIDE DEF x, p
<1>4. PICK o \in f_open(x, 0, p, "write", "always") :
         n \in (IF o.res # FR_OK THEN {o}
                ELSE UNION {f_close(w, 0) : w \in f_write(o, 0, o.drv)})
  BY DEF saveDrivesImpl, x, p
<1>5. OpenResult(x, o, 0, p, "write") /\ Fresh(o, 0) /\ OnlyPath(x, o, p)
  BY <1>2, <1>4, OpenLemma, OpenFresh, OpenOnlyPath, SlotFacts
<1>6. OnlyPath(m, o, p) /\ MachineOK(o)
  BY <1>2, <1>5 DEF OnlyPath, OpenResult
<1>7. CASE o.res # FR_OK
  <2>1. n = o /\ ~n.fil[0].open /\ ~n.fil[0].dirty
    BY <1>4, <1>5, <1>7 DEF OpenResult, Fresh
  <2>2. QED
    BY <1>1, <1>3, <1>6, <2>1, ScratchPasses DEF p
<1>8. CASE o.res = FR_OK
  <2>1. PICK w \in f_write(o, 0, o.drv) : n \in f_close(w, 0)
    BY <1>4, <1>8
  <2>2. o.drv \in Value /\ o.fil[0].open /\ o.fil[0].path = p
    BY <1>5, <1>6, <1>8, DriveType, SlotFacts DEF OpenResult
  <2>3. Kept(o, w, 0) /\ OnlyFile(o, w, 0)
    BY <1>6, <2>1, <2>2, WriteLemma, WriteSpares, SlotFacts DEF CallResult
  <2>4. MachineOK(w) /\ w.fil[0].open /\ w.fil[0].path = p /\ OnlyPath(o, w, p)
    BY <2>2, <2>3, FilOnlyPath, SlotFacts DEF Kept, SameFile
  <2>5. OnlyPath(w, n, p) /\ ~n.fil[0].open /\ ~n.fil[0].dirty
    BY <2>1, <2>4, CfgClosed
  <2>6. OnlyPath(m, n, p)
    BY <1>6, <2>4, <2>5, OnlyPathTrans
  <2>7. QED
    BY <1>1, <1>3, <2>5, <2>6, ScratchPasses DEF p
<1>9. QED
  BY <1>7, <1>8

LEMMA LoadPasses ==
  ASSUME ~Faults, NEW m, MachineOK(m), ImageFil(m), ~m.fil[0].open,
         NEW n \in loadDrives(m)
  PROVE  Passes(m, n) /\ OnlyPath(m, n, <<m.cdir, CfgName>>)
<1> DEFINE x == SetData(m, Alien)
           p == <<m.cdir, CfgName>>
           none == [d \in Drives |-> Unused]
<1>1. ThroughScratch(m, n)
  BY LoadLemma
<1>2. MachineOK(x) /\ x.vol = m.vol
  BY SetDataLemma, SlotFacts
<1>3. p[2] \notin ImageNames
  BY NamesAssumption
<1> HIDE DEF x, p, none
<1>4. PICK o \in f_open(x, 0, p, "read", "existing") :
         n \in (IF o.res # FR_OK THEN {[o EXCEPT !.drv = none]}
                ELSE UNION {UNION {f_close(l, 0) : l \in Overlaid(o, r)} :
                            r \in f_read(o, 0)})
  BY DEF loadDrives, x, p, none
<1>5. OpenResult(x, o, 0, p, "read") /\ Fresh(o, 0) /\ OnlyPath(x, o, p)
  BY <1>2, <1>4, OpenLemma, OpenFresh, OpenOnlyPath, SlotFacts
<1>6. OnlyPath(m, o, p) /\ MachineOK(o)
  BY <1>2, <1>5 DEF OnlyPath, OpenResult
<1>7. CASE o.res # FR_OK
  <2>1. n.fil = o.fil /\ n.vol = o.vol
    BY <1>4, <1>6, <1>7 DEF MachineOK, MachineType
  <2>2. ~n.fil[0].open /\ ~n.fil[0].dirty /\ OnlyPath(m, n, p)
    BY <1>5, <1>6, <1>7, <2>1 DEF OpenResult, Fresh, OnlyPath
  <2>3. QED
    BY <1>1, <1>3, <2>2, ScratchPasses DEF p
<1>8. CASE o.res = FR_OK
  <2>1. PICK r \in f_read(o, 0) : \E l \in Overlaid(o, r) : n \in f_close(l, 0)
    BY <1>4, <1>8
  <2>2. PICK l \in Overlaid(o, r) : n \in f_close(l, 0)
    BY <2>1
  <2>3. o.fil[0].open /\ o.fil[0].path = p
    BY <1>5, <1>8 DEF OpenResult
  <2>4. Kept(o, r, 0) /\ OnlyFile(o, r, 0)
    BY <1>6, <2>1, ReadLemma, ReadSpares, SlotFacts DEF CallResult
  <2>5. MachineOK(r) /\ r.fil[0].open /\ r.fil[0].path = p /\ OnlyPath(o, r, p)
    BY <2>3, <2>4, FilOnlyPath, SlotFacts DEF Kept, SameFile
  <2>6. l.fil = r.fil /\ l.vol = r.vol /\ MachineOK(l)
    <3>1. CASE l = r
      BY <2>5, <3>1
    <3>2. ASSUME NEW t \in TablesIn(r.data), l = [r EXCEPT !.drv = t, !.data = Alien]
          PROVE  l.fil = r.fil /\ l.vol = r.vol /\ MachineOK(l)
      <4>1. l.fil = r.fil /\ l.vol = r.vol
        BY <2>5, <3>2 DEF MachineOK, MachineType
      <4>2. ThroughScratch(r, l)
        BY <2>5, <3>2, SetTableLemma DEF TablesIn
      <4>3. QED
        BY <4>1, <4>2 DEF ThroughScratch
    <3>3. QED
      BY <2>2, <3>1, <3>2 DEF Overlaid
  <2>7. OnlyPath(l, n, p) /\ ~n.fil[0].open /\ ~n.fil[0].dirty
    BY <2>2, <2>5, <2>6, CfgClosed
  <2>8. OnlyPath(m, n, p)
    BY <1>6, <2>5, <2>6, <2>7, OnlyPathTrans DEF OnlyPath
  <2>9. QED
    BY <1>1, <1>3, <2>7, <2>8, ScratchPasses DEF p
<1>9. QED
  BY <1>7, <1>8

----------------------------------------------------------------------------
(* The workers *)

DataInv == State /\ DataState(Machine)

\* A worker that ends in machine m: no FIL loses what it had to write, and
\* what is true between two commands stays true.
Delivers(m) == (\A h \in Slots : Carries(Machine, m, h)) /\ DataState(m)

\* A command on a host's FIL.
LEMMA HostDelivers ==
  ASSUME DataInv, NEW h \in HostSlots, NEW m, Frame(Machine, m, h),
         HostFil(m.fil[h]), OnlyFile(Machine, m, h), Carries(Machine, m, h)
  PROVE  Delivers(m)
<1>1. MachineOK(Machine) /\ DataState(Machine)
  BY MachineState DEF DataInv
<1>2. DataState(m)
  BY <1>1, HostCallData
<1>3. \A g \in Slots \ {h} : Carries(Machine, m, g)
  BY <1>1, SameCarries, DataClean DEF Frame
<1>4. QED
  BY <1>2, <1>3 DEF Delivers

\* A command on the drives.
LEMMA DriveDelivers ==
  ASSUME DataInv, NEW m, Passes(Machine, m)
  PROVE  Delivers(m)
<1> DEFINE x == Machine
<1>1. MachineOK(x) /\ DataState(x) /\ \A h \in Slots : Clean(x, h)
  BY MachineState, DataClean DEF DataInv
<1> HIDE DEF x
<1>2. Passes(x, m)
  BY DEF x
<1>3. Carries(x, m, 1) /\ Carries(x, m, 2)
  BY <1>1, <1>2, SameCarries DEF Passes, Holds, Slots
<1>4. Carries(x, m, 0)
  BY <1>1, <1>2, SameCarries, ShutCarries, SlotFacts DEF Passes, Holds
<1>5. Carries(x, m, 3)
  <2> DEFINE f == x.fil[3]
             g == m.fil[3]
  <2>1. ~f.dirty
    BY <1>1 DEF DataState, ImageFil
  <2>2. ASSUME f.open, f.written, ~(SameOpen(x, m, 3) /\ g.written)
        PROVE  m.vol[f.path] # NoEntry /\ m.vol[f.path].size >= f.size
    <3>1. f.path \in Path /\ f.size \in Nat /\ f.path[2] \in ImageNames
      BY <1>1, <2>2, ImageEntry DEF DataState, ImageFil
    <3>2. Owed(x, f.path, f.size)
      BY <2>2, <3>1 DEF Owed
    <3>3. Owed(m, f.path, f.size)
      BY <1>2, <3>1, <3>2 DEF Passes, Holds, Owes
    <3>4. ~(g.open /\ g.path = f.path /\ g.written)
      BY <2>2 DEF SameOpen
    <3>5. m.vol[f.path] # NoEntry /\ f.size <= m.vol[f.path].size
      BY <3>3, <3>4 DEF Owed
    <3>6. m.vol[f.path].size \in Nat
      BY <1>2, <3>1, <3>5, EntrySize, PassesImage
    <3>7. QED
      BY <3>1, <3>5, <3>6
  <2>3. QED
    BY <2>1, <2>2 DEF Carries
<1>6. DataState(m)
  <2>1. HostFil(m.fil[0]) /\ HostFil(m.fil[1]) /\ HostFil(m.fil[2])
    BY <1>1, <1>2 DEF Passes, Holds, DataState, HostFil, HostSlots
  <2>2. ImageFil(m)
    BY <1>2, PassesImage
  <2>3. QED
    BY <2>1, <2>2 DEF DataState, HostSlots
<1>7. QED
  BY <1>3, <1>4, <1>5, <1>6, SlotFacts DEF Delivers, x

\* What DirtyDataReachesCard says of a step that is no power cut.
Delivered ==
    \A h \in Slots :
          LET f == fildata[h]
              g == fildata'[h]
              same == g.open /\ g.path = f.path
          IN  /\ f.dirty /\ ~(same /\ g.dirty /\ g.buf = f.buf) =>
                    vol'[f.path] # NoEntry /\ vol'[f.path].blk[f.buf] = f.val
              /\ f.open /\ f.written /\ ~(same /\ g.written) =>
                    vol'[f.path] # NoEntry /\ vol'[f.path].size >= f.size

Done == Delivered /\ DataState(Machine)'

LEMMA DeliversDone ==
  ASSUME NEW m, NEW s, Becomes(m, s), Delivers(m)
  PROVE  Done
<1>1. /\ vol' = m.vol /\ fildata' = m.fil /\ Machine.fil = fildata
      /\ Machine'.vol = m.vol /\ Machine'.fil = m.fil /\ Machine'.last = m.last
  BY DEF Becomes, Machine
<1>2. Delivered
  BY <1>1 DEF Delivered, Delivers, Carries, SameOpen
<1>3. DataState(Machine)'
  BY <1>1 DEF Delivers, DataState, ImageFil
<1>4. QED
  BY <1>2, <1>3 DEF Done

LEMMA DriveDone ==
  ASSUME DataInv, NEW m, NEW s, Becomes(m, s), Passes(Machine, m)
  PROVE  Done
  BY DriveDelivers, DeliversDone

LEMMA HostDone ==
  ASSUME DataInv, NEW h \in HostSlots, NEW m, NEW s, Becomes(m, s),
         Frame(Machine, m, h), HostFil(m.fil[h]), OnlyFile(Machine, m, h),
         Carries(Machine, m, h)
  PROVE  Done
  BY HostDelivers, DeliversDone


\* A call that serves the FIL leaves it a FIL of the host's.
LEMMA ServedDone ==
  ASSUME DataInv, NEW h \in HostSlots, NEW x, MachineOK(x), Frame(Machine, x, h),
         x.fil = Machine.fil, x.vol = Machine.vol,
         NEW m, NEW s, Becomes(m, s), Serves(x, m, h), OnlyFile(x, m, h),
         ~x.fil[h].open /\ m.fil[h].dirty => x.fil[h].dirty
  PROVE  Done
<1>1. Clean(x, h) /\ HostFil(x.fil[h])
  BY DataClean, HostSlotFacts DEF DataInv, DataState, Clean
<1>2. Carries(x, m, h) /\ Kept(x, m, h)
  BY <1>1, ServesCarries, HostSlotFacts DEF Serves
<1>3. HostFil(m.fil[h])
  BY <1>1, <1>2 DEF HostFil, Kept, SameFile
<1>4. Carries(Machine, m, h)
  BY <1>2 DEF Carries, SameOpen
<1>5. OnlyFile(Machine, m, h)
  BY DEF OnlyFile
<1>6. Frame(Machine, m, h)
  BY <1>2 DEF Kept, Frame
<1>7. QED
  BY <1>3, <1>4, <1>5, <1>6, HostDone

\* Nothing happens to the FILs and the card.
LEMMA StillDone ==
  ASSUME DataInv, UNCHANGED <<vol, fildata, lastDriveNo>>
  PROVE  Done
<1>1. Machine'.vol = vol /\ Machine'.fil = fildata /\ Machine'.last = lastDriveNo
  BY DEF Machine
<1>2. DataState(Machine)'
  BY <1>1, MachineFields DEF DataInv, DataState, ImageFil
<1>3. \A h \in Slots : fildata[h].dirty => fildata[h].open
  BY DataClean, MachineFields DEF DataInv, Clean
<1>4. Delivered
  BY <1>3 DEF Delivered
<1>5. QED
  BY <1>2, <1>4 DEF Done

LEMMA MachineFrame == \A h : Frame(Machine, Machine, h)
  BY DEF Frame

LEMMA FileReadDone ==
  ASSUME ~Faults, DataInv, NEW h \in HostSlots, FileRead(h)
  PROVE  Done
<1>1. PICK m \in f_read(Machine, h) : \E s : Becomes(m, s)
  BY DEF FileRead
<1>2. MachineOK(Machine) /\ h \in Slots
  BY MachineState, HostSlotFacts DEF DataInv
<1>3. /\ Serves(Machine, m, h) /\ OnlyFile(Machine, m, h)
      /\ m.fil[h].dirty => Machine.fil[h].dirty
  BY <1>1, <1>2, ReadServes, ReadSpares
<1>4. QED
  BY <1>1, <1>2, <1>3, ServedDone, MachineFrame

LEMMA FileSeekDone ==
  ASSUME ~Faults, DataInv, NEW h \in HostSlots, NEW ofs \in 0..Capacity,
         FileSeek(h, ofs)
  PROVE  Done
<1>1. PICK m \in f_lseek(Machine, h, ofs) : Becomes(m, Complete(m.res))
  BY DEF FileSeek
<1>2. MachineOK(Machine) /\ h \in Slots /\ ofs \in Nat
  BY MachineState, HostSlotFacts, CapacityAssumption DEF DataInv
<1>3. /\ Serves(Machine, m, h) /\ OnlyFile(Machine, m, h)
      /\ m.fil[h].dirty = Machine.fil[h].dirty
  BY <1>1, <1>2, SeekServes, SeekSpares
<1>4. QED
  BY <1>1, <1>2, <1>3, ServedDone, MachineFrame

LEMMA FileWriteDone ==
  ASSUME ~Faults, DataInv, NEW h \in HostSlots, NEW v \in Data, FileWrite(h, v)
  PROVE  Done
<1> DEFINE x == SetData(Machine, v)
<1>1. v \in Value /\ h \in Slots
  BY HostSlotFacts DEF Value
<1>2. /\ MachineOK(x) /\ Kept(Machine, x, h)
      /\ x.fil = Machine.fil /\ x.vol = Machine.vol
  BY <1>1, MachineState, SetDataLemma DEF DataInv
<1> HIDE DEF x
<1>3. PICK m \in f_write(x, h, v) : Becomes(m, Complete(m.res))
  BY DEF FileWrite, x
<1>4. /\ Serves(x, m, h) /\ OnlyFile(x, m, h)
      /\ m.res = FR_OK => x.fil[h].open
      /\ m.res # FR_OK => m.fil = x.fil
  BY <1>1, <1>2, <1>3, WriteServes, WriteSpares
<1>5. QED
  BY <1>2, <1>3, <1>4, ServedDone DEF Kept

LEMMA FileCloseDone ==
  ASSUME ~Faults, DataInv, NEW h \in HostSlots, FileClose(h)
  PROVE  Done
<1>1. PICK m \in f_close(Machine, h) : Becomes(m, Complete(m.res))
  BY DEF FileClose
<1>2. MachineOK(Machine) /\ h \in Slots /\ Clean(Machine, h)
  BY MachineState, HostSlotFacts, DataClean DEF DataInv
<1>3. /\ Frame(Machine, m, h) /\ OnlyFile(Machine, m, h)
      /\ Released(Machine, m, h)
  BY <1>1, <1>2, CloseLemma, CloseSpares, CloseReleases
<1>4. Carries(Machine, m, h)
  BY <1>2, <1>3, ReleasedCarries
<1>5. HostFil(m.fil[h])
  BY <1>3 DEF Released, HostFil
<1>6. QED
  BY <1>1, <1>3, <1>4, <1>5, HostDone

\* The FIL the host opens a file in is closed.
LEMMA FileOpenDone ==
  ASSUME DataInv, NEW h \in HostSlots, NEW n \in HostNames,
         h = 0 => ~fildata[0].open, h # 0 /\ FreeSlots # {} => FirstFree # 3,
         NEW mode \in {"read", "write", "both"}, NEW how,
         fileOpen(h, n, mode, how)
  PROVE  Done
<1> DEFINE slot == IF h = 0 THEN 0 ELSE FirstFree
           p == <<cdir, n>>
<1>1. CASE h # 0 /\ FreeSlots = {}
  <2>1. Becomes(Machine, Complete(ERROR_TOO_MANY_OPEN))
    BY <1>1 DEF fileOpen
  <2>2. UNCHANGED <<vol, fildata, lastDriveNo>>
    BY <2>1, MachineFields DEF Becomes
  <2>3. QED
    BY <2>2, StillDone
<1>2. CASE ~(h # 0 /\ FreeSlots = {})
  <2>1. slot \in HostSlots /\ ~fildata[slot].open
    BY <1>2, FirstFreeLemma DEF FreeSlots, HostSlots
  <2>2. PICK m \in f_open(Machine, slot, p, mode, how) :
            Becomes(m, OpenStatus(slot, m.res))
    BY <1>2 DEF fileOpen
  <2>3. MachineOK(Machine) /\ DataState(Machine) /\ slot \in Slots
    BY <2>1, MachineState, HostSlotFacts DEF DataInv
  <2>4. p[2] \in HostNames /\ p[2] \notin ImageNames
    BY NamesAssumption
  <2> HIDE DEF slot, p
  <2>5. /\ OpenResult(Machine, m, slot, p, mode) /\ Fresh(m, slot)
        /\ OnlyPath(Machine, m, p)
    BY <2>2, <2>3, OpenLemma, OpenFresh, OpenOnlyPath
  <2>6. HostFil(m.fil[slot]) /\ Frame(Machine, m, slot)
    BY <2>4, <2>5 DEF OpenResult, Fresh, HostFil
  <2>7. DataState(m)
    BY <2>1, <2>3, <2>4, <2>5, <2>6, HostStepData
  <2>8. \A g \in Slots : Clean(Machine, g)
    BY <2>3, DataClean
  <2>9. Carries(Machine, m, slot)
    BY <2>1, <2>3, <2>8, ShutCarries, MachineFields
  <2>10. \A g \in Slots \ {slot} : Carries(Machine, m, g)
    BY <2>6, <2>8, SameCarries DEF Frame
  <2>11. Delivers(m)
    BY <2>7, <2>9, <2>10 DEF Delivers
  <2>12. QED
    BY <2>2, <2>11, DeliversDone
<1>3. QED
  BY <1>1, <1>2

LEMMA UnlinkOnlyPath ==
  ASSUME NEW m, MachineOK(m), NEW p, NEW n \in f_unlink(m, p)
  PROVE  OnlyPath(m, n, p)
<1> DEFINE gone == [m EXCEPT !.vol[p] = NoEntry]
<1>1. n.vol = m.vol \/ n.vol = gone.vol
  BY DEF f_unlink, OrFault, Return, MachineOK, MachineType
<1>2. gone.vol = [m.vol EXCEPT ![p] = NoEntry]
  BY DEF MachineOK, MachineType
<1> HIDE DEF gone
<1>3. QED
  BY <1>1, <1>2 DEF OnlyPath, MachineOK, MachineType

LEMMA FileDeleteDone ==
  ASSUME DataInv, NEW n, FileDelete(n)
  PROVE  Done
<1> DEFINE p == <<cdir, n>>
<1>1. PICK m \in f_unlink(Machine, p) : Becomes(m, Complete(m.res))
  BY DEF FileDelete
<1>2. \A h \in Slots : Machine.fil[h].open => Machine.fil[h].path # p
  BY DEF FileDelete, NotInUse, Machine
<1>3. MachineOK(Machine) /\ DataState(Machine)
  BY MachineState DEF DataInv
<1> HIDE DEF p
<1>4. m.fil = Machine.fil /\ m.last = Machine.last /\ OnlyPath(Machine, m, p)
  BY <1>1, <1>2, <1>3, UnlinkLemma, UnlinkOnlyPath
<1>5. ImageFil(m)
  <2>1. Machine.fil[3].open =>
            Machine.fil[3].path \in Path /\ Machine.fil[3].path # p
    BY <1>2, <1>3, ImageEntry, SlotFacts
  <2>2. QED
    BY <1>3, <1>4, <2>1 DEF DataState, ImageFil, OnlyPath
<1>6. DataState(m)
  BY <1>3, <1>4, <1>5 DEF DataState
<1>7. \A h \in Slots : Carries(Machine, m, h)
  BY <1>3, <1>4, SameCarries, DataClean
<1>8. QED
  BY <1>1, <1>6, <1>7, DeliversDone DEF Delivers

LEMMA ChdirDone ==
  ASSUME DataInv, NEW c, SetCWDirectory(c)
  PROVE  Done
<1>1. PICK m \in {[Machine EXCEPT !.cdir = c, !.res = FR_OK],
                  Return(Machine, FR_DISK_ERR)} : Becomes(m, Complete(m.res))
  BY DEF SetCWDirectory, OrFault
<1>2. m.vol = vol /\ m.fil = fildata /\ m.last = lastDriveNo
  BY <1>1 DEF Machine, Return
<1>3. QED
  BY <1>1, <1>2, StillDone DEF Becomes

\* A machine on the way through a drive command.
LEMMA StartPasses ==
  ASSUME DataInv
  PROVE  Passes(Machine, Machine) /\ MachineOK(Machine) /\ ImageFil(Machine)
<1>1. MachineOK(Machine) /\ ImageFil(Machine)
  BY MachineState DEF DataInv, DataState
<1>2. QED
  BY <1>1, SamePasses

LEMMA OnPasses ==
  ASSUME NEW m, NEW k, Passes(m, k), NEW n, Passes(k, n)
  PROVE  Passes(m, n) /\ MachineOK(n) /\ ImageFil(n)
  BY PassesTrans, PassesImage

LEMMA InvalidatePasses ==
  ASSUME NEW m, MachineOK(m), ImageFil(m), globalCurDrive \in Drives
  PROVE  Passes(m, Invalidate(m))
<1> DEFINE n == Invalidate(m)
<1>1. MachineOK(n)
  BY InvalidateFollows DEF Follows
<1>2. n.vol = m.vol /\ n.fil = m.fil /\ n.last = m.last
  BY DEF Invalidate, MachineOK, MachineType
<1> HIDE DEF n
<1>3. Passes(m, n)
  BY <1>1, <1>2, SamePasses
<1>4. QED
  BY <1>3 DEF n

\* A sector command ends in a machine on its way, or invalidates the drive.
LEMMA SectorDone ==
  ASSUME DataInv, NEW m, NEW s, Passes(Machine, m),
         Becomes(m, s) \/ Becomes(Invalidate(m), s)
  PROVE  Done
<1>1. globalCurDrive \in Drives
  BY DEF DataInv, State, TypeOK
<1>2. Passes(Machine, Invalidate(m))
  BY <1>1, InvalidatePasses, PassesImage, PassesTrans
<1>3. QED
  BY <1>2, DriveDone

LEMMA SeekSectorPasses ==
  ASSUME ~Faults, DataInv, NEW m, Passes(Machine, m), NEW s \in SeekSector(m)
  PROVE  Passes(Machine, s) /\ MachineOK(s) /\ ImageFil(s)
<1>1. globalCurDrive \in Drives /\ globalLBAOffset \in Nat
  BY CapacityAssumption DEF DataInv, State, TypeOK, Sectors
<1>2. PICK n \in switchDrive(m, globalCurDrive) :
         s \in f_lseek(n, 3, globalLBAOffset)
  BY SlotFacts DEF SeekSector
<1>3. Passes(Machine, n) /\ MachineOK(n) /\ ImageFil(n)
  BY <1>1, <1>2, PassesImage, SwitchPasses, OnPasses
<1>4. Serves(n, s, 3) /\ s.fil[3].dirty = n.fil[3].dirty
  BY <1>1, <1>2, <1>3, SeekServes, SlotFacts
<1>5. Passes(n, s)
  BY <1>3, <1>4, ServesHolds DEF Passes, ImageFil
<1>6. QED
  BY <1>3, <1>5, OnPasses

LEMMA ReadSectorDone ==
  ASSUME ~Faults, DataInv, ReadSDDOSSect
  PROVE  Done
<1>1. Passes(Machine, Machine)
  BY StartPasses
<1>2. CASE \E s : Becomes(Machine, s)
  BY <1>1, <1>2, SectorDone
<1>3. ASSUME NEW s \in SeekSector(Machine),
             \/ \E r : Becomes(Invalidate(s), r)
             \/ \E m \in f_read(s, 3) : \E r : Becomes(m, r) \/ Becomes(Invalidate(m), r)
      PROVE  Done
  <2>1. Passes(Machine, s) /\ MachineOK(s) /\ ImageFil(s)
    BY <1>1, SeekSectorPasses
  <2>2. ASSUME NEW m \in f_read(s, 3) PROVE Passes(Machine, m)
    <3>1. Serves(s, m, 3) /\ (m.fil[3].dirty => s.fil[3].dirty)
      BY <2>1, ReadServes, SlotFacts
    <3>2. Passes(s, m)
      BY <2>1, <3>1, ServesHolds DEF Passes, ImageFil
    <3>3. QED
      BY <2>1, <3>2, OnPasses
  <2>3. QED
    BY <1>3, <2>1, <2>2, SectorDone
<1>4. QED
  <2>1. \/ \E s : Becomes(Machine, s)
        \/ \E s \in SeekSector(Machine) :
              IF s.res # FR_OK
              THEN Becomes(Invalidate(s), Complete(ERROR_INVALID_DRIVE))
              ELSE \E m \in f_read(s, 3) :
                      IF m.res = FR_OK THEN Becomes(m, STATUS_OK)
                      ELSE Becomes(Invalidate(m), Complete(m.res))
    BY SlotFacts, Zenon DEF ReadSDDOSSect
  <2>2. QED
    BY <1>2, <1>3, <2>1, Zenon

\* A sector write: if f_write took the data, f_sync puts it on the card.
LEMMA WritePasses ==
  ASSUME ~Faults, NEW m, MachineOK(m), ImageFil(m), NEW v \in Value,
         NEW w \in f_write(m, 3, v)
  PROVE  /\ w.res # FR_OK => Passes(m, w)
         /\ w.res = FR_OK => \A n \in f_sync(w, 3) : Passes(m, n)
<1>1. /\ Serves(m, w, 3)
      /\ w.res = FR_OK => m.fil[3].open
      /\ w.res # FR_OK => w.fil = m.fil
  BY WriteServes, SlotFacts
<1>2. Holds(m, w) /\ Kept(m, w, 3)
  BY <1>1, ServesHolds DEF Serves
<1>3. w.res # FR_OK => Passes(m, w)
  BY <1>1, <1>2 DEF Passes, ImageFil
<1>4. ASSUME w.res = FR_OK, NEW n \in f_sync(w, 3) PROVE Passes(m, n)
  <2>1. Passes(w, n)
    BY <1>1, <1>2, <1>4, SyncPasses DEF Holds, Kept, SameFile
  <2>2. QED
    BY <1>2, <2>1, HoldsTrans DEF Passes
<1>5. QED
  BY <1>3, <1>4

LEMMA WriteSectorDone ==
  ASSUME ~Faults, DataInv, NEW v \in Data, WriteSDDOSSect(v)
  PROVE  Done
<1> DEFINE x == SetData(Machine, v)
<1>1. v \in Value /\ MachineOK(Machine) /\ ImageFil(Machine)
  BY StartPasses DEF Value
<1>2. /\ MachineOK(x) /\ Kept(Machine, x, 3)
      /\ x.fil = Machine.fil /\ x.vol = Machine.vol
  BY <1>1, SetDataLemma, SlotFacts
<1> HIDE DEF x
<1>3. Passes(Machine, x)
  BY <1>1, <1>2, SamePasses DEF Kept, Frame
<1>4. CASE \E s : Becomes(x, s)
  BY <1>3, <1>4, SectorDone
<1>5. ASSUME NEW s \in SeekSector(x),
             \/ \E r : Becomes(Invalidate(s), r)
             \/ \E w \in f_write(s, 3, v) :
                   IF w.res # FR_OK THEN \E r : Becomes(Invalidate(w), r)
                   ELSE \E m \in f_sync(w, 3) : \E r :
                           Becomes(m, r) \/ Becomes(Invalidate(m), r)
      PROVE  Done
  <2>1. Passes(Machine, s) /\ MachineOK(s) /\ ImageFil(s)
    BY <1>3, SeekSectorPasses
  <2>2. ASSUME NEW w \in f_write(s, 3, v)
        PROVE  /\ w.res # FR_OK => Passes(Machine, w)
               /\ w.res = FR_OK => \A n \in f_sync(w, 3) : Passes(Machine, n)
    BY <1>1, <2>1, WritePasses, PassesTrans
  <2>3. QED
    BY <1>5, <2>1, <2>2, SectorDone
<1>6. QED
  <2>1. \/ \E s : Becomes(x, s)
        \/ \E s \in SeekSector(x) :
              IF s.res # FR_OK
              THEN Becomes(Invalidate(s), Complete(ERROR_INVALID_DRIVE))
              ELSE \E w \in f_write(s, 3, v) :
                      IF w.res # FR_OK THEN Becomes(Invalidate(w), w.res)
                      ELSE \E m \in f_sync(w, 3) :
                              IF m.res = FR_OK THEN Becomes(m, STATUS_OK)
                              ELSE Becomes(Invalidate(m), m.res)
    BY SlotFacts, Zenon DEF WriteSDDOSSect, x
  <2>2. QED
    BY <1>4, <1>5, <2>1, Zenon

\* The commands that end by saving the table find fildata[0] closed.
LEMMA SavingDone ==
  ASSUME ~Faults, DataInv, ~fildata[0].open, NEW k, Passes(Machine, k),
         NEW m \in saveDrivesImpl(k), NEW s, Becomes(m, s)
  PROVE  Done
<1>1. ~k.fil[0].open
  BY MachineFields DEF Passes, Holds
<1>2. Passes(k, m)
  BY <1>1, PassesImage, SavePasses
<1>3. QED
  BY <1>2, PassesTrans, DriveDone

LEMMA SaveDone ==
  ASSUME ~Faults, DataInv, ~fildata[0].open, SerialiseSDDOSDrives
  PROVE  Done
  BY StartPasses, SavingDone DEF SerialiseSDDOSDrives

LEMMA UnmountDone ==
  ASSUME ~Faults, DataInv, ~fildata[0].open, NEW d \in Drives, UnmountSDDOSImg(d)
  PROVE  Done
<1>1. PICK s \in switchDrive(Machine, d) : \E c \in f_close(s, 3) :
         \E m \in saveDrivesImpl(SetDrive([c EXCEPT !.last = NoDrive], d, Unused)) :
            Becomes(m, STATUS_OK)
  BY SlotFacts DEF UnmountSDDOSImg
<1>2. PICK c \in f_close(s, 3) :
         \E m \in saveDrivesImpl(SetDrive([c EXCEPT !.last = NoDrive], d, Unused)) :
            Becomes(m, STATUS_OK)
  BY <1>1
<1> DEFINE x == [c EXCEPT !.last = NoDrive]
           y == SetDrive(x, d, Unused)
<1>3. Passes(Machine, s) /\ MachineOK(s) /\ ImageFil(s)
  BY <1>1, StartPasses, SwitchPasses, OnPasses
<1>4. Passes(s, c) /\ ~c.fil[3].open
  BY <1>2, <1>3, ClosePasses
<1>5. Passes(Machine, c) /\ MachineOK(c) /\ ImageFil(c)
  BY <1>3, <1>4, OnPasses
<1>6. MachineOK(x) /\ x.vol = c.vol /\ x.fil = c.fil
  BY <1>5, SelectLemma
<1> HIDE DEF x
<1>7. Passes(Machine, x) /\ MachineOK(x) /\ ImageFil(x)
  BY <1>4, <1>5, <1>6, SamePasses, OnPasses
<1>8. Passes(Machine, y)
  BY <1>7, UnusedPasses, PassesTrans
<1>9. PICK m \in saveDrivesImpl(y) : Becomes(m, STATUS_OK)
  BY <1>2 DEF x
<1> HIDE DEF y
<1>10. QED
  BY <1>8, <1>9, SavingDone

LEMMA OpenImgDone ==
  ASSUME ~Faults, DataInv, ~fildata[0].open, NEW d \in Drives, NEW n \in ImageNames,
         OpenSDDOSImg(d, n)
  PROVE  Done
<1> DEFINE info == [name |-> n, attribs |-> NoAttr]
           a == SetDrive(Machine, d, info)
<1>1. info \in ImgInfo /\ info.attribs # Unset
  BY DEF ImgInfo, Attr, NoAttr, Unset
<1>2. PICK t \in tryOpenImage(a, d) :
         \E m \in saveDrivesImpl(IF t.res >= STATUS_COMPLETE
                                 THEN SetDrive(t, d, Unused) ELSE t) :
            Becomes(m, t.res)
  BY DEF OpenSDDOSImg
<1> DEFINE k == IF t.res >= STATUS_COMPLETE THEN SetDrive(t, d, Unused) ELSE t
<1>3. PICK m \in saveDrivesImpl(k) : Becomes(m, t.res)
  BY <1>2
<1> HIDE DEF info
<1>4. /\ Passes(Machine, a) /\ MachineOK(a) /\ ImageFil(a)
      /\ a.drv[d].attribs # Unset
  BY <1>1, StartPasses, SetDriveLemma, SetDrivePasses, OnPasses
<1> HIDE DEF a
<1>5. Passes(Machine, t) /\ MachineOK(t) /\ ImageFil(t)
  BY <1>2, <1>4, TryPasses, OnPasses
<1>6. Passes(Machine, k)
  BY <1>5, UnusedPasses, PassesTrans
<1> HIDE DEF k
<1>7. QED
  BY <1>3, <1>6, SavingDone

LEMMA ValidateDone ==
  ASSUME ~Faults, DataInv, ~fildata[0].open, ValidateSDDOSDrives
  PROVE  Done
<1>1. PICK l \in loadDrives(Machine) : \E t \in ValidateAll(l) :
         \E m \in saveDrivesImpl(t) : Becomes(m, STATUS_OK)
  BY DEF ValidateSDDOSDrives
<1>2. PICK t \in ValidateAll(l) :
         \E m \in saveDrivesImpl(t) : Becomes(m, STATUS_OK)
  BY <1>1
<1>3. Passes(Machine, l) /\ MachineOK(l) /\ ImageFil(l)
  BY <1>1, StartPasses, LoadPasses, OnPasses, MachineFields
<1>4. Passes(Machine, t)
  BY <1>2, <1>3, ValidateAllPasses, PassesTrans
<1>5. QED
  BY <1>2, <1>4, SavingDone

----------------------------------------------------------------------------
(* The theorem *)

LEMMA BlankData ==
  ASSUME fildata = [h \in Slots |-> Closed]
  PROVE  DataState(Machine)
<1>1. \A h \in Slots : ~Machine.fil[h].open /\ ~Machine.fil[h].dirty
  BY MachineFields DEF Closed
<1>2. QED
  BY <1>1, HostSlotFacts, SlotFacts DEF DataState, HostFil, ImageFil

LEMMA RestartData ==
  ASSUME Restart
  PROVE  DataState(Machine)'
<1>1. \A h \in Slots : ~Machine'.fil[h].open /\ ~Machine'.fil[h].dirty
  BY DEF Restart, Closed, Machine
<1>2. QED
  BY <1>1, HostSlotFacts, SlotFacts DEF DataState, HostFil, ImageFil

LEMMA HostSlot == \A h \in HostFiles : h # 3 => h \in HostSlots
  BY HostAssumption DEF Slots, HostSlots

LEMMA StepDone ==
  ASSUME ~Faults, {"two-files", "scratch-first"} \subseteq Habits,
         DataInv, [HNext]_hvars, ~PowerCycle
  PROVE  Done
<1>0. Has("two-files") /\ Has("scratch-first")
  BY DEF Has
<1>1. CASE HostFileCommand
  <2>1. ASSUME NEW h \in HostFiles, NEW n \in HostNames,
               OwnSlot(h), LeavesSlot3(h), h = 0 => ScratchClosed,
               FileOpenRead(h, n) \/ FileOpenWrite(h, n) \/ FileOpenRAF(h, n)
        PROVE  Done
    <3>1. PICK mode \in {"read", "write", "both"}, how \in {"existing", "new", "always"} :
             fileOpen(h, n, mode, how)
      BY <2>1 DEF FileOpenRead, FileOpenWrite, FileOpenRAF
    <3>2. /\ h \in HostSlots
          /\ h = 0 => ~fildata[0].open
          /\ h # 0 /\ FreeSlots # {} => FirstFree # 3
      BY <1>0, <2>1, HostSlot DEF OwnSlot, LeavesSlot3, ScratchClosed
    <3>3. QED
      BY <3>1, <3>2, FileOpenDone
  <2>2. ASSUME NEW h \in HostFiles, OwnSlot(h), FileRead(h) \/ FileClose(h)
        PROVE  Done
    BY <1>0, <2>2, HostSlot, FileReadDone, FileCloseDone DEF OwnSlot
  <2>3. ASSUME NEW h \in HostFiles, NEW v \in HostData, OwnSlot(h), FileWrite(h, v)
        PROVE  Done
    BY <1>0, <2>3, HostSlot, FileWriteDone, HostAssumption DEF OwnSlot
  <2>4. ASSUME NEW h \in HostFiles, NEW ofs \in 0..Capacity, OwnSlot(h),
               FileSeek(h, ofs)
        PROVE  Done
    BY <1>0, <2>4, HostSlot, FileSeekDone DEF OwnSlot
  <2>5. ASSUME NEW n, FileDelete(n) PROVE Done
    BY <2>5, FileDeleteDone
  <2>6. ASSUME NEW c, SetCWDirectory(c) PROVE Done
    BY <2>6, ChdirDone
  <2>7. QED
    BY <1>1, <2>1, <2>2, <2>3, <2>4, <2>5, <2>6 DEF HostFileCommand
<1>2. CASE UNCHANGED <<vol, fildata, lastDriveNo>>
  BY <1>2, StillDone
<1>3. ScratchClosed <=> ~fildata[0].open
  BY <1>0 DEF ScratchClosed
<1>4. ASSUME NEW d \in HostDrives, NEW s \in Sectors, HostParam(d, s)
      PROVE  Done
  BY <1>2, <1>4 DEF HostParam, LoadParam
<1>5. ASSUME NEW d \in HostDrives, NEW n \in ImageNames, HostMount(d, n)
      PROVE  Done
  BY <1>3, <1>5, OpenImgDone, HostAssumption DEF HostMount
<1>6. ASSUME NEW d \in HostDrives, HostUnmount(d) PROVE Done
  BY <1>3, <1>6, UnmountDone, HostAssumption DEF HostUnmount
<1>7. CASE HostLoadTable
  BY <1>3, <1>7, ValidateDone DEF HostLoadTable
<1>8. CASE HostSaveTable
  BY <1>3, <1>8, SaveDone DEF HostSaveTable
<1>9. CASE HostReadSector
  BY <1>9, ReadSectorDone DEF HostReadSector
<1>10. ASSUME NEW v \in HostData, HostWriteSector(v) PROVE Done
  BY <1>10, WriteSectorDone, HostAssumption DEF HostWriteSector
<1>11. CASE UNCHANGED hvars
  BY <1>2, <1>11 DEF hvars, vars
<1>12. QED
  BY <1>1, <1>4, <1>5, <1>6, <1>7, <1>8, <1>9, <1>10, <1>11 DEF HNext

\* On a card that does not fail, and for a host that gives its files fildata[0]
\* to fildata[2] only and closes the scratch file before it is needed: whatever
\* files and images share the four FILs, a step that takes data or a size out
\* of a FIL that was still to be written leaves it on the card.
THEOREM DataReachesCard ==
  ASSUME ~Faults, {"two-files", "scratch-first"} \subseteq Habits
  PROVE  HSpec => DirtyDataReachesCard
<1>1. HInit => State /\ DataState(Machine)
  BY InitState, BlankData DEF HInit, Init
<1>2. State /\ DataState(Machine) /\ [HNext]_hvars => State' /\ DataState(Machine)'
  <2>1. PowerCycle => DataState(Machine)'
    BY RestartData DEF PowerCycle
  <2>2. QED
    BY <2>1, StepState, StepDone DEF DataInv, Done
<1>3. State /\ DataState(Machine) /\ [HNext]_hvars => [~PowerCycle => Delivered]_hvars
  BY StepDone DEF DataInv, Done
<1>4. HSpec => [][~PowerCycle => Delivered]_hvars
  BY <1>1, <1>2, <1>3, PTL DEF HSpec
<1>5. QED
  BY <1>4 DEF DirtyDataReachesCard, Delivered

----------------------------------------------------------------------------
(* The drives implement FloppyDrives *)

\* What the images on the card and fildata[3] owe each other: the buffer holds
\* what the card holds, nothing stands behind the end of an image, and no image
\* can be lost with the sector window.
Coherent(m) ==
    LET f == m.fil[3] IN
    f.open /\ f.buf # NoSector => f.val = m.vol[f.path].blk[f.buf]

Tail(e) == e # NoEntry => \A s \in Sectors : s >= e.size => e.blk[s] = Blank

Good(m) ==
    /\ Coherent(m)
    /\ \A p \in ImagePath : Tail(m.vol[p])
    /\ \A p \in m.fresh : p \notin ImagePath

\* An entry that may only have grown, its sectors being what they were.
Grown(a, b) ==
    \/ b = a
    \/ /\ a # NoEntry /\ b # NoEntry /\ b.blk = a.blk
       /\ \A s \in Sectors : s >= b.size => s >= a.size

\* The images stay, and fildata[3] has nothing new in its buffer.
Steady(m, n) ==
    LET f == m.fil[3]
        g == n.fil[3]
    IN  /\ \A p \in ImagePath : Grown(m.vol[p], n.vol[p])
        /\ g.open /\ g.buf # NoSector =>
              f.open /\ f.path = g.path /\ f.buf = g.buf /\ f.val = g.val
        /\ \A p \in n.fresh : p \in m.fresh \/ p \notin ImagePath

SameImages(m, n) == \A p \in ImagePath : SectorsOf(n.vol, p) = SectorsOf(m.vol, p)

LEMMA ImagePathParts ==
  /\ ImagePath \subseteq Path
  /\ \A p \in Path : p \in ImagePath <=> p[2] \in ImageNames
  BY DEF ImagePath, Path, Names

LEMMA SelectedPath ==
  ASSUME NEW m, MachineOK(m), ImageSize(m), m.fil[3].open
  PROVE  m.fil[3].path \in ImagePath
  BY ImagePathParts, ImageEntry DEF ImageSize

LEMMA SteadyTrans ==
  ASSUME NEW m, NEW k, NEW n, Steady(m, k), Steady(k, n)
  PROVE  Steady(m, n)
<1>1. ASSUME NEW p \in ImagePath PROVE Grown(m.vol[p], n.vol[p])
  BY DEF Steady, Grown
<1>2. QED
  BY <1>1 DEF Steady

LEMMA SteadySame ==
  ASSUME NEW m, NEW n, n.vol = m.vol, n.fil = m.fil, n.fresh = m.fresh
  PROVE  Steady(m, n)
  BY DEF Steady, Grown

LEMMA SteadyGood ==
  ASSUME NEW m, NEW n, Good(m), Steady(m, n),
         n.fil[3].open => n.fil[3].path \in ImagePath
  PROVE  Good(n) /\ SameImages(m, n)
<1>1. Coherent(n)
  <2>1. SUFFICES ASSUME n.fil[3].open, n.fil[3].buf # NoSector
                 PROVE  n.fil[3].val = n.vol[n.fil[3].path].blk[n.fil[3].buf]
    BY DEF Coherent
  <2>2. m.fil[3].val = m.vol[n.fil[3].path].blk[n.fil[3].buf]
        /\ m.fil[3].val = n.fil[3].val
    BY <2>1 DEF Good, Coherent, Steady
  <2>3. Grown(m.vol[n.fil[3].path], n.vol[n.fil[3].path])
    BY <2>1 DEF Steady
  <2>4. QED
    BY <2>2, <2>3 DEF Grown
<1>2. ASSUME NEW p \in ImagePath PROVE Tail(n.vol[p]) /\ SectorsOf(n.vol, p) = SectorsOf(m.vol, p)
  BY DEF Good, Steady, Grown, Tail, SectorsOf
<1>3. \A p \in n.fresh : p \notin ImagePath
  BY DEF Good, Steady
<1>4. QED
  BY <1>1, <1>2, <1>3 DEF Good, SameImages

----------------------------------------------------------------------------
(* The calls, and what they leave of fresh *)

LEMMA FreshKept ==
  ASSUME NEW m \in MachineType, NEW h \in Slots, NEW f, NEW r, NEW v
  PROVE  /\ SetFil(m, h, f, r).fresh = m.fresh
         /\ Return(m, r).fresh = m.fresh
         /\ SetData(m, v).fresh = m.fresh
         /\ SetData(SetFil(m, h, f, r), v).fresh = m.fresh
         /\ FlushBuf(m, h).fresh = m.fresh
  BY DEF SetFil, Return, SetData, FlushBuf, MachineType

LEMMA ReadFresh ==
  ASSUME ~Faults, NEW m, MachineOK(m), NEW h \in Slots, NEW n \in f_read(m, h)
  PROVE  n.fresh = m.fresh
<1> DEFINE f == m.fil[h]
           y == LoadBuf(m, h, f.fptr)
           no == Refusal(f, CanRead(f))
<1>1. CASE no # FR_OK \/ f.fptr >= f.size
  <2>1. \E r : n = Return(m, r)
    BY <1>1 DEF f_read
  <2>2. QED
    BY <2>1, FreshKept DEF MachineOK
<1>2. CASE no = FR_OK /\ ~(f.fptr >= f.size)
  <2>1. f.open /\ f \in Fil
    <3>1. CanRead(f) \in BOOLEAN
      BY DEF CanRead
    <3>2. QED
      BY <1>2, <3>1, RefusalLemma, OpenFil
  <2>2. f.fptr \in Sectors
    BY <1>2, <2>1, CapacityAssumption DEF Fil, Sectors
  <2>3. MachineOK(y) /\ FlushBuf(m, h) \in MachineType
    BY <2>1, <2>2, LoadBufLemma, FlushedMachine DEF Kept
  <2>4. y.fresh = m.fresh
    <3>1. y = FlushBuf(m, h) \/ \E g, r : y = SetFil(FlushBuf(m, h), h, g, r)
      BY DEF LoadBuf
    <3> HIDE DEF y
    <3>2. QED
      BY <2>3, <3>1, FreshKept DEF MachineOK
  <2>5. \E g, r, v : n = SetData(SetFil(y, h, g, r), v)
    BY <1>2 DEF f_read, OrFault
  <2> HIDE DEF y
  <2>6. QED
    BY <2>3, <2>4, <2>5, FreshKept DEF MachineOK
<1>3. QED
  BY <1>1, <1>2

LEMMA WriteFresh ==
  ASSUME ~Faults, NEW m, MachineOK(m), NEW h \in Slots, NEW v, NEW n \in f_write(m, h, v)
  PROVE  n.fresh = m.fresh
<1>1. \/ \E r : n = Return(m, r)
      \/ \E g, r : n = SetFil(m, h, g, r)
      \/ m.fil[h].open /\ \E g, r : n = SetFil(FlushBuf(m, h), h, g, r)
  <2> DEFINE no == Refusal(m.fil[h], CanWrite(m.fil[h]))
  <2>1. CASE no # FR_OK
    BY <2>1 DEF f_write
  <2>2. CASE no = FR_OK
    <3>1. CanWrite(m.fil[h]) \in BOOLEAN
      BY DEF CanWrite
    <3>2. m.fil[h].open
      BY <2>2, <3>1, RefusalLemma
    <3>3. QED
      BY <2>2, <3>2 DEF f_write, OrFault
  <2>3. QED
    BY <2>1, <2>2
<1>2. QED
  BY <1>1, FreshKept, FlushedMachine DEF MachineOK

LEMMA SeekFresh ==
  ASSUME ~Faults, NEW m, MachineOK(m), NEW h \in Slots, NEW ofs,
         NEW n \in f_lseek(m, h, ofs)
  PROVE  n.fresh = m.fresh
<1>1. (\E r : n = Return(m, r)) \/ \E g, r : n = SetFil(m, h, g, r)
  BY DEF f_lseek, OrFault
<1>2. QED
  BY <1>1, FreshKept DEF MachineOK

LEMMA SyncFresh ==
  ASSUME ~Faults, NEW m, MachineOK(m), NEW h \in Slots, NEW n \in f_sync(m, h)
  PROVE  n.fresh \subseteq m.fresh
<1>1. CASE ~m.fil[h].open \/ ~m.fil[h].written
  <2>1. \E r : n = Return(m, r)
    BY <1>1 DEF f_sync
  <2>2. QED
    BY <2>1, FreshKept DEF MachineOK
<1>2. CASE m.fil[h].open /\ m.fil[h].written
  <2>1. n = UpdateEntry(FlushBuf(m, h), h)
    BY <1>2 DEF f_sync, OrFault
  <2>2. FlushBuf(m, h) \in MachineType
    BY <1>2, FlushedMachine
  <2>3. n.fresh = {}
    BY <2>1, <2>2 DEF UpdateEntry, MachineType
  <2>4. QED
    BY <2>3
<1>3. QED
  BY <1>1, <1>2

LEMMA CloseFresh ==
  ASSUME ~Faults, NEW m, MachineOK(m), NEW h \in Slots, NEW n \in f_close(m, h)
  PROVE  n.fresh \subseteq m.fresh
<1>1. PICK k \in f_sync(m, h) :
         n = IF k.res = FR_OK THEN [k EXCEPT !.fil[h] = Closed] ELSE k
  BY DEF f_close
<1>2. MachineOK(k) /\ k.fresh \subseteq m.fresh
  BY <1>1, SyncFresh, SyncSpares DEF Kept
<1>3. n.fresh = k.fresh
  BY <1>1, <1>2 DEF MachineOK, MachineType
<1>4. QED
  BY <1>2, <1>3

LEMMA OpenedFresh ==
  ASSUME NEW m, MachineOK(m), NEW h \in Slots, NEW p, NEW mode, NEW how,
         NEW n \in f_open(m, h, p, mode, how)
  PROVE  /\ n.fresh = m.fresh \/ n.fresh = m.fresh \cup {p}
         /\ how = "existing" => n.fresh = m.fresh
<1>1. ASSUME NEW r, n = SetFil(m, h, Closed, r) PROVE n.fresh = m.fresh
  BY <1>1, FreshKept DEF MachineOK
<1>2. ASSUME n = Opened(m, h, p, mode, FALSE) PROVE n.fresh = m.fresh
  BY <1>2 DEF Opened, MachineOK, MachineType
<1>3. ASSUME n = Opened([m EXCEPT !.vol[p] = NewEntry, !.fresh = @ \cup {p}],
                        h, p, mode, TRUE)
      PROVE  n.fresh = m.fresh \cup {p}
  BY <1>3 DEF Opened, MachineOK, MachineType
<1>4. \/ \E r : n = SetFil(m, h, Closed, r)
      \/ n = Opened(m, h, p, mode, FALSE)
      \/ /\ how # "existing"
         /\ n = Opened([m EXCEPT !.vol[p] = NewEntry, !.fresh = @ \cup {p}],
                       h, p, mode, TRUE)
  BY DEF f_open, OrFault
<1>5. QED
  BY <1>1, <1>2, <1>3, <1>4

LEMMA UnlinkFresh ==
  ASSUME NEW m, MachineOK(m), NEW p, NEW n \in f_unlink(m, p)
  PROVE  n.fresh \subseteq m.fresh
<1>1. (\E r : n = Return(m, r)) \/ (\E r : n = Return([m EXCEPT !.vol[p] = NoEntry], r))
      \/ n = [[m EXCEPT !.vol[p] = NoEntry] EXCEPT !.fresh = {}, !.res = FR_OK]
  BY DEF f_unlink, OrFault
<1>2. QED
  BY <1>1 DEF Return, MachineOK, MachineType

----------------------------------------------------------------------------
(* The selected image *)

\* The entry f_sync writes, the buffer being clean: the sectors are as they were.
LEMMA SyncSteady ==
  ASSUME ~Faults, NEW m, MachineOK(m), ImageFil(m), NEW n \in f_sync(m, 3)
  PROVE  /\ Steady(m, n)
         /\ m.fil[3].open => /\ n.fil[3].buf = m.fil[3].buf
                             /\ n.fil[3].val = m.fil[3].val
<1> DEFINE f == m.fil[3]
           p == f.path
           e == [m.vol[p] EXCEPT !.size = f.size, !.attr = AM_ARC]
           g == [f EXCEPT !.written = FALSE]
<1>1. CASE ~f.open \/ ~f.written
  <2>1. n = Return(m, FR_OK) \/ n = Return(m, FR_INVALID_OBJECT)
    BY <1>1 DEF f_sync
  <2>2. FR_OK \in Result /\ FR_INVALID_OBJECT \in Result
    BY ResultCodes DEF Errors
  <2> HIDE DEF e, g
  <2>3. n.fil = m.fil /\ n.vol = m.vol
    BY <2>1, <2>2, ReturnServes, SlotFacts
  <2>4. n.fresh = m.fresh
    BY <2>1, FreshKept, SlotFacts DEF MachineOK
  <2>5. QED
    BY <2>3, <2>4, SteadySame
<1>2. CASE f.open /\ f.written
  <2>1. /\ f \in Fil /\ p \in Path /\ m.vol[p] \in Entry /\ m.vol[p] # NoEntry
        /\ f.size \in Nat /\ m.vol[p].size \in Nat /\ m.vol[p].size <= f.size
    BY <1>2, OpenFil, ImageEntry, SlotFacts DEF ImageFil
  <2>2. n = UpdateEntry(m, 3)
    BY <1>2, SlotFacts DEF f_sync, OrFault, FlushBuf, ImageFil
  <2>3. n.vol = [m.vol EXCEPT ![p] = e] /\ n.fil = [m.fil EXCEPT ![3] = g]
        /\ n.fresh = {}
    BY <2>2 DEF UpdateEntry, MachineOK, MachineType
  <2>4. e \in Entry /\ e.blk = m.vol[p].blk /\ e.size = f.size
    BY <2>1 DEF Entry, Fil, Attr
  <2>5. g.open /\ g.path = p /\ g.buf = f.buf /\ g.val = f.val
    BY <1>2, <2>1 DEF Fil
  <2> HIDE DEF e, g
  <2>6. n.fil[3] = g /\ n.vol[p] = e /\ \A q \in Path \ {p} : n.vol[q] = m.vol[q]
    BY <2>1, <2>3, SlotFacts DEF MachineOK, MachineType
  <2>7. \A s \in Sectors : s >= e.size => s >= m.vol[p].size
    BY <2>1, <2>4, CapacityAssumption DEF Sectors
  <2>8. ASSUME NEW q \in ImagePath PROVE Grown(m.vol[q], n.vol[q])
    BY <2>1, <2>4, <2>6, <2>7, NoEntryAssumption, ImagePathParts DEF Grown
  <2>9. QED
    BY <1>2, <2>3, <2>5, <2>6, <2>8 DEF Steady
<1>3. QED
  BY <1>1, <1>2

LEMMA CloseSteady ==
  ASSUME ~Faults, NEW m, MachineOK(m), ImageFil(m), NEW n \in f_close(m, 3)
  PROVE  Steady(m, n)
<1>1. PICK k \in f_sync(m, 3) :
         n = IF k.res = FR_OK THEN [k EXCEPT !.fil[3] = Closed] ELSE k
  BY DEF f_close
<1>2. MachineOK(k) /\ Steady(m, k)
  BY <1>1, SyncSteady, SyncSpares, SlotFacts DEF Kept
<1>3. n.vol = k.vol /\ n.fresh = k.fresh
      /\ (n.fil[3] = k.fil[3] \/ n.fil[3] = Closed)
  BY <1>1, <1>2, SlotFacts DEF MachineOK, MachineType
<1>4. Steady(k, n)
  BY <1>3, ClosedType DEF Steady, Grown
<1>5. QED
  BY <1>2, <1>4, SteadyTrans

\* f_open of an existing image starts with an empty buffer.
LEMMA OpenSteady ==
  ASSUME NEW m, MachineOK(m), NEW p, NEW mode, NEW n \in f_open(m, 3, p, mode, "existing")
  PROVE  Steady(m, n)
<1>1. n.vol = m.vol /\ n.fresh = m.fresh
  BY OpenExisting, OpenedFresh, SlotFacts
<1>2. \/ \E r : n = SetFil(m, 3, Closed, r)
      \/ n = Opened(m, 3, p, mode, FALSE)
  BY DEF f_open, OrFault, Exists
<1>3. n.fil[3].open => n.fil[3].buf = NoSector
  <2>1. ASSUME NEW r, n = SetFil(m, 3, Closed, r) PROVE ~n.fil[3].open
    BY <2>1, NewFil, ClosedType, SlotFacts DEF MachineOK
  <2>2. ASSUME n = Opened(m, 3, p, mode, FALSE) PROVE n.fil[3].buf = NoSector
    BY <2>2, SlotFacts DEF Opened, MachineOK, MachineType
  <2>3. QED
    BY <1>2, <2>1, <2>2
<1>4. QED
  BY <1>1, <1>3 DEF Steady, Grown

\* f_lseek changes the file pointer and the size in the FIL.
LEMMA SeekSteady ==
  ASSUME ~Faults, NEW m, MachineOK(m), NEW ofs \in Nat, NEW n \in f_lseek(m, 3, ofs)
  PROVE  Steady(m, n)
<1> DEFINE f == m.fil[3]
           no == Refusal(f, TRUE)
           to == SeekTo(f, ofs)
           len == Larger(f.size, to)
           g == [f EXCEPT !.fptr = to, !.size = len, !.written = @ \/ to > f.size]
<1>1. n.vol = m.vol /\ n.fresh = m.fresh
  BY SeekServes, SeekFresh, SlotFacts
<1>2. CASE no # FR_OK
  <2>1. n = Return(m, no) /\ no \in Result
    BY <1>2, RefusalLemma DEF f_lseek
  <2> HIDE DEF no
  <2>2. n.fil = m.fil
    BY <2>1, ReturnServes, SlotFacts
  <2>3. QED
    BY <1>1, <2>2, SteadySame
<1>3. CASE no = FR_OK
  <2>1. n = SetFil(m, 3, g, FR_OK)
    BY <1>3 DEF f_lseek, OrFault
  <2>2. f \in Fil /\ f.open
    BY <1>3, RefusalLemma, OpenFil, SlotFacts
  <2> HIDE DEF len, to
  <2>3. g.path = f.path /\ g.buf = f.buf /\ g.val = f.val
    BY <2>2 DEF Fil
  <2> HIDE DEF g
  <2>4. n.fil[3] = g
    BY <2>1, NewFil, SlotFacts DEF MachineOK
  <2>5. QED
    BY <1>1, <2>2, <2>3, <2>4 DEF Steady, Grown
<1>4. QED
  BY <1>2, <1>3

----------------------------------------------------------------------------
(* The drive commands *)

\* What the drive commands leave: fildata[3] is an image, and steady.
Sails(m, n) == Passes(m, n) /\ Steady(m, n)

LEMMA SailsTrans ==
  ASSUME NEW m, NEW k, NEW n, Sails(m, k), Sails(k, n)
  PROVE  Sails(m, n)
  BY PassesTrans, SteadyTrans DEF Sails

LEMMA SailsOn ==
  ASSUME NEW m, NEW n, Sails(m, n)
  PROVE  MachineOK(n) /\ ImageFil(n)
  BY PassesImage DEF Sails

LEMMA SameSails ==
  ASSUME NEW m, ImageFil(m), NEW n, MachineOK(n), n.vol = m.vol, n.fil = m.fil,
         n.fresh = m.fresh, n.last = m.last \/ ~n.fil[3].open
  PROVE  Sails(m, n)
  BY SamePasses, SteadySame DEF Sails

LEMMA SwitchSails ==
  ASSUME ~Faults, NEW m, MachineOK(m), ImageFil(m), NEW d \in Drives,
         NEW n \in switchDrive(m, d)
  PROVE  Sails(m, n)
<1>1. Passes(m, n)
  BY SwitchPasses
<1>2. CASE d = m.last
  <2>1. n = Return(m, FR_OK) /\ FR_OK \in Result
    BY <1>2, ResultCodes DEF switchDrive
  <2>2. n.fil = m.fil /\ n.vol = m.vol /\ n.fresh = m.fresh
    BY <2>1, ReturnServes, FreshKept, SlotFacts DEF MachineOK
  <2>3. QED
    BY <1>1, <2>2, SteadySame DEF Sails
<1>3. CASE d # m.last
  <2> DEFINE p == <<m.cdir, m.drv[d].name>>
  <2>1. PICK c \in (IF m.last # NoDrive THEN f_close(m, SDDOS_FILE) ELSE {m}) :
          \E o \in f_open([c EXCEPT !.last = NoDrive], SDDOS_FILE, p,
                          "both", "existing") :
             n = IF o.res = FR_OK THEN [o EXCEPT !.last = d] ELSE o
    BY <1>3 DEF switchDrive
  <2>2. Steady(m, c) /\ MachineOK(c)
    <3>1. CASE m.last # NoDrive
      BY <2>1, <3>1, CloseSteady, CloseLemma, SlotFacts
    <3>2. CASE m.last = NoDrive
      BY <2>1, <3>2, SteadySame
    <3>3. QED
      BY <3>1, <3>2
  <2> DEFINE x == [c EXCEPT !.last = NoDrive]
  <2>3. MachineOK(x) /\ x.vol = c.vol /\ x.fil = c.fil /\ x.fresh = c.fresh
    <3>1. x.fresh = c.fresh
      BY <2>2 DEF MachineOK, MachineType
    <3>2. QED
      BY <2>2, <3>1, SelectLemma
  <2> HIDE DEF x, p
  <2>4. PICK o \in f_open(x, 3, p, "both", "existing") :
             n = IF o.res = FR_OK THEN [o EXCEPT !.last = d] ELSE o
    BY <2>1, SlotFacts DEF x
  <2>5. Steady(x, o) /\ MachineOK(o)
    <3>1. Steady(x, o)
      BY <2>3, <2>4, OpenSteady
    <3>2. OpenResult(x, o, 3, p, "both")
      BY <2>3, <2>4, OpenLemma, SlotFacts
    <3>3. QED
      BY <3>1, <3>2 DEF OpenResult
  <2>6. n.vol = o.vol /\ n.fil = o.fil /\ n.fresh = o.fresh
    BY <2>4, <2>5 DEF MachineOK, MachineType
  <2>7. QED
    BY <1>1, <2>2, <2>3, <2>5, <2>6, SteadySame, SteadyTrans DEF Sails
<1>4. QED
  BY <1>2, <1>3

LEMMA TrySails ==
  ASSUME ~Faults, NEW m, MachineOK(m), ImageFil(m), NEW d \in Drives,
         m.drv[d].attribs # Unset, NEW n \in tryOpenImage(m, d)
  PROVE  Sails(m, n)
<1>1. PICK x \in switchDrive(m, d) :
         \/ \E r : n = Return(x, r)
         \/ \E a : n = Return([x EXCEPT !.drv[d].attribs = a], a)
  BY DEF tryOpenImage
<1>2. Sails(m, x) /\ MachineOK(x)
  BY <1>1, SwitchSails, SailsOn
<1>3. n.vol = x.vol /\ n.fil = x.fil /\ n.fresh = x.fresh
  BY <1>1, <1>2 DEF Return, MachineOK, MachineType
<1>4. QED
  BY <1>2, <1>3, TryPasses, SteadySame, SteadyTrans DEF Sails

LEMMA SetDriveSails ==
  ASSUME NEW m, MachineOK(m), ImageFil(m), NEW d \in Drives, NEW info \in ImgInfo
  PROVE  Sails(m, SetDrive(m, d, info))
<1>1. LET n == SetDrive(m, d, info) IN
      n.vol = m.vol /\ n.fil = m.fil /\ n.fresh = m.fresh
  BY DEF SetDrive, MachineOK, MachineType
<1>2. QED
  BY <1>1, SetDrivePasses, SteadySame DEF Sails

LEMMA UnusedSails ==
  ASSUME NEW m, MachineOK(m), ImageFil(m), NEW d \in Drives
  PROVE  Sails(m, SetDrive(m, d, Unused))
  BY DriveType, SetDriveSails

\* A drive in use has the name of an image.
Named(m, d) == m.drv[d].attribs # Unset => m.drv[d].name \in ImageNames

\* One round of the loop over the drives, for a drive that is not selected.
Checked(m, n, d) ==
    /\ Sails(m, n)
    /\ \A i \in Drives \ {d} : n.drv[i] = m.drv[i]
    /\ m.last # d => n.last \in {m.last, NoDrive, d} /\ Named(n, d)

LEMMA SwitchChooses ==
  ASSUME NEW m, MachineOK(m), NEW d \in Drives, NEW n \in switchDrive(m, d)
  PROVE  /\ n.fil[3].open \/ n.res = FR_OK => n.last = d
         /\ n.last \in {m.last, NoDrive, d}
         /\ n.drv = m.drv
         /\ d # m.last /\ n.res = FR_OK => m.drv[d].name \in ImageNames
<1>1. CASE d = m.last
  <2>1. n = Return(m, FR_OK) /\ FR_OK \in 0..255
    BY <1>1, ResultCodes DEF switchDrive
  <2>2. QED
    BY <1>1, <2>1, ReturnSame DEF OnlyResult
<1>2. CASE d # m.last
  <2> DEFINE p == <<m.cdir, m.drv[d].name>>
  <2>1. PICK c \in (IF m.last # NoDrive THEN f_close(m, SDDOS_FILE) ELSE {m}) :
          \E o \in f_open([c EXCEPT !.last = NoDrive], SDDOS_FILE, p,
                          "both", "existing") :
             n = IF o.res = FR_OK THEN [o EXCEPT !.last = d] ELSE o
    BY <1>2 DEF switchDrive
  <2>2. MachineOK(c)
    BY <2>1, CloseLemma, SlotFacts
  <2> DEFINE x == [c EXCEPT !.last = NoDrive]
  <2>3. MachineOK(x) /\ x.last = NoDrive
    BY <2>2, SelectLemma
  <2>4. p \in Path => m.drv[d].name \in ImageNames
    BY ImagePath2
  <2> HIDE DEF x, p
  <2>5. PICK o \in f_open(x, 3, p, "both", "existing") :
             n = IF o.res = FR_OK THEN [o EXCEPT !.last = d] ELSE o
    BY <2>1, SlotFacts DEF x
  <2>6. OpenResult(x, o, 3, p, "both")
    BY <2>3, <2>5, OpenLemma, SlotFacts
  <2>7. /\ o.res = FR_OK => p \in Path /\ n.last = d /\ n.fil = o.fil
        /\ o.res # FR_OK => n = o /\ ~o.fil[3].open /\ n.last = NoDrive
        /\ n.res = o.res
    BY <2>3, <2>5, <2>6 DEF OpenResult, Frame, MachineOK, MachineType
  <2>8. n.drv = m.drv
    BY SwitchLemma
  <2>9. QED
    BY <2>4, <2>7, <2>8
<1>3. QED
  BY <1>1, <1>2

LEMMA ValidateChecks ==
  ASSUME ~Faults, NEW m, MachineOK(m), ImageFil(m), NEW d \in Drives,
         NEW n \in ValidateDrive(m, d)
  PROVE  Checked(m, n, d) /\ MachineOK(n) /\ ImageFil(n)
<1>1. ASSUME NEW t, MachineOK(t), ImageFil(t)
      PROVE  /\ Sails(t, SetDrive(t, d, Unused))
             /\ SetDrive(t, d, Unused).last = t.last
             /\ SetDrive(t, d, Unused).drv[d] = Unused
             /\ \A i \in Drives \ {d} : SetDrive(t, d, Unused).drv[i] = t.drv[i]
  BY <1>1, UnusedSails, SetDriveLemma, DriveType
<1>2. Unused.attribs = Unset
  BY DriveType
<1>3. CASE m.drv[d].attribs = Unset
  <2>1. n = SetDrive(m, d, Unused)
    BY <1>3 DEF ValidateDrive
  <2>2. Checked(m, n, d)
    BY <1>1, <1>2, <2>1 DEF Checked, Named
  <2>3. QED
    BY <2>2, SailsOn DEF Checked
<1>4. CASE m.drv[d].attribs # Unset
  <2>1. PICK t \in tryOpenImage(m, d) :
           n = IF t.res >= STATUS_COMPLETE THEN SetDrive(t, d, Unused) ELSE t
    BY <1>4 DEF ValidateDrive
  <2>2. Sails(m, t) /\ MachineOK(t) /\ ImageFil(t) /\ TableKept(m, t, d)
    BY <1>4, <2>1, TrySails, SailsOn, TryLemma
  <2>3. m.last # d => t.last \in {m.last, NoDrive, d}
                      /\ (~(t.res >= STATUS_COMPLETE) => Named(t, d))
    <3>1. PICK x \in switchDrive(m, d) :
             \/ x.res # FR_OK /\ t = Return(x, Complete(x.res))
             \/ x.res = FR_OK /\ t = Return(x, STATUS_COMPLETE + ERROR_ALREADY_MOUNT)
             \/ x.res = FR_OK /\ \E a : t = Return([x EXCEPT !.drv[d].attribs = a], a)
      BY <2>1 DEF tryOpenImage
    <3>2. MachineOK(x) /\ x.res \in Result
      BY <3>1, SwitchLemma DEF Selects
    <3>3. x.last \in {m.last, NoDrive, d}
          /\ (d # m.last /\ x.res = FR_OK => m.drv[d].name \in ImageNames)
      BY <3>1, SwitchChooses
    <3>4. t.last = x.last
      BY <3>1, <3>2 DEF Return, MachineOK, MachineType
    <3>5. x.res # FR_OK => t.res >= STATUS_COMPLETE
      <4>1. Complete(x.res) >= STATUS_COMPLETE
        BY <3>2, ResultCodes DEF Complete, STATUS_COMPLETE
      <4>2. x.res # FR_OK => t.res = Complete(x.res)
        BY <3>1, <3>2 DEF Return, MachineOK, MachineType
      <4>3. QED
        BY <4>1, <4>2
    <3>6. QED
      BY <2>2, <3>3, <3>4, <3>5 DEF Named, TableKept
  <2>4. Sails(m, n) /\ (n = t \/ n = SetDrive(t, d, Unused))
    BY <1>1, <2>1, <2>2, SailsTrans
  <2>5. Checked(m, n, d)
    BY <1>1, <1>2, <2>1, <2>2, <2>3, <2>4 DEF Checked, Named, TableKept
  <2>6. QED
    BY <2>4, <2>5, SailsOn
<1>5. QED
  BY <1>3, <1>4

\* With no drive selected every drive that stays mounted has been opened.
LEMMA ValidateAllChecks ==
  ASSUME ~Faults, NEW m, MachineOK(m), ImageFil(m), NEW n \in ValidateAll(m)
  PROVE  /\ Sails(m, n) /\ MachineOK(n) /\ ImageFil(n)
         /\ m.last = NoDrive => \A d \in Drives : Named(n, d)
<1>1. PICK m1 \in ValidateDrive(m, 0) :
         \E m2 \in ValidateDrive(m1, 1) : \E m3 \in ValidateDrive(m2, 2) :
             n \in ValidateDrive(m3, 3)
  BY DEF ValidateAll
<1>2. Checked(m, m1, 0) /\ MachineOK(m1) /\ ImageFil(m1)
  BY <1>1, ValidateChecks, SlotFacts
<1>3. PICK m2 \in ValidateDrive(m1, 1) : \E m3 \in ValidateDrive(m2, 2) :
         n \in ValidateDrive(m3, 3)
  BY <1>1
<1>4. Checked(m1, m2, 1) /\ MachineOK(m2) /\ ImageFil(m2)
  BY <1>2, <1>3, ValidateChecks, SlotFacts
<1>5. PICK m3 \in ValidateDrive(m2, 2) : n \in ValidateDrive(m3, 3)
  BY <1>3
<1>6. Checked(m2, m3, 2) /\ MachineOK(m3) /\ ImageFil(m3)
  BY <1>4, <1>5, ValidateChecks, SlotFacts
<1>7. Checked(m3, n, 3) /\ MachineOK(n) /\ ImageFil(n)
  BY <1>5, <1>6, ValidateChecks, SlotFacts
<1>8. ASSUME m.last = NoDrive, NEW d \in Drives PROVE Named(n, d)
  <2>1. m1.last \in {NoDrive, 0} /\ Named(m1, 0)
    BY <1>2, <1>8 DEF Checked, NoDrive
  <2>2. m2.last \in {NoDrive, 0, 1} /\ Named(m2, 1)
    BY <1>4, <2>1 DEF Checked, NoDrive
  <2>3. m3.last \in {NoDrive, 0, 1, 2} /\ Named(m3, 2)
    BY <1>6, <2>2 DEF Checked, NoDrive
  <2>4. Named(n, 3)
    BY <1>7, <2>3 DEF Checked, NoDrive
  <2>5. Named(n, 0) /\ Named(n, 1) /\ Named(n, 2)
    BY <1>4, <1>6, <1>7, <2>1, <2>2, <2>3, SlotFacts DEF Checked, Named
  <2>6. QED
    BY <2>4, <2>5, SlotFacts
<1>9. QED
  BY <1>2, <1>4, <1>6, <1>7, <1>8, SailsTrans DEF Checked

----------------------------------------------------------------------------
(* Files that are no images *)

LEMMA ApartSteady ==
  ASSUME NEW m, NEW n, n.fil[3] = m.fil[3], NEW p, p[2] \notin ImageNames,
         OnlyPath(m, n, p), n.fresh \subseteq m.fresh \cup {p}
  PROVE  Steady(m, n)
<1>1. p \notin ImagePath
  BY DEF ImagePath
<1>2. QED
  BY <1>1, ImagePathParts DEF OnlyPath, Steady, Grown

LEMMA SaveSails ==
  ASSUME ~Faults, NEW m, MachineOK(m), ImageFil(m), ~m.fil[0].open,
         NEW n \in saveDrivesImpl(m)
  PROVE  Sails(m, n) /\ n.drv = m.drv
<1> DEFINE x == SetData(m, Alien)
           p == <<m.cdir, CfgName>>
<1>1. ThroughScratch(m, n) /\ n.drv = m.drv /\ Passes(m, n) /\ OnlyPath(m, n, p)
  BY SaveLemma, SavePasses
<1>2. MachineOK(x) /\ x.fresh = m.fresh
  BY SetDataLemma, FreshKept, SlotFacts DEF MachineOK
<1>3. p[2] \notin ImageNames
  BY NamesAssumption
<1> HIDE DEF x, p
<1>4. PICK o \in f_open(x, 0, p, "write", "always") :
         n \in (IF o.res # FR_OK THEN {o}
                ELSE UNION {f_close(w, 0) : w \in f_write(o, 0, o.drv)})
  BY DEF saveDrivesImpl, x, p
<1>5. MachineOK(o)
  <2>1. OpenResult(x, o, 0, p, "write")
    BY <1>2, <1>4, OpenLemma, SlotFacts
  <2>2. QED
    BY <2>1 DEF OpenResult
<1>6. o.fresh \subseteq m.fresh \cup {p}
  BY <1>2, <1>4, OpenedFresh, SlotFacts
<1>7. n.fresh \subseteq o.fresh
  <2>1. CASE o.res # FR_OK
    BY <1>4, <2>1
  <2>2. CASE o.res = FR_OK
    <3>1. PICK w \in f_write(o, 0, o.drv) : n \in f_close(w, 0)
      BY <1>4, <2>2
    <3>2. MachineOK(w) /\ w.fresh = o.fresh
      BY <1>5, <3>1, WriteLemma, WriteFresh, DriveType, SlotFacts DEF CallResult, Kept
    <3>3. QED
      BY <3>1, <3>2, CloseFresh, SlotFacts
  <2>3. QED
    BY <2>1, <2>2
<1>8. n.fil[3] = m.fil[3]
  BY <1>1, SlotFacts DEF ThroughScratch
<1>9. Steady(m, n)
  BY <1>1, <1>3, <1>6, <1>7, <1>8, ApartSteady
<1>10. QED
  BY <1>1, <1>9 DEF Sails

LEMMA LoadSails ==
  ASSUME ~Faults, NEW m, MachineOK(m), ImageFil(m), ~m.fil[0].open,
         NEW n \in loadDrives(m)
  PROVE  Sails(m, n) /\ n.last = m.last
<1> DEFINE x == SetData(m, Alien)
           p == <<m.cdir, CfgName>>
           none == [d \in Drives |-> Unused]
<1>1. ThroughScratch(m, n) /\ Passes(m, n) /\ OnlyPath(m, n, p)
  BY LoadLemma, LoadPasses
<1>2. MachineOK(x) /\ x.fresh = m.fresh
  BY SetDataLemma, FreshKept, SlotFacts DEF MachineOK
<1>3. p[2] \notin ImageNames
  BY NamesAssumption
<1> HIDE DEF x, p, none
<1>4. PICK o \in f_open(x, 0, p, "read", "existing") :
         n \in (IF o.res # FR_OK THEN {[o EXCEPT !.drv = none]}
                ELSE UNION {UNION {f_close(l, 0) : l \in Overlaid(o, r)} :
                            r \in f_read(o, 0)})
  BY DEF loadDrives, x, p, none
<1>5. MachineOK(o)
  <2>1. OpenResult(x, o, 0, p, "read")
    BY <1>2, <1>4, OpenLemma, SlotFacts
  <2>2. QED
    BY <2>1 DEF OpenResult
<1>6. o.fresh = m.fresh
  BY <1>2, <1>4, OpenedFresh, SlotFacts
<1>7. n.fresh \subseteq o.fresh
  <2>1. CASE o.res # FR_OK
    BY <1>4, <1>5, <2>1 DEF MachineOK, MachineType
  <2>2. CASE o.res = FR_OK
    <3>1. PICK r \in f_read(o, 0) : \E l \in Overlaid(o, r) : n \in f_close(l, 0)
      BY <1>4, <2>2
    <3>2. PICK l \in Overlaid(o, r) : n \in f_close(l, 0)
      BY <3>1
    <3>3. MachineOK(r) /\ r.fresh = o.fresh
      BY <1>5, <3>1, ReadLemma, ReadFresh, SlotFacts DEF CallResult, Kept
    <3>4. l = r \/ \E t \in DriveTable : l = [r EXCEPT !.drv = t, !.data = Alien]
      BY <3>2 DEF Overlaid, TablesIn
    <3>5. MachineOK(l) /\ l.fresh = r.fresh
      <4>1. ASSUME NEW t \in DriveTable, l = [r EXCEPT !.drv = t, !.data = Alien]
            PROVE  MachineOK(l) /\ l.fresh = r.fresh
        <5>1. MachineOK(l)
          BY <3>3, <4>1, SetTableLemma DEF ThroughScratch
        <5>2. l.fresh = r.fresh
          BY <3>3, <4>1 DEF MachineOK, MachineType
        <5>3. QED
          BY <5>1, <5>2
      <4>2. QED
        BY <3>3, <3>4, <4>1
    <3>6. QED
      BY <3>2, <3>3, <3>5, CloseFresh, SlotFacts
  <2>3. QED
    BY <2>1, <2>2
<1>8. n.fil[3] = m.fil[3] /\ n.last = m.last
  BY <1>1, SlotFacts DEF ThroughScratch
<1>9. Steady(m, n)
  BY <1>1, <1>3, <1>6, <1>7, <1>8, ApartSteady
<1>10. QED
  BY <1>1, <1>8, <1>9 DEF Sails

----------------------------------------------------------------------------
(* Between two commands *)

Images == [p \in ImagePath |-> SectorsOf(vol, p)]

\* The host knows of a drive just when the firmware has an image in it.
Knows ==
    \A d \in Drives :
        IF driveInfo[d].attribs = Unset THEN bound[d] = NoPath ELSE bound[d] \in ImagePath

FloppyInv == DataInv /\ Bindings /\ Knows /\ Good(Machine)

\* A command that the images do not notice.
ImagesKept == Good(Machine)' /\ Images' = Images

LEMMA InvMachine ==
  ASSUME FloppyInv
  PROVE  /\ State /\ MachineOK(Machine) /\ ImageFil(Machine) /\ Good(Machine)
         /\ fildata[3].open => fildata[3].path \in ImagePath
<1>1. State /\ MachineOK(Machine) /\ ImageFil(Machine) /\ Good(Machine)
  BY MachineState DEF FloppyInv, DataInv, DataState
<1>2. Machine.fil[3].open => Machine.fil[3].path \in ImagePath
  BY <1>1, SelectedPath, ImageParts
<1>3. QED
  BY <1>1, <1>2, MachineFields

LEMMA GoodNext ==
  ASSUME NEW m, Good(m), vol' = m.vol, fildata' = m.fil, fresh' = m.fresh
  PROVE  Good(Machine)'
<1>1. Machine'.vol = m.vol /\ Machine'.fil = m.fil /\ Machine'.fresh = m.fresh
  BY DEF Machine
<1>2. QED
  BY <1>1 DEF Good, Coherent

LEMMA GoodKept ==
  ASSUME NEW m, Good(m), SameImages(Machine, m), NEW s, Becomes(m, s)
  PROVE  ImagesKept
<1>1. vol' = m.vol /\ fildata' = m.fil /\ fresh' = m.fresh
  BY DEF Becomes
<1>2. Good(Machine)'
  BY <1>1, GoodNext
<1>3. Images' = Images
  BY <1>1, MachineFields DEF Images, SameImages, SectorsOf
<1>4. QED
  BY <1>2, <1>3 DEF ImagesKept

LEMMA SteadyKept ==
  ASSUME FloppyInv, NEW m, Steady(Machine, m),
         m.fil[3].open => m.fil[3].path \in ImagePath, NEW s, Becomes(m, s)
  PROVE  ImagesKept
  BY InvMachine, SteadyGood, GoodKept

LEMMA SailsKept ==
  ASSUME FloppyInv, NEW m, Sails(Machine, m), NEW s, Becomes(m, s)
  PROVE  ImagesKept
<1>1. MachineOK(m) /\ ImageFil(m)
  BY SailsOn
<1>2. m.fil[3].open => m.fil[3].path \in ImagePath
  BY <1>1, SelectedPath, ImageParts
<1>3. QED
  BY <1>2, SteadyKept DEF Sails

LEMMA StillKept ==
  ASSUME FloppyInv, UNCHANGED <<vol, fildata, fresh>>
  PROVE  ImagesKept
<1>1. Good(Machine)'
  <2>1. Machine.fresh = fresh
    BY DEF Machine
  <2>2. QED
    BY <2>1, InvMachine, GoodNext, MachineFields
<1>2. Images' = Images
  BY DEF Images, SectorsOf
<1>3. QED
  BY <1>1, <1>2 DEF ImagesKept

----------------------------------------------------------------------------
(* Commands on the host's files *)

LEMMA HostKept ==
  ASSUME FloppyInv, NEW h \in HostSlots, NEW m, Frame(Machine, m, h),
         NEW p, p[2] \notin ImageNames, OnlyPath(Machine, m, p),
         m.fresh \subseteq fresh \cup {p}, NEW s, Becomes(m, s)
  PROVE  ImagesKept
<1>1. m.fil[3] = Machine.fil[3]
  BY HostSlotFacts, SlotFacts DEF Frame
<1>2. Machine.fresh = fresh /\ Machine.fil = fildata
  BY DEF Machine
<1>3. Steady(Machine, m)
  BY <1>1, <1>2, ApartSteady
<1>4. QED
  BY <1>1, <1>2, <1>3, InvMachine, SteadyKept

LEMMA CallKept ==
  ASSUME FloppyInv, NEW h \in HostSlots, NEW m, Frame(Machine, m, h),
         OnlyFile(Machine, m, h), m.fresh \subseteq fresh, NEW s, Becomes(m, s)
  PROVE  ImagesKept
<1>1. CASE Machine.fil[h].open
  <2>1. Machine.fil[h].path[2] \notin ImageNames
    BY <1>1, NamesAssumption DEF FloppyInv, DataInv, DataState, HostFil
  <2>2. OnlyPath(Machine, m, Machine.fil[h].path)
    BY FilOnlyPath, HostSlotFacts
  <2>3. QED
    BY <2>1, <2>2, HostKept
<1>2. CASE ~Machine.fil[h].open
  <2>1. OnlyPath(Machine, m, CfgFile)
    BY <1>2 DEF OnlyFile, OnlyPath
  <2>2. QED
    BY <2>1, CfgName2, HostKept
<1>3. QED
  BY <1>1, <1>2

LEMMA MachineFresh == Machine.fresh = fresh
  BY DEF Machine

LEMMA FileReadKept ==
  ASSUME ~Faults, FloppyInv, NEW h \in HostSlots, FileRead(h)
  PROVE  ImagesKept
<1>1. PICK m \in f_read(Machine, h) : \E s : Becomes(m, s)
  BY DEF FileRead
<1>2. MachineOK(Machine) /\ h \in Slots
  BY InvMachine, HostSlotFacts
<1>3. CallResult(Machine, m, h) /\ OnlyFile(Machine, m, h) /\ m.fresh = fresh
  BY <1>1, <1>2, ReadLemma, ReadSpares, ReadFresh, MachineFresh
<1>4. QED
  BY <1>1, <1>3, CallKept DEF CallResult, Kept

LEMMA FileSeekKept ==
  ASSUME ~Faults, FloppyInv, NEW h \in HostSlots, NEW ofs \in 0..Capacity,
         FileSeek(h, ofs)
  PROVE  ImagesKept
<1>1. PICK m \in f_lseek(Machine, h, ofs) : Becomes(m, Complete(m.res))
  BY DEF FileSeek
<1>2. MachineOK(Machine) /\ h \in Slots /\ ofs \in Nat
  BY InvMachine, HostSlotFacts, CapacityAssumption
<1>3. CallResult(Machine, m, h) /\ OnlyFile(Machine, m, h) /\ m.fresh = fresh
  BY <1>1, <1>2, SeekLemma, SeekSpares, SeekFresh, MachineFresh
<1>4. QED
  BY <1>1, <1>3, CallKept DEF CallResult, Kept

LEMMA FileCloseKept ==
  ASSUME ~Faults, FloppyInv, NEW h \in HostSlots, FileClose(h)
  PROVE  ImagesKept
<1>1. PICK m \in f_close(Machine, h) : Becomes(m, Complete(m.res))
  BY DEF FileClose
<1>2. MachineOK(Machine) /\ h \in Slots
  BY InvMachine, HostSlotFacts
<1>3. Frame(Machine, m, h) /\ OnlyFile(Machine, m, h) /\ m.fresh \subseteq fresh
  BY <1>1, <1>2, CloseLemma, CloseSpares, CloseFresh, MachineFresh
<1>4. QED
  BY <1>1, <1>3, CallKept

LEMMA FileWriteKept ==
  ASSUME ~Faults, FloppyInv, NEW h \in HostSlots, NEW v \in Data, FileWrite(h, v)
  PROVE  ImagesKept
<1> DEFINE x == SetData(Machine, v)
<1>1. v \in Value /\ h \in Slots /\ MachineOK(Machine)
  BY InvMachine, HostSlotFacts DEF Value
<1>2. /\ MachineOK(x) /\ Kept(Machine, x, h)
      /\ x.fil = Machine.fil /\ x.vol = Machine.vol /\ x.fresh = fresh
  BY <1>1, SetDataLemma, FreshKept, MachineFresh DEF MachineOK
<1> HIDE DEF x
<1>3. PICK m \in f_write(x, h, v) : Becomes(m, Complete(m.res))
  BY DEF FileWrite, x
<1>4. CallResult(x, m, h) /\ OnlyFile(x, m, h) /\ m.fresh = fresh
  BY <1>1, <1>2, <1>3, WriteLemma, WriteSpares, WriteFresh
<1>5. Frame(Machine, m, h) /\ OnlyFile(Machine, m, h)
  BY <1>2, <1>4 DEF CallResult, Kept, Frame, OnlyFile
<1>6. QED
  BY <1>3, <1>4, <1>5, CallKept

LEMMA FileOpenKept ==
  ASSUME FloppyInv, NEW h \in HostSlots, NEW n \in HostNames,
         h # 0 /\ FreeSlots # {} => FirstFree # 3,
         NEW mode \in {"read", "write", "both"}, NEW how,
         fileOpen(h, n, mode, how)
  PROVE  ImagesKept
<1> DEFINE slot == IF h = 0 THEN 0 ELSE FirstFree
           p == <<cdir, n>>
<1>1. CASE h # 0 /\ FreeSlots = {}
  <2>1. Becomes(Machine, Complete(ERROR_TOO_MANY_OPEN))
    BY <1>1 DEF fileOpen
  <2>2. UNCHANGED <<vol, fildata, fresh>>
    BY <2>1, MachineFields, MachineFresh DEF Becomes
  <2>3. QED
    BY <2>2, StillKept
<1>2. CASE ~(h # 0 /\ FreeSlots = {})
  <2>1. slot \in HostSlots
    BY <1>2, FirstFreeLemma DEF FreeSlots, HostSlots
  <2>2. PICK m \in f_open(Machine, slot, p, mode, how) :
            Becomes(m, OpenStatus(slot, m.res))
    BY <1>2 DEF fileOpen
  <2>3. MachineOK(Machine) /\ slot \in Slots
    BY <2>1, InvMachine, HostSlotFacts
  <2>4. p[2] \notin ImageNames
    BY NamesAssumption
  <2> HIDE DEF slot, p
  <2>5. OpenResult(Machine, m, slot, p, mode) /\ OnlyPath(Machine, m, p)
    BY <2>2, <2>3, OpenLemma, OpenOnlyPath
  <2>6. m.fresh \subseteq fresh \cup {p}
    BY <2>2, <2>3, OpenedFresh, MachineFresh
  <2>7. QED
    BY <2>1, <2>2, <2>4, <2>5, <2>6, HostKept DEF OpenResult
<1>3. QED
  BY <1>1, <1>2

LEMMA ChdirKept ==
  ASSUME FloppyInv, NEW c, SetCWDirectory(c)
  PROVE  ImagesKept
<1>1. PICK m \in {[Machine EXCEPT !.cdir = c, !.res = FR_OK],
                  Return(Machine, FR_DISK_ERR)} : Becomes(m, Complete(m.res))
  BY DEF SetCWDirectory, OrFault
<1>2. m.vol = vol /\ m.fil = fildata /\ m.fresh = fresh
  BY <1>1 DEF Machine, Return
<1>3. QED
  BY <1>1, <1>2, StillKept DEF Becomes

\* Deleting a file that no FIL is open on: an image that goes is all unwritten.
LEMMA FileDeleteErases ==
  ASSUME FloppyInv, NEW n \in HostNames \cup ImageNames, FileDelete(n)
  PROVE  /\ Good(Machine)'
         /\ \/ Images' = Images
            \/ \E i \in ImagePath : Images' = [Images EXCEPT ![i] = [s \in Sectors |-> Blank]]
<1> DEFINE p == <<cdir, n>>
           gone == [vol EXCEPT ![p] = NoEntry]
<1>1. PICK m \in f_unlink(Machine, p) : Becomes(m, Complete(m.res))
  BY DEF FileDelete
<1>2. \A h \in Slots : fildata[h].open => fildata[h].path # p
  BY DEF FileDelete, NotInUse
<1>3. MachineOK(Machine) /\ Good(Machine) /\ TypeOK
  BY InvMachine DEF State
<1>4. m.fil = Machine.fil /\ m.fresh \subseteq fresh
  <2>1. \A h \in Slots : Machine.fil[h].open => Machine.fil[h].path # p
    BY <1>2, MachineFields
  <2> HIDE DEF p
  <2>2. m.fil = Machine.fil
    BY <1>1, <1>3, <2>1, UnlinkLemma
  <2>3. QED
    BY <1>1, <1>3, <2>2, UnlinkFresh, MachineFresh
<1>5. m.vol = vol \/ m.vol = gone
  BY <1>1 DEF f_unlink, OrFault, Return, Machine
<1>6. p \in Path
  BY <1>3 DEF TypeOK, Path, Names
<1>7. vol' = m.vol /\ fildata' = fildata /\ fresh' = m.fresh
  BY <1>1, <1>4, MachineFields DEF Becomes
<1> HIDE DEF p, gone
<1>8. vol' = vol \/ /\ vol'[p] = NoEntry
                    /\ \A q \in Path \ {p} : vol'[q] = vol[q]
  BY <1>3, <1>5, <1>6, <1>7 DEF gone, TypeOK
<1>9. Good(m)
  <2>1. fildata[3].open => fildata[3].path \in ImagePath /\ fildata[3].path # p
    BY <1>2, InvMachine, SlotFacts
  <2>2. Coherent(m)
    BY <1>3, <1>4, <1>7, <1>8, <2>1, ImagePathParts, MachineFields DEF Good, Coherent
  <2>3. \A q \in ImagePath : Tail(m.vol[q])
    BY <1>3, <1>7, <1>8, ImagePathParts, MachineFields DEF Good, Tail
  <2>4. QED
    BY <1>3, <1>4, <2>2, <2>3, MachineFresh DEF Good
<1>10. Good(Machine)'
  BY <1>4, <1>7, <1>9, GoodNext, MachineFields
<1>11. CASE vol' = vol
  BY <1>10, <1>11 DEF Images, SectorsOf
<1>12. CASE p \in ImagePath /\ vol'[p] = NoEntry /\ \A q \in Path \ {p} : vol'[q] = vol[q]
  <2>1. Images' = [Images EXCEPT ![p] = [s \in Sectors |-> Blank]]
    BY <1>12, ImagePathParts DEF Images, SectorsOf, NewEntry
  <2>2. QED
    BY <1>10, <1>12, <2>1
<1>13. CASE p \notin ImagePath /\ \A q \in Path \ {p} : vol'[q] = vol[q]
  <2>1. \A q \in ImagePath : vol'[q] = vol[q]
    BY <1>13, ImagePathParts
  <2>2. Images' = Images
    BY <2>1 DEF Images, SectorsOf
  <2>3. QED
    BY <1>10, <2>2
<1>14. QED
  BY <1>8, <1>11, <1>12, <1>13

----------------------------------------------------------------------------
(* Commands on the drives *)

LEMMA StartSails ==
  ASSUME FloppyInv
  PROVE  Sails(Machine, Machine) /\ MachineOK(Machine) /\ ImageFil(Machine)
  BY InvMachine, SameSails

LEMMA OnSails ==
  ASSUME NEW m, NEW k, Sails(m, k), NEW n, Sails(k, n)
  PROVE  Sails(m, n) /\ MachineOK(n) /\ ImageFil(n)
  BY SailsTrans, SailsOn

LEMMA SavingKept ==
  ASSUME ~Faults, FloppyInv, ~fildata[0].open, NEW k, Sails(Machine, k),
         NEW m \in saveDrivesImpl(k), NEW s, Becomes(m, s)
  PROVE  ImagesKept /\ driveInfo' = k.drv
<1>1. ~k.fil[0].open
  BY MachineFields DEF Sails, Passes, Holds
<1>2. Sails(k, m) /\ m.drv = k.drv
  BY <1>1, SailsOn, SaveSails
<1>3. QED
  BY <1>2, SailsTrans, SailsKept DEF Becomes

LEMMA SaveKept ==
  ASSUME ~Faults, FloppyInv, ~fildata[0].open, SerialiseSDDOSDrives
  PROVE  ImagesKept /\ driveInfo' = driveInfo
  BY StartSails, SavingKept, MachineFields DEF SerialiseSDDOSDrives

LEMMA UnmountKept ==
  ASSUME ~Faults, FloppyInv, ~fildata[0].open, NEW d \in Drives, UnmountSDDOSImg(d)
  PROVE  ImagesKept
<1>1. PICK s \in switchDrive(Machine, d) : \E c \in f_close(s, 3) :
         \E m \in saveDrivesImpl(SetDrive([c EXCEPT !.last = NoDrive], d, Unused)) :
            Becomes(m, STATUS_OK)
  BY SlotFacts DEF UnmountSDDOSImg
<1>2. PICK c \in f_close(s, 3) :
         \E m \in saveDrivesImpl(SetDrive([c EXCEPT !.last = NoDrive], d, Unused)) :
            Becomes(m, STATUS_OK)
  BY <1>1
<1> DEFINE x == [c EXCEPT !.last = NoDrive]
           y == SetDrive(x, d, Unused)
<1>3. Sails(Machine, s) /\ MachineOK(s) /\ ImageFil(s)
  BY <1>1, StartSails, SwitchSails, OnSails
<1>4. Sails(s, c) /\ ~c.fil[3].open
  BY <1>2, <1>3, ClosePasses, CloseSteady DEF Sails
<1>5. Sails(Machine, c) /\ MachineOK(c) /\ ImageFil(c)
  BY <1>3, <1>4, OnSails
<1>6. MachineOK(x) /\ x.vol = c.vol /\ x.fil = c.fil /\ x.fresh = c.fresh
  <2>1. x.fresh = c.fresh
    BY <1>5 DEF MachineOK, MachineType
  <2>2. QED
    BY <1>5, <2>1, SelectLemma
<1> HIDE DEF x
<1>7. Sails(Machine, x) /\ MachineOK(x) /\ ImageFil(x)
  BY <1>4, <1>5, <1>6, SameSails, OnSails
<1>8. Sails(Machine, y)
  BY <1>7, UnusedSails, SailsTrans
<1>9. PICK m \in saveDrivesImpl(y) : Becomes(m, STATUS_OK)
  BY <1>2 DEF x
<1> HIDE DEF y
<1>10. QED
  BY <1>8, <1>9, SavingKept

LEMMA OpenImgKept ==
  ASSUME ~Faults, FloppyInv, ~fildata[0].open, NEW d \in Drives, NEW n \in ImageNames,
         OpenSDDOSImg(d, n)
  PROVE  ImagesKept
<1> DEFINE info == [name |-> n, attribs |-> NoAttr]
           a == SetDrive(Machine, d, info)
<1>1. info \in ImgInfo /\ info.attribs # Unset
  BY DEF ImgInfo, Attr, NoAttr, Unset
<1>2. PICK t \in tryOpenImage(a, d) :
         \E m \in saveDrivesImpl(IF t.res >= STATUS_COMPLETE
                                 THEN SetDrive(t, d, Unused) ELSE t) :
            Becomes(m, t.res)
  BY DEF OpenSDDOSImg
<1> DEFINE k == IF t.res >= STATUS_COMPLETE THEN SetDrive(t, d, Unused) ELSE t
<1>3. PICK m \in saveDrivesImpl(k) : Becomes(m, t.res)
  BY <1>2
<1> HIDE DEF info
<1>4. /\ Sails(Machine, a) /\ MachineOK(a) /\ ImageFil(a)
      /\ a.drv[d].attribs # Unset
  BY <1>1, StartSails, SetDriveLemma, SetDriveSails, OnSails
<1> HIDE DEF a
<1>5. Sails(Machine, t) /\ MachineOK(t) /\ ImageFil(t)
  BY <1>2, <1>4, TrySails, OnSails
<1>6. Sails(Machine, k)
  BY <1>5, UnusedSails, SailsTrans
<1> HIDE DEF k
<1>7. QED
  BY <1>3, <1>6, SavingKept

LEMMA ValidateKept ==
  ASSUME ~Faults, FloppyInv, ~fildata[0].open, ValidateSDDOSDrives
  PROVE  /\ ImagesKept
         /\ lastDriveNo = NoDrive =>
               \A d \in Drives : driveInfo'[d].attribs # Unset =>
                                     driveInfo'[d].name \in ImageNames
<1>1. PICK l \in loadDrives(Machine) : \E t \in ValidateAll(l) :
         \E m \in saveDrivesImpl(t) : Becomes(m, STATUS_OK)
  BY DEF ValidateSDDOSDrives
<1>2. PICK t \in ValidateAll(l) :
         \E m \in saveDrivesImpl(t) : Becomes(m, STATUS_OK)
  BY <1>1
<1>3. Sails(Machine, l) /\ MachineOK(l) /\ ImageFil(l) /\ l.last = lastDriveNo
  BY <1>1, StartSails, LoadSails, OnSails, MachineFields
<1>4. Sails(l, t) /\ (lastDriveNo = NoDrive => \A d \in Drives : Named(t, d))
  BY <1>2, <1>3, ValidateAllChecks
<1>5. ImagesKept /\ driveInfo' = t.drv
  BY <1>2, <1>3, <1>4, SailsTrans, SavingKept
<1>6. QED
  BY <1>4, <1>5 DEF Named

\* The sector commands, as far as the pointer of the selected image.
LEMMA InvalidateSails ==
  ASSUME NEW m, MachineOK(m), ImageFil(m), globalCurDrive \in Drives
  PROVE  Sails(m, Invalidate(m))
<1>1. LET n == Invalidate(m) IN n.vol = m.vol /\ n.fil = m.fil /\ n.fresh = m.fresh
  BY DEF Invalidate, MachineOK, MachineType
<1>2. QED
  BY <1>1, InvalidatePasses, SteadySame DEF Sails

LEMMA InvalidateKept ==
  ASSUME FloppyInv, NEW m, Sails(Machine, m), NEW s,
         Becomes(m, s) \/ Becomes(Invalidate(m), s)
  PROVE  ImagesKept
<1>1. globalCurDrive \in Drives
  BY InvMachine DEF State, TypeOK
<1>2. Sails(Machine, Invalidate(m))
  BY <1>1, InvalidateSails, SailsOn, SailsTrans
<1>3. QED
  BY <1>2, SailsKept

\* Where the transfer starts: the drive's image is selected, the pointer set.
AtSector(s, p) ==
    LET f == s.fil[3] IN
    /\ f.open /\ f.path = p /\ f.mode = "both" /\ f.fptr = globalLBAOffset

LEMMA SeekArrives ==
  ASSUME ~Faults, NEW m, MachineOK(m), NEW ofs \in Sectors, m.fil[3].mode = "both",
         NEW n \in f_lseek(m, 3, ofs), n.res = FR_OK
  PROVE  /\ m.fil[3].open
         /\ n.fil[3].fptr = ofs
<1> DEFINE f == m.fil[3]
           no == Refusal(f, TRUE)
           len == Larger(f.size, ofs)
           g == [f EXCEPT !.fptr = ofs, !.size = len, !.written = @ \/ ofs > f.size]
<1>1. ofs \in Nat /\ ofs <= Capacity
  BY CapacityAssumption DEF Sectors
<1>2. f.open
  BY <1>1, SeekLemma, SlotFacts
<1>3. no = FR_OK
  <2>1. ASSUME no # FR_OK PROVE FALSE
    <3>1. n = Return(m, no) /\ no \in Result
      BY <2>1, RefusalLemma DEF f_lseek
    <3> HIDE DEF no
    <3>2. n.res = no
      BY <3>1, ReturnServes, SlotFacts
    <3>3. QED
      BY <2>1, <3>2
  <2>2. QED
    BY <2>1
<1>4. SeekTo(f, ofs) = ofs
  BY <1>1, CapacityAssumption DEF SeekTo, CanWrite
<1>5. n = SetFil(m, 3, g, FR_OK)
  BY <1>3, <1>4 DEF f_lseek, OrFault
<1>6. g.fptr = ofs
  BY <1>2, OpenFil, SlotFacts DEF Fil
<1> HIDE DEF g
<1>7. n.fil[3] = g
  BY <1>5, NewFil, SlotFacts DEF MachineOK
<1>8. QED
  BY <1>2, <1>6, <1>7

LEMMA SeekSectorArrives ==
  ASSUME ~Faults, FloppyInv, NEW x, Sails(Machine, x), x.drv = driveInfo,
         x.cdir = cdir, Backed(x),
         driveInfo[globalCurDrive].attribs # Unset, NEW s \in SeekSector(x)
  PROVE  /\ Sails(Machine, s) /\ MachineOK(s) /\ ImageFil(s)
         /\ s.drv = driveInfo /\ s.data = x.data
         /\ s.res = FR_OK => AtSector(s, bound[globalCurDrive])
<1> DEFINE d == globalCurDrive
           ofs == globalLBAOffset
<1>1. d \in Drives /\ ofs \in Sectors /\ ofs \in Nat
  BY InvMachine, CapacityAssumption DEF State, TypeOK, Sectors
<1>2. MachineOK(x) /\ ImageFil(x)
  BY SailsOn
<1>3. PICK n \in switchDrive(x, d) : s \in f_lseek(n, 3, ofs)
  BY SlotFacts DEF SeekSector
<1>4. /\ Sails(x, n) /\ MachineOK(n) /\ ImageFil(n) /\ Selects(x, n)
      /\ n.drv = driveInfo
  BY <1>1, <1>2, <1>3, SwitchSails, SwitchLemma, SailsOn
<1>5. /\ Steady(n, s) /\ Serves(n, s, 3) /\ s.fil[3].dirty = n.fil[3].dirty
      /\ CallResult(n, s, 3) /\ s.data = n.data
      /\ s.res = FR_OK => n.fil[3].open
  BY <1>1, <1>3, <1>4, SeekSteady, SeekServes, SeekLemma, SlotFacts
<1>6. Sails(n, s)
  BY <1>4, <1>5, ServesHolds DEF Passes, ImageFil, Sails
<1>7. Sails(Machine, s) /\ MachineOK(s) /\ ImageFil(s)
  BY <1>4, <1>6, SailsTrans, SailsOn
<1>8. s.drv = driveInfo /\ s.data = x.data
  BY <1>4, <1>5 DEF CallResult, Kept, Frame, Selects
<1>9. ASSUME s.res = FR_OK PROVE AtSector(s, bound[d])
  <2>1. n.last = d
    BY <1>1, <1>2, <1>3, <1>5, <1>9, SwitchChooses
  <2>2. /\ n.fil[3].open /\ n.fil[3].path = <<cdir, driveInfo[d].name>>
        /\ n.fil[3].mode = "both"
    BY <1>1, <1>4, <2>1, SlotFacts DEF Backed, Selects
  <2>3. s.fil[3].fptr = ofs
    BY <1>1, <1>3, <1>4, <1>9, <2>2, SeekArrives
  <2>4. bound[d] # NoPath
    BY <1>1, ImagePathParts DEF FloppyInv, Knows, NoPath, ImagePath
  <2>5. bound[d] = <<cdir, driveInfo[d].name>>
    BY <1>1, <2>4 DEF FloppyInv, Bindings
  <2>6. QED
    BY <1>5, <2>2, <2>3, <2>5 DEF AtSector, CallResult, Kept, SameFile
<1>10. QED
  BY <1>7, <1>8, <1>9

----------------------------------------------------------------------------
(* The transfers *)

\* A machine at the sector of a transfer, with what is known of its image.
LEMMA AtSectorFacts ==
  ASSUME NEW s, MachineOK(s), ImageFil(s), Good(s), NEW p \in ImagePath, AtSector(s, p)
  PROVE  LET f == s.fil[3]
             e == s.vol[p]
         IN  /\ f \in Fil /\ f.open /\ f.path = p /\ ~f.dirty
             /\ f.fptr = globalLBAOffset /\ f.mode = "both"
             /\ f.size \in Nat
             /\ e \in Entry /\ e # NoEntry /\ e.size \in Nat /\ e.size <= f.size
             /\ SectorsOf(s.vol, p) = e.blk
             /\ FlushBuf(s, 3) = s
<1> DEFINE f == s.fil[3]
<1>1. f.open /\ f.path = p /\ f.fptr = globalLBAOffset /\ f.mode = "both" /\ ~f.dirty
  BY DEF AtSector, ImageFil
<1>2. f \in Fil /\ s.vol[p] \in Entry /\ s.vol[p] # NoEntry
  BY <1>1, OpenFil, SlotFacts
<1>3. f.size \in Nat /\ s.vol[p].size \in Nat /\ s.vol[p].size <= f.size
  BY <1>1, ImageEntry DEF ImageFil
<1>4. SectorsOf(s.vol, p) = s.vol[p].blk /\ FlushBuf(s, 3) = s
  BY <1>1, <1>2 DEF SectorsOf, FlushBuf
<1>5. QED
  BY <1>1, <1>2, <1>3, <1>4

\* A machine whose fildata[3] holds a sector as it is on the card.
LEMMA HeldGood ==
  ASSUME NEW s, Good(s), NEW n, n.vol = s.vol, n.fresh = s.fresh, NEW p, NEW b,
         n.fil[3].path = p, n.fil[3].buf = b, n.fil[3].val = s.vol[p].blk[b]
  PROVE  Good(n) /\ SameImages(s, n)
  BY DEF Good, Coherent, SameImages, SectorsOf

LEMMA ReadDelivers ==
  ASSUME ~Faults, NEW s, MachineOK(s), ImageFil(s), Good(s),
         NEW p \in ImagePath, AtSector(s, p), NEW ofs \in Sectors, ofs = globalLBAOffset,
         NEW n \in f_read(s, 3)
  PROVE  /\ Good(n) /\ SameImages(s, n) /\ n.drv = s.drv
         /\ n.res = FR_OK /\ SectorsOf(s.vol, p)[ofs] # Blank =>
               n.data = SectorsOf(s.vol, p)[ofs]
<1> DEFINE f == s.fil[3]
           e == s.vol[p]
           y == LoadBuf(s, 3, ofs)
           no == Refusal(f, CanRead(f))
<1>1. /\ f \in Fil /\ f.open /\ f.path = p /\ ~f.dirty /\ f.fptr = ofs
      /\ f.size \in Nat /\ e \in Entry /\ e # NoEntry /\ e.size \in Nat
      /\ e.size <= f.size /\ SectorsOf(s.vol, p) = e.blk /\ FlushBuf(s, 3) = s
  BY AtSectorFacts
<1>2. n.drv = s.drv
  BY ReadLemma, SlotFacts DEF CallResult, Kept, Frame
<1>3. ASSUME n.fil = s.fil, n.vol = s.vol PROVE Good(n) /\ SameImages(s, n)
  <2>1. n.fresh = s.fresh
    BY ReadFresh, SlotFacts
  <2>2. Steady(s, n)
    BY <1>3, <2>1, SteadySame
  <2>3. QED
    BY <1>1, <1>3, <2>2, SteadyGood
<1>4. CASE no # FR_OK
  <2>1. n = Return(s, no) /\ no \in Result
    <3>1. CanRead(f) \in BOOLEAN
      BY DEF CanRead
    <3>2. QED
      BY <1>4, <3>1, RefusalLemma DEF f_read
  <2> HIDE DEF no
  <2>2. n.fil = s.fil /\ n.vol = s.vol /\ n.res # FR_OK
    BY <1>4, <2>1, ReturnServes, SlotFacts
  <2>3. QED
    BY <1>2, <1>3, <2>2
<1>5. CASE no = FR_OK /\ f.fptr >= f.size
  <2>1. n = Return(s, FR_OK)
    BY <1>5 DEF f_read
  <2>2. n.fil = s.fil /\ n.vol = s.vol
    BY <2>1, ReturnServes, ResultCodes, SlotFacts
  <2>3. ofs >= e.size
    BY <1>1, <1>5, CapacityAssumption DEF Sectors
  <2>4. e.blk[ofs] = Blank
    BY <1>1, <2>3 DEF Good, Tail
  <2>5. QED
    BY <1>1, <1>2, <1>3, <2>2, <2>4
<1>6. CASE no = FR_OK /\ ~(f.fptr >= f.size)
  <2> DEFINE g == y.fil[3]
  <2>1. /\ y \in MachineType /\ y.vol = s.vol /\ y.fresh = s.fresh
        /\ g \in Fil /\ g.path = p /\ g.buf = ofs /\ g.val = e.blk[ofs]
    <3>1. CASE f.buf = ofs
      <4>1. y = s
        BY <1>1, <3>1 DEF LoadBuf
      <4>2. ofs # NoSector
        BY CapacityAssumption DEF Sectors, NoSector
      <4>3. f.val = e.blk[ofs]
        BY <1>1, <3>1, <4>2 DEF Good, Coherent
      <4>4. QED
        BY <1>1, <3>1, <4>1, <4>3 DEF MachineOK
    <3>2. CASE f.buf # ofs
      <4> DEFINE k == [f EXCEPT !.buf = ofs, !.val = e.blk[ofs]]
      <4>1. y = SetFil(s, 3, k, FR_OK)
        BY <1>1, <3>2 DEF LoadBuf
      <4>2. k.path = p /\ k.buf = ofs /\ k.val = e.blk[ofs]
        BY <1>1 DEF Fil
      <4>3. MachineOK(y) /\ y.fil[3].open
        BY <1>1, LoadBufLemma, SlotFacts DEF Kept, SameFile
      <4>4. y.fil[3] \in Fil
        BY <4>3, OpenFil, SlotFacts
      <4> HIDE DEF k, y
      <4>5. y.fil[3] = k /\ y.vol = s.vol /\ y.fresh = s.fresh
        BY <4>1, NewFil, VolKept, FreshKept, SlotFacts DEF MachineOK
      <4>6. QED
        BY <4>2, <4>3, <4>4, <4>5 DEF MachineOK
    <3>3. QED
      BY <3>1, <3>2
  <2> DEFINE k == [g EXCEPT !.fptr = f.fptr + 1]
  <2>2. n = SetData(SetFil(y, 3, k, FR_OK), g.val)
    BY <1>1, <1>6 DEF f_read, OrFault
  <2> HIDE DEF y, e
  <2>3. k.path = p /\ k.buf = ofs /\ k.val = e.blk[ofs]
    BY <2>1 DEF Fil
  <2> HIDE DEF k
  <2>4. n.fil[3] = k /\ n.vol = s.vol
    BY <2>1, <2>2, NewFil, VolKept, SlotFacts
  <2>5. n.fresh = s.fresh
    BY ReadFresh, SlotFacts
  <2>6. n.data = e.blk[ofs]
    BY <2>1, <2>2 DEF SetData, SetFil, MachineType
  <2>7. Good(n) /\ SameImages(s, n)
    BY <2>3, <2>4, <2>5, HeldGood DEF e
  <2>8. QED
    BY <1>1, <1>2, <2>6, <2>7
<1>7. QED
  BY <1>4, <1>5, <1>6

\* The write and the flush after it, together: the sector is on the card.
LEMMA WriteLands ==
  ASSUME ~Faults, NEW s, MachineOK(s), ImageFil(s), Good(s),
         NEW p \in ImagePath, AtSector(s, p), NEW ofs \in Sectors, ofs = globalLBAOffset,
         NEW v \in Value, NEW w \in f_write(s, 3, v), w.res = FR_OK,
         NEW n \in f_sync(w, 3)
  PROVE  /\ Good(n) /\ n.drv = s.drv /\ n.res = FR_OK
         /\ \A q \in ImagePath \ {p} : SectorsOf(n.vol, q) = SectorsOf(s.vol, q)
         /\ SectorsOf(n.vol, p) = [SectorsOf(s.vol, p) EXCEPT ![ofs] = v]
<1> DEFINE f == s.fil[3]
           e == s.vol[p]
           len == Larger(f.size, ofs + 1)
           g == [f EXCEPT !.buf = ofs, !.val = v, !.dirty = TRUE,
                          !.fptr = ofs + 1, !.size = len, !.written = TRUE]
           no == Refusal(f, CanWrite(f))
           x == FlushBuf(w, 3)
           b == [e.blk EXCEPT ![ofs] = v]
<1>1. /\ f \in Fil /\ f.open /\ f.path = p /\ ~f.dirty /\ f.fptr = ofs
      /\ f.size \in Nat /\ e \in Entry /\ e # NoEntry /\ e.size \in Nat
      /\ e.size <= f.size /\ SectorsOf(s.vol, p) = e.blk /\ FlushBuf(s, 3) = s
  BY AtSectorFacts
<1>2. ofs \in Nat /\ ofs < Capacity /\ 3 \in Slots /\ p \in Path
  BY CapacityAssumption, SlotFacts, ImagePathParts DEF Sectors
<1>3. w = SetFil(s, 3, g, FR_OK)
  <2>1. no = FR_OK
    <3>1. ASSUME no # FR_OK PROVE FALSE
      <4>1. CanWrite(f) \in BOOLEAN
        BY DEF CanWrite
      <4>2. w = Return(s, no) /\ no \in Result
        BY <3>1, <4>1, RefusalLemma DEF f_write
      <4> HIDE DEF no
      <4>3. w.res = no
        BY <1>2, <4>2, ReturnServes
      <4>4. QED
        BY <3>1, <4>3
    <3>2. QED
      BY <3>1
  <2>2. ~(f.fptr >= Capacity)
    BY <1>1, <1>2, CapacityAssumption
  <2>3. QED
    BY <1>1, <2>1, <2>2 DEF f_write, OrFault
<1>4. len \in Nat /\ len >= f.size /\ len >= ofs + 1
  BY <1>1, <1>2 DEF Larger
<1> HIDE DEF len
<1>5. /\ g.open /\ g.path = p /\ g.buf = ofs /\ g.val = v /\ g.dirty
      /\ g.size = len /\ g.written
  BY <1>1 DEF Fil
<1>6. w.fil[3] = g /\ w.vol = s.vol /\ MachineOK(w)
  BY <1>2, <1>3, NewFil, VolKept, WriteLemma DEF MachineOK, CallResult, Kept
<1> HIDE DEF g
<1>7. /\ x \in MachineType /\ x.fil[3] = [g EXCEPT !.dirty = FALSE]
      /\ x.vol = [s.vol EXCEPT ![p] = [e EXCEPT !.blk = b]]
  <2>1. x \in MachineType /\ x.fil[3] = [g EXCEPT !.dirty = FALSE]
    BY <1>2, <1>5, <1>6, FlushLemma DEF Kept, MachineOK
  <2>2. x.vol = [w.vol EXCEPT ![p] = [@ EXCEPT !.blk[ofs] = v]]
    BY <1>5, <1>6 DEF FlushBuf, MachineOK, MachineType
  <2>3. QED
    BY <1>2, <1>6, <2>1, <2>2 DEF MachineOK, MachineType
<1>8. n = UpdateEntry(x, 3)
  BY <1>5, <1>6 DEF f_sync, OrFault
<1> DEFINE c == x.fil[3]
           d == [x.vol[p] EXCEPT !.size = c.size, !.attr = AM_ARC]
           k == [c EXCEPT !.written = FALSE]
<1>9. /\ c \in Fil /\ c.open /\ c.path = p /\ c.buf = ofs /\ c.val = v /\ c.size = len
  <2>1. g \in Fil
    BY <1>2, <1>5, <1>6, OpenFil
  <2>2. [g EXCEPT !.dirty = FALSE] \in Fil
    BY <2>1 DEF Fil
  <2>3. QED
    BY <1>5, <1>7, <2>1, <2>2 DEF Fil
<1>10. x.vol[p] \in Entry /\ x.vol[p].blk = b /\ \A q \in Path \ {p} : x.vol[q] = s.vol[q]
  <2>1. [e EXCEPT !.blk = b].blk = b
    BY <1>1 DEF Entry
  <2>2. b \in [Sectors -> Value]
    BY <1>1 DEF Entry
  <2>3. [e EXCEPT !.blk = b] \in Entry
    BY <1>1, <2>2 DEF Entry
  <2> HIDE DEF b, e
  <2>4. QED
    BY <1>2, <1>7, <2>1, <2>3 DEF MachineOK, MachineType
<1> HIDE DEF x
<1>11. /\ n.vol = [x.vol EXCEPT ![p] = d] /\ n.fil = [x.fil EXCEPT ![3] = k]
       /\ n.fresh = {} /\ n.res = FR_OK
  BY <1>7, <1>8, <1>9 DEF UpdateEntry, MachineType
<1>12. d.blk = b /\ d.size = len /\ d \in Entry
  <2>1. len \in 0..Capacity
    BY <1>9 DEF Fil
  <2> HIDE DEF b, c
  <2>2. QED
    BY <1>9, <1>10, <2>1 DEF Entry, Attr
<1>13. k.path = p /\ k.buf = ofs /\ k.val = v
  BY <1>9 DEF Fil
<1> HIDE DEF d, k, c
<1>14. n.fil[3] = k /\ n.vol[p] = d /\ \A q \in Path \ {p} : n.vol[q] = s.vol[q]
  BY <1>2, <1>7, <1>10, <1>11 DEF MachineType
<1>15. SectorsOf(n.vol, p) = b
  BY <1>12, <1>14, NoEntryAssumption DEF SectorsOf
<1>16. b[ofs] = v /\ \A t \in Sectors \ {ofs} : b[t] = e.blk[t]
  BY <1>1 DEF Entry
<1> HIDE DEF b
<1>17. Tail(d)
  <2>1. ASSUME NEW t \in Sectors, t >= d.size PROVE d.blk[t] = Blank
    <3>1. t # ofs /\ t >= e.size
      BY <1>1, <1>2, <1>4, <1>12, <2>1, CapacityAssumption DEF Sectors
    <3>2. e.blk[t] = Blank
      BY <1>1, <3>1 DEF Good, Tail
    <3>3. QED
      BY <1>12, <1>16, <3>1, <3>2
  <2>2. QED
    BY <2>1 DEF Tail
<1>18. Good(n)
  <2>1. Coherent(n)
    BY <1>12, <1>13, <1>14, <1>16 DEF Coherent
  <2>2. \A q \in ImagePath : Tail(n.vol[q])
    BY <1>14, <1>17, ImagePathParts DEF Good
  <2>3. QED
    BY <1>11, <2>1, <2>2 DEF Good
<1>19. n.drv = s.drv
  <2>1. Frame(s, w, 3) /\ Frame(w, n, 3)
    BY <1>2, <1>6, WriteLemma, SyncSpares DEF CallResult, Kept
  <2>2. QED
    BY <2>1 DEF Frame
<1>20. \A q \in ImagePath \ {p} : SectorsOf(n.vol, q) = SectorsOf(s.vol, q)
  BY <1>14, ImagePathParts DEF SectorsOf
<1>21. QED
  BY <1>1, <1>11, <1>15, <1>18, <1>19, <1>20 DEF b

\* A sector read: the images stay, and what comes is the sector of the image
\* the host has in the drive.
ReadResult ==
    LET p == bound[globalCurDrive]
        v == Images[p][globalLBAOffset]
    IN  /\ driveInfo' = driveInfo
        /\ p \in ImagePath
        /\ v # Blank => globalData' = v

LEMMA SailsGood ==
  ASSUME FloppyInv, NEW s, Sails(Machine, s)
  PROVE  Good(s) /\ SameImages(Machine, s)
<1>1. s.fil[3].open => s.fil[3].path \in ImagePath
  BY SailsOn, SelectedPath, ImageParts
<1>2. QED
  BY <1>1, InvMachine, SteadyGood DEF Sails

LEMMA InvalidateGood ==
  ASSUME NEW m, MachineOK(m), Good(m)
  PROVE  Good(Invalidate(m)) /\ SameImages(m, Invalidate(m))
<1> DEFINE n == Invalidate(m)
<1>1. n.vol = m.vol /\ n.fil = m.fil /\ n.fresh = m.fresh
  BY DEF Invalidate, MachineOK, MachineType
<1> HIDE DEF n
<1>2. Good(n) /\ SameImages(m, n)
  BY <1>1 DEF Good, Coherent, SameImages
<1>3. QED
  BY <1>2 DEF n

LEMMA NotOk == Complete(ERROR_INVALID_DRIVE) # STATUS_OK
               /\ \A r \in Result : Complete(r) # STATUS_OK
<1>1. \A r \in 0..255 : Complete(r) # STATUS_OK
  BY DEF Complete, STATUS_COMPLETE, STATUS_OK
<1>2. Result \subseteq 0..255 /\ ERROR_INVALID_DRIVE \in 0..255
  BY ResultCodes DEF ERROR_INVALID_DRIVE
<1>3. QED
  BY <1>1, <1>2

LEMMA BoundDrive ==
  ASSUME FloppyInv, NEW d \in Drives, driveInfo[d].attribs # Unset
  PROVE  bound[d] \in ImagePath
  BY DEF FloppyInv, Knows

LEMMA ReadSectorKept ==
  ASSUME ~Faults, FloppyInv, ReadSDDOSSect
  PROVE  ImagesKept /\ (port' = STATUS_OK => ReadResult)
<1> DEFINE d == globalCurDrive
           p == bound[d]
           ofs == globalLBAOffset
<1>1. d \in Drives /\ ofs \in Sectors
  BY InvMachine DEF State, TypeOK
<1>2. Sails(Machine, Machine) /\ Backed(Machine)
  BY StartSails DEF FloppyInv, Bindings
<1>3. CASE driveInfo[d].attribs = Unset
  <2>1. Becomes(Machine, Complete(ERROR_INVALID_DRIVE))
    BY <1>3 DEF ReadSDDOSSect
  <2>2. port' # STATUS_OK
    BY <2>1, NotOk DEF Becomes
  <2>3. QED
    BY <1>2, <2>1, <2>2, SailsKept
<1>4. CASE driveInfo[d].attribs # Unset
  <2>1. PICK s \in SeekSector(Machine) :
           IF s.res # FR_OK
           THEN Becomes(Invalidate(s), Complete(ERROR_INVALID_DRIVE))
           ELSE \E m \in f_read(s, 3) :
                    IF m.res = FR_OK THEN Becomes(m, STATUS_OK)
                    ELSE Becomes(Invalidate(m), Complete(m.res))
    BY <1>4, SlotFacts DEF ReadSDDOSSect
  <2>2. /\ Sails(Machine, s) /\ MachineOK(s) /\ ImageFil(s) /\ s.drv = driveInfo
        /\ s.res = FR_OK => AtSector(s, p)
    BY <1>2, <1>4, <2>1, MachineFields, SeekSectorArrives
  <2>3. CASE s.res # FR_OK
    <3>1. port' # STATUS_OK
      BY <2>1, <2>3, NotOk DEF Becomes
    <3>2. QED
      BY <2>1, <2>2, <2>3, <3>1, InvalidateKept
  <2>4. CASE s.res = FR_OK
    <3>1. PICK m \in f_read(s, 3) :
             IF m.res = FR_OK THEN Becomes(m, STATUS_OK)
             ELSE Becomes(Invalidate(m), Complete(m.res))
      BY <2>1, <2>4
    <3>2. p \in ImagePath /\ Good(s) /\ SameImages(Machine, s)
      BY <1>1, <1>4, <2>2, BoundDrive, SailsGood
    <3>3. /\ Good(m) /\ SameImages(s, m) /\ m.drv = s.drv
          /\ m.res = FR_OK /\ SectorsOf(s.vol, p)[ofs] # Blank =>
                m.data = SectorsOf(s.vol, p)[ofs]
      BY <1>1, <2>2, <2>4, <3>1, <3>2, ReadDelivers
    <3>4. SameImages(Machine, m)
      BY <3>2, <3>3 DEF SameImages
    <3>5. SectorsOf(s.vol, p) = Images[p]
      BY <3>2, MachineFields DEF SameImages, Images
    <3>6. CASE m.res = FR_OK
      <4>1. ImagesKept /\ driveInfo' = driveInfo /\ globalData' = m.data
        BY <2>2, <3>1, <3>3, <3>4, <3>6, GoodKept DEF Becomes
      <4>2. QED
        BY <3>2, <3>3, <3>5, <3>6, <4>1 DEF ReadResult
    <3>7. CASE m.res # FR_OK
      <4>1. MachineOK(m) /\ m.res \in Result
        BY <2>2, <3>1, ReadLemma, SlotFacts DEF CallResult, Kept
      <4>2. Good(Invalidate(m)) /\ SameImages(Machine, Invalidate(m))
        BY <3>3, <3>4, <4>1, InvalidateGood DEF SameImages
      <4>3. ImagesKept
        BY <3>1, <3>7, <4>2, GoodKept
      <4>4. port' # STATUS_OK
        BY <3>1, <3>7, <4>1, NotOk DEF Becomes
      <4>5. QED
        BY <4>3, <4>4
    <3>8. QED
      BY <3>6, <3>7
  <2>5. QED
    BY <2>3, <2>4
<1>5. QED
  BY <1>3, <1>4

\* A sector write is done, and then on the card, or it is refused.
WriteResult(v) ==
    LET p == bound[globalCurDrive] IN
    /\ Good(Machine)'
    /\ driveInfo' = driveInfo
    /\ p \in ImagePath
    /\ Images' = [Images EXCEPT ![p][globalLBAOffset] = v]

LEMMA WriteSectorKept ==
  ASSUME ~Faults, FloppyInv, NEW v \in Data, WriteSDDOSSect(v)
  PROVE  ImagesKept \/ WriteResult(v)
<1> DEFINE d == globalCurDrive
           p == bound[d]
           ofs == globalLBAOffset
           x == SetData(Machine, v)
<1>1. d \in Drives /\ ofs \in Sectors /\ v \in Value
  BY InvMachine DEF State, TypeOK, Value
<1>2. Sails(Machine, x) /\ Backed(x) /\ x.drv = driveInfo /\ x.cdir = cdir
  <2>1. /\ MachineOK(x) /\ Kept(Machine, x, 3)
        /\ x.fil = Machine.fil /\ x.vol = Machine.vol /\ x.fresh = Machine.fresh
    <3>1. /\ MachineOK(x) /\ Kept(Machine, x, 3)
          /\ x.fil = Machine.fil /\ x.vol = Machine.vol
      BY <1>1, InvMachine, SetDataLemma, SlotFacts
    <3>2. Machine \in MachineType
      BY InvMachine DEF MachineOK
    <3>3. x.fresh = Machine.fresh
      BY <3>2, FreshKept, SlotFacts
    <3>4. QED
      BY <3>1, <3>3
  <2> HIDE DEF x
  <2>2. Sails(Machine, x)
    BY <2>1, InvMachine, SameSails DEF Kept, Frame
  <2>3. x.drv = driveInfo /\ x.cdir = cdir /\ x.last = lastDriveNo
    BY <2>1, MachineFields DEF Kept, Frame
  <2>4. Backed(x)
    BY <2>1, <2>3, MachineFields DEF FloppyInv, Bindings, Backed
  <2>5. QED
    BY <2>2, <2>3, <2>4
<1> HIDE DEF x
<1>3. CASE \E r : Becomes(x, r)
  BY <1>2, <1>3, SailsKept
<1>4. CASE /\ driveInfo[d].attribs # Unset
           /\ \E s \in SeekSector(x) :
                 IF s.res # FR_OK
                 THEN Becomes(Invalidate(s), Complete(ERROR_INVALID_DRIVE))
                 ELSE \E w \in f_write(s, 3, v) :
                         IF w.res # FR_OK THEN Becomes(Invalidate(w), w.res)
                         ELSE \E m \in f_sync(w, 3) :
                                 IF m.res = FR_OK THEN Becomes(m, STATUS_OK)
                                 ELSE Becomes(Invalidate(m), m.res)
  <2>1. PICK s \in SeekSector(x) :
           IF s.res # FR_OK
           THEN Becomes(Invalidate(s), Complete(ERROR_INVALID_DRIVE))
           ELSE \E w \in f_write(s, 3, v) :
                   IF w.res # FR_OK THEN Becomes(Invalidate(w), w.res)
                   ELSE \E m \in f_sync(w, 3) :
                           IF m.res = FR_OK THEN Becomes(m, STATUS_OK)
                           ELSE Becomes(Invalidate(m), m.res)
    BY <1>4
  <2>2. /\ Sails(Machine, s) /\ MachineOK(s) /\ ImageFil(s) /\ s.drv = driveInfo
        /\ s.res = FR_OK => AtSector(s, p)
    BY <1>2, <1>4, <2>1, SeekSectorArrives
  <2>3. CASE s.res # FR_OK
    BY <2>1, <2>2, <2>3, InvalidateKept
  <2>4. CASE s.res = FR_OK
    <3>1. PICK w \in f_write(s, 3, v) :
             IF w.res # FR_OK THEN Becomes(Invalidate(w), w.res)
             ELSE \E m \in f_sync(w, 3) :
                     IF m.res = FR_OK THEN Becomes(m, STATUS_OK)
                     ELSE Becomes(Invalidate(m), m.res)
      BY <2>1, <2>4
    <3>2. p \in ImagePath /\ Good(s) /\ SameImages(Machine, s)
      BY <1>1, <1>4, <2>2, BoundDrive, SailsGood
    <3>3. CASE w.res # FR_OK
      <4>1. w.fil = s.fil /\ w.vol = s.vol /\ w.fresh = s.fresh /\ MachineOK(w)
        BY <1>1, <2>2, <3>1, <3>3, WriteServes, WriteFresh, SlotFacts DEF Serves, Kept
      <4>2. Good(w) /\ SameImages(Machine, w)
        BY <3>2, <4>1 DEF Good, Coherent, SameImages
      <4>3. Good(Invalidate(w)) /\ SameImages(Machine, Invalidate(w))
        BY <4>1, <4>2, InvalidateGood DEF SameImages
      <4>4. QED
        BY <3>1, <3>3, <4>3, GoodKept
    <3>4. CASE w.res = FR_OK
      <4>1. PICK m \in f_sync(w, 3) :
               IF m.res = FR_OK THEN Becomes(m, STATUS_OK)
               ELSE Becomes(Invalidate(m), m.res)
        BY <3>1, <3>4
      <4>2. /\ Good(m) /\ m.drv = s.drv /\ m.res = FR_OK
            /\ \A q \in ImagePath \ {p} : SectorsOf(m.vol, q) = SectorsOf(s.vol, q)
            /\ SectorsOf(m.vol, p) = [SectorsOf(s.vol, p) EXCEPT ![ofs] = v]
        BY <1>1, <2>2, <2>4, <3>1, <3>2, <3>4, <4>1, WriteLands
      <4>3. Becomes(m, STATUS_OK)
        BY <4>1, <4>2
      <4>4. vol' = m.vol /\ fildata' = m.fil /\ fresh' = m.fresh /\ driveInfo' = m.drv
        BY <4>3 DEF Becomes
      <4>5. Good(Machine)' /\ driveInfo' = driveInfo
        BY <2>2, <4>2, <4>4, GoodNext
      <4>6. \A q \in ImagePath : SectorsOf(s.vol, q) = Images[q]
        BY <3>2, MachineFields DEF SameImages, Images
      <4>7. \A q \in ImagePath : SectorsOf(m.vol, q) = SectorsOf(vol, q)'
        BY <4>4 DEF SectorsOf
      <4>8. Images' = [Images EXCEPT ![p] = [Images[p] EXCEPT ![ofs] = v]]
        <5>1. Images' = [q \in ImagePath |-> SectorsOf(m.vol, q)]
          BY <4>7 DEF Images
        <5>2. Images = [q \in ImagePath |-> Images[q]]
          BY DEF Images
        <5>3. QED
          BY <3>2, <4>2, <4>6, <5>1, <5>2
      <4>9. QED
        BY <3>2, <4>5, <4>8 DEF WriteResult
    <3>5. QED
      BY <3>3, <3>4
  <2>5. QED
    BY <2>3, <2>4
<1>5. QED
  <2>1. (\E r : Becomes(x, r)) \/
        /\ driveInfo[d].attribs # Unset
        /\ \E s \in SeekSector(x) :
              IF s.res # FR_OK
              THEN Becomes(Invalidate(s), Complete(ERROR_INVALID_DRIVE))
              ELSE \E w \in f_write(s, 3, v) :
                      IF w.res # FR_OK THEN Becomes(Invalidate(w), w.res)
                      ELSE \E m \in f_sync(w, 3) :
                              IF m.res = FR_OK THEN Becomes(m, STATUS_OK)
                              ELSE Becomes(Invalidate(m), m.res)
    BY SlotFacts, Zenon DEF WriteSDDOSSect, x
  <2>2. QED
    BY <1>3, <1>4, <2>1

----------------------------------------------------------------------------
(* The steps as steps of the floppy drives *)

Unasked == UNCHANGED <<globalCurDrive, globalLBAOffset>>

\* What the host still knows of the drives: only that of drive d changes.
LEMMA OneDrive ==
  ASSUME Knows, Bindings, NEW d \in Drives,
         \A e \in Drives \ {d} : driveInfo'[e] = driveInfo[e],
         NEW b, \A e \in Drives \ {d} : b[e] = bound[e], bound' = StillBound(b)
  PROVE  bound' = [bound EXCEPT ![d] = IF driveInfo'[d].attribs = Unset
                                       THEN NoPath ELSE b[d]]
<1> DEFINE now == IF driveInfo'[d].attribs = Unset THEN NoPath ELSE b[d]
<1>1. bound' = [e \in Drives |-> bound'[e]] /\ bound = [e \in Drives |-> bound[e]]
  BY DEF StillBound, Bindings
<1>2. \A e \in Drives \ {d} : bound'[e] = bound[e]
  BY DEF StillBound, Knows
<1>3. bound'[d] = now
  BY DEF StillBound
<1> HIDE DEF now
<1>4. QED
  BY <1>1, <1>2, <1>3 DEF now

LEMMA SameDrives ==
  ASSUME Knows, Bindings, driveInfo' = driveInfo, bound' = StillBound(bound)
  PROVE  bound' = bound
<1>1. bound' = [e \in Drives |-> bound'[e]] /\ bound = [e \in Drives |-> bound[e]]
  BY DEF StillBound, Bindings
<1>2. \A e \in Drives : bound'[e] = bound[e]
  BY DEF StillBound, Knows
<1>3. QED
  BY <1>1, <1>2

LEMMA NoPathApart == NoPath \notin ImagePath
  BY DEF NoPath, ImagePath

LEMMA KnowsFrom ==
  ASSUME NEW b, bound' = StillBound(b),
         \A e \in Drives : driveInfo'[e].attribs # Unset => b[e] \in ImagePath
  PROVE  Knows'
  BY DEF Knows, StillBound

LEMMA AsOther ==
  ASSUME Images' = Images, Unasked, bound' = bound, out' = Alien
  PROVE  Floppies!ANext
  BY DEF Floppies!ANext, Floppies!Other, Floppies!Quiet, Images, Unasked

LEMMA AsEject ==
  ASSUME Images' = Images, Unasked, NEW d \in Drives,
         bound' = [bound EXCEPT ![d] = NoPath], out' = Alien
  PROVE  Floppies!ANext
  BY DEF Floppies!ANext, Floppies!Eject, Floppies!Quiet, Images, Unasked

LEMMA AsInsert ==
  ASSUME Images' = Images, Unasked, NEW d \in Drives, NEW i \in ImagePath,
         bound' = [bound EXCEPT ![d] = i], out' = Alien
  PROVE  Floppies!ANext
  BY DEF Floppies!ANext, Floppies!Insert, Floppies!Quiet, Images, Unasked

LEMMA AsReload ==
  ASSUME Images' = Images, Unasked, bound' \in [Drives -> ImagePath \cup {NoPath}],
         out' = Alien
  PROVE  Floppies!ANext
  BY DEF Floppies!ANext, Floppies!Reload, Floppies!Quiet, Images, Unasked

LEMMA AsPowerUp ==
  ASSUME Images' = Images, bound' = [d \in Drives |-> NoPath], out' = Alien,
         globalCurDrive' \in Drives, globalLBAOffset' \in Sectors
  PROVE  Floppies!ANext
  BY DEF Floppies!ANext, Floppies!PowerUp, Floppies!Quiet, Images

LEMMA AsAsk ==
  ASSUME Images' = Images, bound' = bound, out' = Alien,
         NEW d \in Drives, NEW s \in Sectors,
         globalCurDrive' = d, globalLBAOffset' = s
  PROVE  Floppies!ANext
  BY DEF Floppies!ANext, Floppies!Ask, Floppies!Quiet, Images

LEMMA AsErase ==
  ASSUME NEW i \in ImagePath,
         Images' = [Images EXCEPT ![i] = [s \in Sectors |-> Blank]],
         Unasked, bound' = bound, out' = Alien
  PROVE  Floppies!ANext
  BY DEF Floppies!ANext, Floppies!Erase, Floppies!Quiet, Images, Unasked

LEMMA AsRead ==
  ASSUME Images' = Images, Unasked, bound' = bound, ReadResult,
         out' = globalData', out' \in Value \cup {Alien}
  PROVE  Floppies!ANext
<1>1. bound[globalCurDrive] # NoPath
  BY NoPathApart DEF ReadResult
<1>2. Floppies!Read
  BY <1>1 DEF Floppies!Read, Floppies!Disk, Floppies!Place, Images, ReadResult, Unasked
<1>3. QED
  BY <1>2 DEF Floppies!ANext

LEMMA AsWrite ==
  ASSUME NEW v \in Data, WriteResult(v), Unasked, bound' = bound, out' = Alien
  PROVE  Floppies!ANext
<1>1. bound[globalCurDrive] # NoPath
  BY NoPathApart DEF WriteResult
<1>2. Floppies!Write(v)
  BY <1>1 DEF Floppies!Write, Floppies!Disk, Floppies!Place, Floppies!Quiet,
              Images, WriteResult, Unasked
<1>3. QED
  BY <1>2 DEF Floppies!ANext

LEMMA Unasking ==
  ASSUME NEW m, NEW s, Becomes(m, s)
  PROVE  Unasked
  BY DEF Becomes, Unasked

LEMMA Asking ==
  /\ ReadSDDOSSect => Unasked
  /\ \A v : WriteSDDOSSect(v) => Unasked
  /\ ValidateSDDOSDrives => Unasked
  /\ SerialiseSDDOSDrives => Unasked
  /\ \A d : UnmountSDDOSImg(d) => Unasked
  /\ \A d, n : OpenSDDOSImg(d, n) => Unasked
<1>1. ReadSDDOSSect => Unasked
  BY Unasking, Zenon DEF ReadSDDOSSect
<1>2. \A v : WriteSDDOSSect(v) => Unasked
  BY Unasking, Zenon DEF WriteSDDOSSect
<1>3. ValidateSDDOSDrives => Unasked
  BY Unasking, Zenon DEF ValidateSDDOSDrives
<1>4. SerialiseSDDOSDrives => Unasked
  BY Unasking, Zenon DEF SerialiseSDDOSDrives
<1>5. \A d : UnmountSDDOSImg(d) => Unasked
  BY Unasking, Zenon DEF UnmountSDDOSImg
<1>6. \A d, n : OpenSDDOSImg(d, n) => Unasked
  BY Unasking, Zenon DEF OpenSDDOSImg
<1>7. QED
  BY <1>1, <1>2, <1>3, <1>4, <1>5, <1>6

\* What every step has to show.
AsDrives == [Floppies!ANext]_(Floppies!avars) /\ Good(Machine)' /\ Knows'

LEMMA HeldDrives ==
  ASSUME FloppyInv, driveInfo' = driveInfo, bound' = bound
  PROVE  Knows'
  BY DEF FloppyInv, Knows

LEMMA OtherDrives ==
  ASSUME FloppyInv, ImagesKept, Unasked, driveInfo' = driveInfo, bound' = bound,
         out' = Alien
  PROVE  AsDrives
  BY HeldDrives, AsOther DEF ImagesKept, AsDrives

\* A command that at most gives a drive up.
LEMMA LostDrive ==
  ASSUME FloppyInv, ImagesKept, Unasked, NEW d \in Drives, DriveStep(d),
         bound' = StillBound(bound), out' = Alien
  PROVE  AsDrives
<1>1. PICK m, s : Settled(m, s) /\ Follows(Machine, m, d)
  BY DEF DriveStep
<1>2. /\ \A e \in Drives \ {d} : driveInfo'[e] = driveInfo[e]
      /\ driveInfo'[d].attribs # Unset => driveInfo[d].attribs # Unset
  BY <1>1, MachineFields DEF Settled, Becomes, Follows, TableKept
<1>3. Knows /\ Bindings
  BY DEF FloppyInv
<1>4. bound' = [bound EXCEPT ![d] = IF driveInfo'[d].attribs = Unset
                                    THEN NoPath ELSE bound[d]]
  BY <1>2, <1>3, OneDrive
<1>5. Knows'
  BY <1>2, <1>3, KnowsFrom DEF Knows
<1>6. CASE driveInfo'[d].attribs = Unset
  BY <1>4, <1>5, <1>6, AsEject DEF ImagesKept, AsDrives
<1>7. CASE driveInfo'[d].attribs # Unset
  <2>1. bound' = bound
    BY <1>3, <1>4, <1>7 DEF Bindings
  <2>2. QED
    BY <1>5, <2>1, AsOther DEF ImagesKept, AsDrives
<1>8. QED
  BY <1>6, <1>7

LEMMA FileStepDrives ==
  ASSUME FloppyInv, NEW h \in Slots, FileStep(h)
  PROVE  driveInfo' = driveInfo /\ Unasked
  BY MachineFields DEF FileStep, Settled, Becomes, Frame, Unasked

LEMMA FileDrives ==
  ASSUME FloppyInv, ImagesKept, NEW h \in Slots, FileStep(h), bound' = bound,
         out' = Alien
  PROVE  AsDrives
  BY FileStepDrives, OtherDrives

LEMMA FileCommandDrives ==
  ASSUME ~Faults, {"two-files", "scratch-first"} \subseteq Habits,
         FloppyInv, HostFileCommand
  PROVE  AsDrives
<1>1. State /\ bound' = bound /\ out' = Alien
  BY InvMachine DEF HostFileCommand, Silent
<1>2. Has("two-files") /\ Has("scratch-first")
  BY DEF Has
<1>3. ASSUME NEW h \in HostFiles, NEW n \in HostNames,
             OwnSlot(h), LeavesSlot3(h), h = 0 => ScratchClosed,
             FileOpenRead(h, n) \/ FileOpenWrite(h, n) \/ FileOpenRAF(h, n)
      PROVE  AsDrives
  <2>1. PICK mode \in {"read", "write", "both"}, how \in {"existing", "new", "always"} :
           fileOpen(h, n, mode, how)
    BY <1>3 DEF FileOpenRead, FileOpenWrite, FileOpenRAF
  <2>2. /\ h \in HostSlots /\ h \in Slots \ {3}
        /\ h # 0 /\ FreeSlots # {} => FirstFree # 3
    BY <1>2, <1>3, HostSlot, HostSlotFacts DEF OwnSlot, LeavesSlot3
  <2>3. PICK g \in Slots : FileStep(g)
    BY <1>1, <2>1, <2>2, FileOpenStep
  <2>4. ImagesKept
    BY <2>1, <2>2, FileOpenKept
  <2>5. QED
    BY <1>1, <2>3, <2>4, FileDrives
<1>4. ASSUME NEW h \in HostFiles, OwnSlot(h), FileRead(h) \/ FileClose(h)
      PROVE  AsDrives
  <2>1. h \in HostSlots /\ h \in Slots
    BY <1>2, <1>4, HostSlot, HostSlotFacts DEF OwnSlot
  <2>2. FileStep(h) /\ ImagesKept
    BY <1>1, <1>4, <2>1, FileReadStep, FileCloseStep, FileReadKept, FileCloseKept
  <2>3. QED
    BY <1>1, <2>1, <2>2, FileDrives
<1>5. ASSUME NEW h \in HostFiles, NEW v \in HostData, OwnSlot(h), FileWrite(h, v)
      PROVE  AsDrives
  <2>1. h \in HostSlots /\ h \in Slots /\ v \in Data
    BY <1>2, <1>5, HostSlot, HostSlotFacts, HostAssumption DEF OwnSlot
  <2>2. FileStep(h) /\ ImagesKept
    BY <1>1, <1>5, <2>1, FileWriteStep, FileWriteKept
  <2>3. QED
    BY <1>1, <2>1, <2>2, FileDrives
<1>6. ASSUME NEW h \in HostFiles, NEW ofs \in 0..Capacity, OwnSlot(h), FileSeek(h, ofs)
      PROVE  AsDrives
  <2>1. h \in HostSlots /\ h \in Slots
    BY <1>2, <1>6, HostSlot, HostSlotFacts DEF OwnSlot
  <2>2. FileStep(h) /\ ImagesKept
    BY <1>1, <1>6, <2>1, FileSeekStep, FileSeekKept
  <2>3. QED
    BY <1>1, <2>1, <2>2, FileDrives
<1>7. ASSUME NEW n \in HostNames \cup ImageNames, FileDelete(n)
      PROVE  AsDrives
  <2>1. FileStep(0) /\ 0 \in Slots
    BY <1>1, <1>7, FileDeleteStep, SlotFacts
  <2>2. driveInfo' = driveInfo /\ Unasked
    BY <2>1, FileStepDrives
  <2>3. Good(Machine)' /\ Knows'
    BY <1>1, <1>7, <2>2, FileDeleteErases, HeldDrives
  <2>4. CASE Images' = Images
    BY <1>1, <2>2, <2>3, <2>4, AsOther DEF AsDrives
  <2>5. ASSUME NEW i \in ImagePath,
               Images' = [Images EXCEPT ![i] = [s \in Sectors |-> Blank]]
        PROVE  AsDrives
    BY <1>1, <2>2, <2>3, <2>5, AsErase DEF AsDrives
  <2>6. QED
    BY <1>7, <2>4, <2>5, FileDeleteErases
<1>8. ASSUME NEW c \in Dirs, SetCWDirectory(c) PROVE AsDrives
  <2>1. driveInfo' = driveInfo
    BY <1>1, <1>8, ChdirStep
  <2>2. Unasked
    BY <1>8, Unasking DEF SetCWDirectory
  <2>3. QED
    BY <1>1, <1>8, <2>1, <2>2, ChdirKept, OtherDrives
<1>9. QED
  BY <1>3, <1>4, <1>5, <1>6, <1>7, <1>8 DEF HostFileCommand

LEMMA MountDrives ==
  ASSUME ~Faults, "scratch-first" \in Habits, FloppyInv,
         NEW d \in HostDrives, NEW n \in ImageNames, HostMount(d, n)
  PROVE  AsDrives
<1> DEFINE p == <<cdir, n>>
           b == [bound EXCEPT ![d] = p]
           info == [name |-> n, attribs |-> NoAttr]
<1>1. /\ State /\ d \in Drives /\ OpenSDDOSImg(d, n) /\ out' = Alien
      /\ bound' = StillBound(b) /\ ~fildata[0].open
  BY InvMachine, HostAssumption DEF HostMount, Silent, ScratchClosed, Has
<1>2. ImagesKept /\ Unasked
  BY <1>1, OpenImgKept, Asking
<1>3. \A e \in Drives \ {d} : driveInfo'[e] = driveInfo[e]
  <2>1. PICK m, s : Settled(m, s) /\ Follows(Asked(d, n), m, d)
    BY <1>1, OpenImgStep
  <2>2. info \in ImgInfo
    BY DEF ImgInfo, Attr, NoAttr
  <2>3. \A e \in Drives \ {d} : Asked(d, n).drv[e] = driveInfo[e]
    BY <1>1, <2>2, InvMachine, SetDriveLemma, MachineFields DEF Asked
  <2>4. QED
    BY <2>1, <2>3 DEF Settled, Becomes, Follows, TableKept
<1>4. Knows /\ Bindings
  BY DEF FloppyInv
<1>5. p \in ImagePath /\ b[d] = p /\ \A e \in Drives \ {d} : b[e] = bound[e]
  BY <1>1, <1>4 DEF State, TypeOK, ImagePath, Bindings
<1> HIDE DEF b, p
<1>6. bound' = [bound EXCEPT ![d] = IF driveInfo'[d].attribs = Unset THEN NoPath ELSE p]
  BY <1>1, <1>3, <1>4, <1>5, OneDrive
<1>7. Knows'
  BY <1>1, <1>3, <1>4, <1>5, KnowsFrom DEF Knows
<1>8. CASE driveInfo'[d].attribs = Unset
  BY <1>1, <1>2, <1>6, <1>7, <1>8, AsEject DEF ImagesKept, AsDrives
<1>9. CASE driveInfo'[d].attribs # Unset
  BY <1>1, <1>2, <1>5, <1>6, <1>7, <1>9, AsInsert DEF ImagesKept, AsDrives
<1>10. QED
  BY <1>8, <1>9

LEMMA LoadTableDrives ==
  ASSUME ~Faults, {"scratch-first", "unmount-first"} \subseteq Habits, FloppyInv,
         HostLoadTable
  PROVE  AsDrives
<1> DEFINE b == [d \in Drives |-> <<cdir, driveInfo'[d].name>>]
<1>1. /\ State /\ ValidateSDDOSDrives /\ out' = Alien /\ lastDriveNo = NoDrive
      /\ bound' = StillBound(b) /\ ~fildata[0].open
  BY InvMachine DEF HostLoadTable, Silent, ScratchClosed, AtPowerOn, Has
<1>2. ImagesKept /\ Unasked
  BY <1>1, ValidateKept, Asking
<1>3. \A d \in Drives : driveInfo'[d].attribs # Unset => b[d] \in ImagePath
  BY <1>1, ValidateKept DEF State, TypeOK, ImagePath
<1>4. bound' \in [Drives -> ImagePath \cup {NoPath}]
  BY <1>1, <1>3 DEF StillBound
<1>5. QED
  BY <1>1, <1>2, <1>3, <1>4, KnowsFrom, AsReload DEF ImagesKept, AsDrives

LEMMA ReadDrives ==
  ASSUME ~Faults, FloppyInv, State', HostReadSector
  PROVE  AsDrives
<1>1. /\ State /\ ReadSDDOSSect /\ bound' = StillBound(bound)
      /\ out' = IF port' = STATUS_OK THEN globalData' ELSE Alien
      /\ globalCurDrive \in Drives
  BY InvMachine DEF HostReadSector, State, TypeOK
<1>2. ImagesKept /\ Unasked /\ (port' = STATUS_OK => ReadResult)
  BY <1>1, ReadSectorKept, Asking
<1>3. CASE port' # STATUS_OK
  BY <1>1, <1>2, <1>3, ReadSectorStep, LostDrive
<1>4. CASE port' = STATUS_OK
  <2>1. bound' = bound
    BY <1>1, <1>2, <1>4, SameDrives DEF FloppyInv, ReadResult
  <2>2. out' = globalData' /\ out' \in Value \cup {Alien}
    BY <1>1, <1>4 DEF State, TypeOK
  <2>3. Floppies!ANext
    BY <1>2, <1>4, <2>1, <2>2, AsRead DEF ImagesKept
  <2>4. QED
    BY <1>2, <1>4, <2>1, <2>3, HeldDrives DEF ImagesKept, ReadResult, AsDrives
<1>5. QED
  BY <1>3, <1>4

LEMMA WriteDrives ==
  ASSUME ~Faults, FloppyInv, NEW v \in HostData, HostWriteSector(v)
  PROVE  AsDrives
<1>1. /\ State /\ v \in Data /\ WriteSDDOSSect(v) /\ bound' = StillBound(bound)
      /\ out' = Alien /\ globalCurDrive \in Drives
  BY InvMachine, HostAssumption DEF HostWriteSector, Silent, State, TypeOK
<1>2. Unasked
  BY <1>1, Asking
<1>3. CASE ImagesKept
  BY <1>1, <1>2, <1>3, WriteSectorStep, LostDrive
<1>4. CASE WriteResult(v)
  <2>1. bound' = bound
    BY <1>1, <1>4, SameDrives DEF FloppyInv, WriteResult
  <2>2. Floppies!ANext
    BY <1>1, <1>2, <1>4, <2>1, AsWrite
  <2>3. QED
    BY <1>4, <2>1, <2>2, HeldDrives DEF WriteResult, AsDrives
<1>5. QED
  BY <1>1, <1>3, <1>4, WriteSectorKept

\* The power going: fresh holds no image, so none can be lost.
LEMMA PowerDrives ==
  ASSUME FloppyInv, PowerCycle
  PROVE  AsDrives
<1>1. Restart /\ bound' = [d \in Drives |-> NoPath] /\ out' = Alien
  BY DEF PowerCycle, Silent
<1>2. PICK lost \in SUBSET fresh :
         vol' = [p \in Path |-> IF p \in lost THEN NoEntry ELSE vol[p]]
  BY <1>1 DEF Restart
<1>3. \A p \in ImagePath : vol'[p] = vol[p]
  BY <1>2, InvMachine, MachineFresh, ImagePathParts DEF Good
<1>4. Images' = Images
  BY <1>3 DEF Images, SectorsOf
<1>5. Good(Machine)'
  <2>1. Machine'.vol = vol' /\ Machine'.fil = [h \in Slots |-> Closed]
        /\ Machine'.fresh = {}
    BY <1>1 DEF Machine, Restart
  <2>2. \A p \in ImagePath : Tail(Machine'.vol[p])
    BY <1>3, <2>1, InvMachine, MachineFields DEF Good
  <2>3. ~Machine'.fil[3].open
    BY <2>1, ClosedType, SlotFacts
  <2>4. QED
    BY <2>1, <2>2, <2>3 DEF Good, Coherent
<1>6. Knows'
  BY <1>1 DEF Restart, Unused, Knows
<1>7. globalCurDrive' \in Drives /\ globalLBAOffset' \in Sectors
  BY <1>1, CapacityAssumption, SlotFacts DEF Restart, Sectors
<1>8. QED
  BY <1>1, <1>4, <1>5, <1>6, <1>7, AsPowerUp DEF AsDrives

----------------------------------------------------------------------------
(* The theorem *)

\* A card on which nothing stands behind the end of an image.
CardsBlank == \A card \in Cards, p \in ImagePath : Tail(card[p])

LEMMA StepFloppy ==
  ASSUME ~Faults,
         {"two-files", "scratch-first", "unmount-first", "stays-put"} \subseteq Habits,
         FloppyInv, [HNext]_hvars
  PROVE  AsDrives /\ FloppyInv'
<1>1. State' /\ Bindings'
  BY InvMachine, StepState, StepBindings DEF FloppyInv
<1>2. DataState(Machine)'
  <2>1. PowerCycle => DataState(Machine)'
    BY RestartData DEF PowerCycle
  <2>2. QED
    BY <2>1, StepDone DEF FloppyInv, Done
<1>3. ScratchClosed <=> ~fildata[0].open
  BY DEF ScratchClosed, Has
<1>4. ASSUME NEW d \in HostDrives, NEW s \in Sectors, HostParam(d, s) PROVE AsDrives
  <2>1. /\ UNCHANGED <<vol, fildata, fresh, driveInfo>> /\ bound' = bound
        /\ out' = Alien /\ d \in Drives
        /\ globalCurDrive' = d /\ globalLBAOffset' = s
    BY <1>4, HostAssumption DEF HostParam, LoadParam, Silent
  <2>2. ImagesKept /\ Knows'
    BY <2>1, StillKept, HeldDrives
  <2>3. QED
    BY <2>1, <2>2, AsAsk DEF ImagesKept, AsDrives
<1>5. ASSUME NEW d \in HostDrives, HostUnmount(d) PROVE AsDrives
  <2>1. /\ UnmountSDDOSImg(d) /\ bound' = StillBound(bound) /\ out' = Alien
        /\ d \in Drives /\ State /\ ~fildata[0].open
    BY <1>3, <1>5, InvMachine, HostAssumption DEF HostUnmount, Silent
  <2>2. QED
    BY <2>1, UnmountKept, UnmountStep, Asking, LostDrive
<1>6. ASSUME HostSaveTable PROVE AsDrives
  <2>1. /\ SerialiseSDDOSDrives /\ bound' = bound /\ out' = Alien
        /\ ~fildata[0].open
    BY <1>3, <1>6 DEF HostSaveTable, Silent
  <2>2. QED
    BY <2>1, SaveKept, Asking, OtherDrives
<1>7. ASSUME UNCHANGED hvars PROVE AsDrives
  <2>1. UNCHANGED <<vol, fildata, fresh, driveInfo, bound, out,
                    globalCurDrive, globalLBAOffset>>
    BY <1>7 DEF hvars, vars
  <2>2. ImagesKept /\ Knows'
    BY <2>1, StillKept, HeldDrives
  <2>3. UNCHANGED Floppies!avars
    BY <2>1, <2>2 DEF ImagesKept, Images, Floppies!avars
  <2>4. QED
    BY <2>2, <2>3 DEF ImagesKept, AsDrives
<1>8. AsDrives
  BY <1>1, <1>4, <1>5, <1>6, <1>7, FileCommandDrives, MountDrives, LoadTableDrives,
     ReadDrives, WriteDrives, PowerDrives DEF HNext
<1>9. QED
  BY <1>1, <1>2, <1>8 DEF FloppyInv, DataInv, AsDrives

LEMMA InitFloppy ==
  ASSUME CardsBlank, HInit
  PROVE  FloppyInv /\ Floppies!AInit
<1>1. State /\ Bindings
  BY InitState, InitBindings
<1>2. DataState(Machine)
  BY BlankData DEF HInit, Init
<1>3. Knows
  BY DEF HInit, Init, Knows, Unused
<1>4. Good(Machine)
  <2>1. /\ Machine.vol \in Cards /\ Machine.fil = [h \in Slots |-> Closed]
        /\ Machine.fresh = {}
    BY DEF HInit, Init, Machine
  <2>2. ~Machine.fil[3].open
    BY <2>1, ClosedType, SlotFacts
  <2>3. QED
    BY <2>1, <2>2 DEF Good, Coherent, CardsBlank
<1>5. Images \in [ImagePath -> [Sectors -> Value]]
  <2>1. \A p \in ImagePath : SectorsOf(vol, p) \in [Sectors -> Value]
    BY <1>1, ImagePathParts DEF State, TypeOK, SectorsOf, Entry, NewEntry, Value
  <2>2. QED
    BY <2>1 DEF Images
<1>6. globalCurDrive \in Drives /\ globalLBAOffset \in Sectors
  BY <1>1 DEF State, TypeOK
<1>7. Floppies!AInit
  BY <1>5, <1>6 DEF Floppies!AInit, HInit, Images
<1>8. QED
  BY <1>1, <1>2, <1>3, <1>4, <1>7 DEF FloppyInv, DataInv

\* On a card that does not fail, for a host that leaves fildata[3] alone, closes
\* the scratch file before it is needed, mounts only in a drive it has unmounted
\* and stays in its directory while a drive is mounted: the SDDOS commands are
\* four floppy drives.  A sector written changes that sector of that image only,
\* a sector read is what was last written there, and neither other files, other
\* drives nor the power going between two commands change what an image holds.
THEOREM FirmwareIsFloppyDrives ==
  ASSUME ~Faults, CardsBlank,
         {"two-files", "scratch-first", "unmount-first", "stays-put"} \subseteq Habits
  PROVE  HSpec => DrivesAreFloppies
<1>1. HInit => FloppyInv /\ Floppies!AInit
  BY InitFloppy
<1>2. FloppyInv /\ [HNext]_hvars => FloppyInv'
  BY StepFloppy
<1>3. FloppyInv /\ [HNext]_hvars => [Floppies!ANext]_(Floppies!avars)
  BY StepFloppy DEF AsDrives
<1>4. QED
  BY <1>1, <1>2, <1>3, PTL DEF HSpec, DrivesAreFloppies, Floppies!ASpec
===============================================================================
