--------------------------- MODULE AtomHostProofs ---------------------------
(***************************************************************************)
(* Proofs about AtomHost, for every card, every capacity, any set of names *)
(* and with or without disk errors; and that on a card that does not fail  *)
(* BOOTDRV.CFG always names the image of every mounted drive.              *)
(***************************************************************************)
EXTENDS AtomHost, TLAPS

(* Types, and the files the host opens *)

MachineType ==
    [vol : [Path -> Entry \cup {NoEntry}], fresh : SUBSET Path, cdir : Dirs,
     fil : [Slots -> Fil], drv : DriveTable, last : Drives \cup {NoDrive},
     data : Value \cup {Alien}, res : 0..255]

\* FilesSound, of a machine between two calls.
Sound(m) ==
    \A h \in Slots : m.fil[h].open =>
        /\ m.vol[m.fil[h].path] # NoEntry
        /\ m.fil[h].dirty => m.fil[h].written /\ m.fil[h].buf # NoSector

MachineOK(m) == m \in MachineType /\ Sound(m)

\* A call on FIL h leaves the rest of the firmware's state alone.
Frame(m, n, h) ==
    /\ n.cdir = m.cdir
    /\ n.drv = m.drv
    /\ n.last = m.last
    /\ \A g \in Slots \ {h} : n.fil[g] = m.fil[g]

\* The FIL is still open on the same file, in the same mode.
SameFile(m, n, h) ==
    /\ n.fil[h].open = m.fil[h].open
    /\ n.fil[h].path = m.fil[h].path
    /\ n.fil[h].mode = m.fil[h].mode


LEMMA ClosedType == Closed \in Fil /\ ~Closed.open
  BY NamesAssumption, CapacityAssumption
  DEF Closed, Fil, Path, Names, Sectors, NoSector, Value

LEMMA NewEntryType == NewEntry \in Entry /\ NewEntry # NoEntry
  BY CapacityAssumption, NoEntryAssumption
  DEF NewEntry, Entry, Attr, NoAttr, Sectors, Value

\* What a FIL must be to sit in the machine.
FilOK(m, f) ==
    /\ f \in Fil
    /\ f.open => /\ m.vol[f.path] # NoEntry
                 /\ f.dirty => f.written /\ f.buf # NoSector

\* n is m with FIL h replaced by f, and result r.
Replaced(m, n, h, f, r) ==
    /\ MachineOK(n) /\ Frame(m, n, h)
    /\ n.fil[h] = f /\ n.res = r
    /\ n.vol = m.vol /\ n.fresh = m.fresh /\ n.data = m.data

LEMMA SetFilLemma ==
  ASSUME NEW m, MachineOK(m), NEW h \in Slots, NEW f, FilOK(m, f), NEW r \in 0..255
  PROVE  Replaced(m, SetFil(m, h, f, r), h, f, r)
<1> DEFINE n == SetFil(m, h, f, r)
<1>1. /\ n.vol = m.vol /\ n.fresh = m.fresh /\ n.cdir = m.cdir
      /\ n.drv = m.drv /\ n.last = m.last /\ n.data = m.data
      /\ n.fil = [m.fil EXCEPT ![h] = f] /\ n.res = r
  BY DEF SetFil, MachineOK, MachineType
<1>3. n \in MachineType
  BY DEF SetFil, MachineOK, MachineType, FilOK
<1>4. \A g \in Slots : n.fil[g] = IF g = h THEN f ELSE m.fil[g]
  BY <1>1 DEF MachineOK, MachineType
<1>5. Sound(n)
  BY <1>1, <1>4 DEF MachineOK, Sound, FilOK
<1>6. QED
  BY <1>1, <1>3, <1>4, <1>5 DEF MachineOK, Frame, Replaced

Errors == {FR_DISK_ERR, FR_INT_ERR, FR_NO_FILE, FR_INVALID_NAME, FR_DENIED,
           FR_EXIST, FR_INVALID_OBJECT}

LEMMA ResultCodes == /\ Result = {FR_OK} \cup Errors
                     /\ Result \subseteq 0..255
                     /\ FR_OK \notin Errors
  BY DEF Result, Errors, FR_OK, FR_DISK_ERR, FR_INT_ERR, FR_NO_FILE,
         FR_INVALID_NAME, FR_DENIED, FR_EXIST, FR_INVALID_OBJECT

\* What an f_open of p on FIL h promises of the machine n it leaves.
OpenResult(m, n, h, p, mode) ==
    /\ MachineOK(n) /\ Frame(m, n, h)
    /\ n.res \in Result
    /\ n.res = FR_OK => /\ n.fil[h].open /\ n.fil[h].path = p
                        /\ n.fil[h].mode = mode /\ p \in Path
    /\ n.res # FR_OK => ~n.fil[h].open
    /\ n.data = m.data

\* f_open, on a path of this card or on a name it refuses.
LEMMA OpenLemma ==
  ASSUME NEW m, MachineOK(m), NEW h \in Slots, NEW p,
         NEW mode \in {"read", "write", "both"}, NEW how,
         NEW n \in f_open(m, h, p, mode, how)
  PROVE  OpenResult(m, n, h, p, mode)
<1> DEFINE k == [m EXCEPT !.vol[p] = NewEntry, !.fresh = @ \cup {p}]
<1>1. ASSUME NEW r \in Errors
      PROVE  OpenResult(m, SetFil(m, h, Closed, r), h, p, mode)
  <2>1. FilOK(m, Closed) /\ ~Closed.open /\ r \in 0..255 /\ r \in Result /\ r # FR_OK
    BY ClosedType, ResultCodes DEF FilOK
  <2>2. Replaced(m, SetFil(m, h, Closed, r), h, Closed, r)
    BY <2>1, SetFilLemma
  <2>3. QED
    BY <2>1, <2>2 DEF Replaced, OpenResult
<1>2. ASSUME p \in Path
      PROVE  /\ MachineOK(k) /\ Frame(m, k, h) /\ Exists(k, p)
             /\ k.data = m.data
  <2>1. /\ k.vol = [m.vol EXCEPT ![p] = NewEntry] /\ k.fresh = m.fresh \cup {p}
        /\ k.cdir = m.cdir /\ k.drv = m.drv /\ k.last = m.last
        /\ k.data = m.data /\ k.fil = m.fil /\ k.res = m.res
    BY DEF MachineOK, MachineType
  <2>2. k \in MachineType
    BY <1>2, NewEntryType, ZenonT(60) DEF MachineOK, MachineType
  <2>3. \A q \in Path : k.vol[q] = IF q = p THEN NewEntry ELSE m.vol[q]
    BY <1>2, <2>1 DEF MachineOK, MachineType
  <2>4. \A g \in Slots : m.fil[g].path \in Path
    BY DEF MachineOK, MachineType, Fil
  <2>5. Sound(k)
    BY <2>1, <2>3, <2>4, NewEntryType DEF MachineOK, Sound
  <2>6. QED
    BY <1>2, <2>1, <2>2, <2>3, <2>5, NewEntryType DEF MachineOK, Frame, Exists
<1>3. ASSUME NEW x, MachineOK(x), Frame(m, x, h), Exists(x, p), x.data = m.data,
             NEW new \in BOOLEAN
      PROVE  OpenResult(m, Opened(x, h, p, mode, new), h, p, mode)
  <2> DEFINE f == [open |-> TRUE, path |-> p, mode |-> mode,
                   fptr |-> 0, size |-> x.vol[p].size,
                   buf |-> NoSector, val |-> Blank, dirty |-> FALSE,
                   written |-> new, err |-> FALSE]
  <2>1. x.vol[p] \in Entry /\ p \in Path
    BY <1>3 DEF Exists, MachineOK, MachineType
  <2>2. f \in Fil
    BY <2>1, CapacityAssumption DEF Fil, Entry, Value
  <2>3. FilOK(x, f)
    BY <1>3, <2>2 DEF FilOK, Exists
  <2>4. Opened(x, h, p, mode, new) = SetFil(x, h, f, FR_OK)
    BY DEF Opened, SetFil
  <2>5. Replaced(x, SetFil(x, h, f, FR_OK), h, f, FR_OK)
    BY <1>3, <2>3, SetFilLemma, ResultCodes
  <2>6. f.open /\ f.path = p /\ f.mode = mode
    OBVIOUS
  <2> HIDE DEF f
  <2>7. QED
    BY <1>3, <2>1, <2>4, <2>5, <2>6, ResultCodes DEF Frame, Replaced, OpenResult
<1>4. ASSUME Exists(m, p)
      PROVE  OpenResult(m, Opened(m, h, p, mode, FALSE), h, p, mode)
  BY <1>3, <1>4 DEF Frame
<1>5. ASSUME p \in Path
      PROVE  OpenResult(m, Opened(k, h, p, mode, TRUE), h, p, mode)
  <2> HIDE DEF k
  <2>1. QED
    BY <1>2, <1>3, <1>5
<1>6. \/ \E r \in Errors : n = SetFil(m, h, Closed, r)
      \/ p \in Path /\ n = Opened(k, h, p, mode, TRUE)
      \/ Exists(m, p) /\ n = Opened(m, h, p, mode, FALSE)
  BY DEF f_open, OrFault, Errors
<1> HIDE DEF k
<1>7. QED
  BY <1>1, <1>4, <1>5, <1>6

\* A call on the open FIL h that leaves it on its file.
Kept(m, n, h) == MachineOK(n) /\ Frame(m, n, h) /\ SameFile(m, n, h)

LEMMA KeptTrans ==
  ASSUME NEW m, NEW k, NEW n, NEW h \in Slots, Kept(m, k, h), Kept(k, n, h)
  PROVE  Kept(m, n, h)
  BY DEF Kept, Frame, SameFile

\* Replacing a directory entry by another entry.
LEMMA SetEntryLemma ==
  ASSUME NEW m, MachineOK(m), NEW p \in Path, NEW e \in Entry,
         NEW n \in MachineType, n.vol = [m.vol EXCEPT ![p] = e], n.fil = m.fil
  PROVE  Sound(n)
<1>1. \A q \in Path : n.vol[q] = IF q = p THEN e ELSE m.vol[q]
  BY DEF MachineOK, MachineType
<1>2. \A g \in Slots : m.fil[g].path \in Path
  BY DEF MachineOK, MachineType, Fil
<1>3. QED
  BY <1>1, <1>2, NoEntryAssumption DEF MachineOK, Sound

LEMMA OpenFil ==
  ASSUME NEW m, MachineOK(m), NEW h \in Slots, m.fil[h].open
  PROVE  /\ m.fil[h] \in Fil /\ m.fil[h].path \in Path
         /\ m.vol[m.fil[h].path] \in Entry
         /\ m.vol[m.fil[h].path] # NoEntry
         /\ m.fil[h].dirty => m.fil[h].written /\ m.fil[h].buf \in Sectors
         /\ m.fil[h].val \in Value
<1>1. m.fil[h] \in Fil
  BY DEF MachineOK, MachineType
<1>2. m.fil[h].path \in Path /\ m.fil[h].val \in Value
      /\ m.fil[h].buf \in Sectors \cup {NoSector}
  BY <1>1 DEF Fil
<1>3. QED
  BY <1>1, <1>2 DEF MachineOK, MachineType, Sound

LEMMA FlushLemma ==
  ASSUME NEW m, MachineOK(m), NEW h \in Slots, m.fil[h].open
  PROVE  LET n == FlushBuf(m, h) IN
         /\ Kept(m, n, h)
         /\ n.fil[h] = [m.fil[h] EXCEPT !.dirty = FALSE]
         /\ n.data = m.data /\ n.res = m.res
<1> DEFINE f == m.fil[h]
           n == FlushBuf(m, h)
           e == [m.vol[f.path] EXCEPT !.blk[f.buf] = f.val]
           k == [m EXCEPT !.vol[f.path] = e]
           g == [f EXCEPT !.dirty = FALSE]
<1>1. CASE ~f.dirty
  <2>1. n = m
    BY <1>1 DEF FlushBuf
  <2>2. g = f
    BY <1>1, OpenFil, ZenonT(60) DEF Fil
  <2>3. QED
    BY <2>1, <2>2 DEF Kept, Frame, SameFile
<1>2. CASE f.dirty
  <2>1. e \in Entry
    BY <1>2, OpenFil, ZenonT(60) DEF Entry
  <2>2. k \in MachineType
    BY <2>1, OpenFil, ZenonT(60) DEF MachineOK, MachineType
  <2>3. /\ k.vol = [m.vol EXCEPT ![f.path] = e] /\ k.fresh = m.fresh
        /\ k.cdir = m.cdir /\ k.drv = m.drv /\ k.last = m.last
        /\ k.data = m.data /\ k.fil = m.fil /\ k.res = m.res
    BY DEF MachineOK, MachineType
  <2>4. MachineOK(k) /\ Frame(m, k, h)
    BY <2>1, <2>2, <2>3, SetEntryLemma, OpenFil, ZenonT(60) DEF MachineOK, Frame
  <2>5. FilOK(k, g) /\ SameFile(m, SetFil(k, h, g, k.res), h)
    <3>1. g \in Fil /\ g.open /\ g.path = f.path /\ g.mode = f.mode /\ ~g.dirty
      BY OpenFil, ZenonT(60) DEF Fil
    <3>2. k.vol[f.path] # NoEntry
      BY <2>1, <2>3, OpenFil, NoEntryAssumption, ZenonT(60) DEF MachineOK, MachineType
    <3>3. SetFil(k, h, g, k.res).fil[h] = g
      BY <2>2, ZenonT(60) DEF SetFil, MachineType
    <3>4. QED
      BY <3>1, <3>2, <3>3, ZenonT(60) DEF FilOK, SameFile
  <2>6. n = SetFil(k, h, g, k.res)
    BY <1>2, <2>3, <2>2, ZenonT(60) DEF FlushBuf, SetFil, MachineOK, MachineType
  <2>7. k.res \in 0..255
    BY <2>2, ZenonT(60) DEF MachineType
  <2>8. Replaced(k, n, h, g, k.res)
    BY <2>4, <2>5, <2>6, <2>7, SetFilLemma, ZenonT(60)
  <2>9. QED
    BY <2>3, <2>4, <2>5, <2>6, <2>8, ZenonT(60) DEF Replaced, Kept, Frame
<1>3. QED
  BY <1>1, <1>2

LEMMA ReturnLemma ==
  ASSUME NEW m, MachineOK(m), NEW h \in Slots, NEW r \in 0..255
  PROVE  /\ Kept(m, Return(m, r), h) /\ Return(m, r).res = r
         /\ Return(m, r).fil = m.fil /\ Return(m, r).data = m.data
<1> DEFINE n == Return(m, r)
<1>1. /\ n.vol = m.vol /\ n.fresh = m.fresh /\ n.cdir = m.cdir
      /\ n.drv = m.drv /\ n.last = m.last /\ n.data = m.data
      /\ n.fil = m.fil /\ n.res = r
  BY DEF Return, MachineOK, MachineType
<1>2. n \in MachineType
  BY DEF Return, MachineOK, MachineType
<1>3. QED
  BY <1>1, <1>2 DEF Kept, MachineOK, Sound, Frame, SameFile

LEMMA AbortLemma ==
  ASSUME NEW m, MachineOK(m), NEW h \in Slots, m.fil[h].open
  PROVE  /\ Kept(m, Aborted(m, h), h)
         /\ Aborted(m, h).res = FR_DISK_ERR /\ Aborted(m, h).data = m.data
<1> DEFINE f == m.fil[h]
           g == [f EXCEPT !.err = TRUE]
<1>1. /\ g \in Fil /\ g.open /\ g.path = f.path /\ g.mode = f.mode
      /\ g.dirty = f.dirty /\ g.written = f.written /\ g.buf = f.buf
  BY OpenFil, ZenonT(60) DEF Fil
<1>2. FilOK(m, g)
  BY <1>1 DEF FilOK, MachineOK, Sound
<1>3. Aborted(m, h) = SetFil(m, h, g, FR_DISK_ERR)
  BY DEF Aborted
<1>4. FR_DISK_ERR \in 0..255
  BY DEF FR_DISK_ERR
<1> HIDE DEF g
<1>5. Replaced(m, Aborted(m, h), h, g, FR_DISK_ERR)
  BY <1>2, <1>3, <1>4, SetFilLemma
<1>6. QED
  BY <1>1, <1>5 DEF Replaced, Kept, SameFile

\* What a call on FIL h that does not close it promises.
CallResult(m, n, h) ==
    /\ Kept(m, n, h)
    /\ n.res \in Result

LEMMA SyncLemma ==
  ASSUME NEW m, MachineOK(m), NEW h \in Slots, NEW n \in f_sync(m, h)
  PROVE  CallResult(m, n, h) /\ n.data = m.data
<1> DEFINE f == m.fil[h]
           x == FlushBuf(m, h)
<1>1. ASSUME NEW r \in Result
      PROVE  CallResult(m, Return(m, r), h) /\ Return(m, r).data = m.data
  BY ReturnLemma, ResultCodes, ZenonT(60) DEF CallResult
<1>2. ASSUME f.open
      PROVE  CallResult(m, Return(x, FR_DISK_ERR), h)
             /\ Return(x, FR_DISK_ERR).data = m.data
  <2>1. Kept(m, x, h) /\ x.data = m.data
    BY <1>2, FlushLemma
  <2>2. FR_DISK_ERR \in Result /\ FR_DISK_ERR \in 0..255
    BY ResultCodes DEF Errors
  <2>3. Kept(x, Return(x, FR_DISK_ERR), h) /\ Return(x, FR_DISK_ERR).res = FR_DISK_ERR
        /\ Return(x, FR_DISK_ERR).data = x.data
    BY <2>1, <2>2, ReturnLemma, ZenonT(60) DEF Kept
  <2>4. QED
    BY <2>1, <2>2, <2>3, KeptTrans DEF CallResult
<1>3. ASSUME f.open
      PROVE  CallResult(m, UpdateEntry(x, h), h) /\ UpdateEntry(x, h).data = m.data
  <2> DEFINE u == UpdateEntry(x, h)
             g == x.fil[h]
             e == [x.vol[g.path] EXCEPT !.size = g.size, !.attr = AM_ARC]
             c == [g EXCEPT !.written = FALSE]
  <2>1. Kept(m, x, h) /\ x.data = m.data /\ g = [f EXCEPT !.dirty = FALSE]
    BY <1>3, FlushLemma
  <2>2. MachineOK(x) /\ g.open /\ g \in Fil /\ g.path \in Path
        /\ x.vol[g.path] \in Entry /\ ~g.dirty
    BY <1>3, <2>1, OpenFil DEF Kept, SameFile, Fil
  <2>3. e \in Entry
    BY <2>2 DEF Entry, Fil, Attr
  <2>4. c \in Fil /\ c.open /\ c.path = g.path /\ c.mode = g.mode /\ ~c.dirty
    BY <2>2 DEF Fil
  <2>5. /\ u.vol = [x.vol EXCEPT ![g.path] = e] /\ u.fil = [x.fil EXCEPT ![h] = c]
        /\ u.fresh = {} /\ u.cdir = x.cdir /\ u.drv = x.drv /\ u.last = x.last
        /\ u.data = x.data /\ u.res = FR_OK
    BY <2>2 DEF UpdateEntry, MachineOK, MachineType
  <2> HIDE DEF e, c, u, g
  <2>6. u \in MachineType
    <3>1. FR_OK \in 0..255
      BY ResultCodes
    <3>2. u = [x EXCEPT !.vol[g.path] = e, !.fil[h] = c, !.fresh = {}, !.res = FR_OK]
      BY Zenon DEF UpdateEntry, u, g, e, c
    <3>3. [x.vol EXCEPT ![g.path] = e] \in [Path -> Entry \cup {NoEntry}]
      BY <2>2, <2>3 DEF MachineOK, MachineType
    <3>4. [x.fil EXCEPT ![h] = c] \in [Slots -> Fil]
      BY <2>2, <2>4 DEF MachineOK, MachineType
    <3>5. {} \subseteq Path /\ x \in MachineType
      BY <2>2 DEF MachineOK
    <3> HIDE DEF x
    <3>6. QED
      BY <3>1, <3>2, <3>3, <3>4, <3>5, ZenonT(60) DEF MachineType
  <2>7. \A q \in Path : u.vol[q] = IF q = g.path THEN e ELSE x.vol[q]
    BY <2>2, <2>5 DEF MachineOK, MachineType
  <2>8. \A s \in Slots : u.fil[s] = IF s = h THEN c ELSE x.fil[s]
    BY <2>2, <2>5 DEF MachineOK, MachineType
  <2>9. \A s \in Slots : x.fil[s].path \in Path
    BY <2>2 DEF MachineOK, MachineType, Fil
  <2>10. Sound(u)
    BY <2>2, <2>3, <2>4, <2>7, <2>8, <2>9, NoEntryAssumption DEF MachineOK, Sound
  <2>11. Kept(x, u, h)
    <3>1. MachineOK(u) /\ Frame(x, u, h)
      BY <2>5, <2>6, <2>8, <2>10 DEF MachineOK, Frame
    <3>2. u.fil[h] = c /\ x.fil[h] = g /\ c.open = g.open
      BY <2>2, <2>4, <2>8 DEF g
    <3>3. QED
      BY <2>4, <3>1, <3>2 DEF Kept, SameFile
  <2>12. QED
    BY <2>1, <2>5, <2>11, KeptTrans, ResultCodes DEF CallResult, u
<1>4. QED
  <2>1. \/ \E r \in Result : n = Return(m, r)
        \/ f.open /\ n = Return(x, FR_DISK_ERR)
        \/ f.open /\ n = UpdateEntry(x, h)
    BY DEF f_sync, OrFault, Result
  <2> HIDE DEF f, x
  <2>2. QED
    BY <1>1, <1>2, <1>3, <2>1

\* f_close releases the FIL exactly when it could be synchronised.
LEMMA CloseLemma ==
  ASSUME NEW m, MachineOK(m), NEW h \in Slots, NEW n \in f_close(m, h)
  PROVE  /\ MachineOK(n) /\ Frame(m, n, h) /\ n.data = m.data
         /\ n.res \in Result
<1>1. PICK k \in f_sync(m, h) :
         n = IF k.res = FR_OK THEN [k EXCEPT !.fil[h] = Closed] ELSE k
  BY DEF f_close
<1>2. CallResult(m, k, h) /\ k.data = m.data
  BY SyncLemma
<1>3. CASE k.res = FR_OK
  <2>1. n = SetFil(k, h, Closed, k.res)
    BY <1>1, <1>2, <1>3 DEF SetFil, CallResult, Kept, MachineOK, MachineType
  <2>2. FilOK(k, Closed) /\ k.res \in 0..255
    BY <1>2, ClosedType, ResultCodes DEF FilOK, CallResult
  <2>3. Replaced(k, n, h, Closed, k.res)
    BY <1>2, <2>1, <2>2, SetFilLemma DEF CallResult, Kept
  <2>4. QED
    BY <1>2, <2>3 DEF Replaced, CallResult, Kept, Frame
<1>4. CASE k.res # FR_OK
  BY <1>1, <1>2, <1>4 DEF CallResult, Kept
<1>5. QED
  BY <1>3, <1>4

LEMMA SetDataLemma ==
  ASSUME NEW m, MachineOK(m), NEW v \in Value \cup {Alien}
  PROVE  LET n == SetData(m, v) IN
         /\ MachineOK(n) /\ \A h \in Slots : Kept(m, n, h)
         /\ n.fil = m.fil /\ n.res = m.res /\ n.data = v /\ n.vol = m.vol
<1> DEFINE n == SetData(m, v)
<1>1. /\ n.vol = m.vol /\ n.fresh = m.fresh /\ n.cdir = m.cdir
      /\ n.drv = m.drv /\ n.last = m.last /\ n.data = v
      /\ n.fil = m.fil /\ n.res = m.res
  BY DEF SetData, MachineOK, MachineType
<1>2. n \in MachineType
  BY DEF SetData, MachineOK, MachineType
<1>3. QED
  BY <1>1, <1>2 DEF Kept, MachineOK, Sound, Frame, SameFile

LEMMA LoadBufLemma ==
  ASSUME NEW m, MachineOK(m), NEW h \in Slots, m.fil[h].open, NEW s \in Sectors
  PROVE  LET n == LoadBuf(m, h, s) IN
         Kept(m, n, h) /\ n.data = m.data
<1> DEFINE f == m.fil[h]
           x == FlushBuf(m, h)
           g == [x.fil[h] EXCEPT !.buf = s, !.val = x.vol[f.path].blk[s]]
           n == LoadBuf(m, h, s)
<1>1. Kept(m, x, h) /\ x.data = m.data /\ x.fil[h] = [f EXCEPT !.dirty = FALSE]
  BY FlushLemma
<1>2. CASE f.buf = s
  BY <1>1, <1>2 DEF LoadBuf
<1>3. CASE f.buf # s
  <2>1. n = SetFil(x, h, g, FR_OK)
    BY <1>3 DEF LoadBuf
  <2>2. MachineOK(x) /\ x.fil[h].open /\ x.fil[h].path = f.path /\ ~x.fil[h].dirty
    BY <1>1, OpenFil DEF Kept, SameFile, Fil
  <2>3. x.fil[h] \in Fil /\ f.path \in Path /\ x.vol[f.path] \in Entry
        /\ x.vol[f.path] # NoEntry
    BY <2>2, OpenFil
  <2>4. x.vol[f.path].blk[s] \in Value
    BY <2>3, SMTT(30) DEF Entry
  <2>5. /\ g \in Fil /\ g.open /\ g.path = f.path /\ g.mode = x.fil[h].mode /\ ~g.dirty
    BY <2>2, <2>3, <2>4 DEF Fil
  <2>6. FilOK(x, g)
    BY <2>3, <2>5 DEF FilOK
  <2> HIDE DEF g, x
  <2>7. Replaced(x, n, h, g, FR_OK)
    BY <2>1, <2>2, <2>6, SetFilLemma, ResultCodes
  <2>8. Kept(x, n, h) /\ n.data = x.data
    BY <2>2, <2>5, <2>7 DEF Replaced, Kept, SameFile
  <2>9. QED
    BY <1>1, <2>8, KeptTrans
<1>4. QED
  BY <1>2, <1>3

\* A call on an open FIL that changes only members that do not matter here.
LEMMA TouchLemma ==
  ASSUME NEW m, MachineOK(m), NEW h \in Slots, m.fil[h].open,
         NEW g \in Fil, g.open, g.path = m.fil[h].path, g.mode = m.fil[h].mode,
         g.dirty => g.written /\ g.buf # NoSector, NEW r \in Result
  PROVE  CallResult(m, SetFil(m, h, g, r), h) /\ SetFil(m, h, g, r).data = m.data
         /\ SetFil(m, h, g, r).res = r
<1>1. FilOK(m, g)
  BY OpenFil DEF FilOK
<1>2. Replaced(m, SetFil(m, h, g, r), h, g, r)
  BY <1>1, SetFilLemma, ResultCodes
<1>3. QED
  BY <1>2 DEF Replaced, CallResult, Kept, SameFile

LEMMA RefusalLemma ==
  ASSUME NEW f, NEW allowed \in BOOLEAN
  PROVE  /\ Refusal(f, allowed) \in Result
         /\ Refusal(f, allowed) = FR_OK => f.open
  BY DEF Refusal, Result, FR_OK, FR_DENIED, FR_INT_ERR, FR_INVALID_OBJECT

LEMMA AbortedResult ==
  ASSUME NEW m, MachineOK(m), NEW h \in Slots, m.fil[h].open
  PROVE  CallResult(m, Aborted(m, h), h) /\ CallResult(m, Aborted(FlushBuf(m, h), h), h)
         /\ Aborted(FlushBuf(m, h), h).data = m.data
<1>1. FR_DISK_ERR \in Result
  BY DEF Result
<1>2. CallResult(m, Aborted(m, h), h)
  BY <1>1, AbortLemma DEF CallResult
<1> DEFINE x == FlushBuf(m, h)
<1>3. Kept(m, x, h) /\ x.data = m.data
  BY FlushLemma
<1>4. MachineOK(x) /\ x.fil[h].open
  BY <1>3 DEF Kept, SameFile
<1>5. Kept(x, Aborted(x, h), h) /\ Aborted(x, h).res = FR_DISK_ERR
      /\ Aborted(x, h).data = x.data
  BY <1>4, AbortLemma
<1>6. QED
  BY <1>1, <1>2, <1>3, <1>5, KeptTrans DEF CallResult

LEMMA ReadLemma ==
  ASSUME NEW m, MachineOK(m), NEW h \in Slots, NEW n \in f_read(m, h)
  PROVE  CallResult(m, n, h)
<1> DEFINE f == m.fil[h]
           no == Refusal(f, CanRead(f))
           x == LoadBuf(m, h, f.fptr)
           g == [x.fil[h] EXCEPT !.fptr = f.fptr + 1]
<1>1. ASSUME NEW r \in Result
      PROVE  CallResult(m, Return(m, r), h)
  BY ReturnLemma, ResultCodes, ZenonT(60) DEF CallResult
<1>2. CanRead(f) \in BOOLEAN
  BY DEF CanRead
<1>3. CASE no # FR_OK \/ (no = FR_OK /\ f.fptr >= f.size)
  <2>1. n = Return(m, no) \/ n = Return(m, FR_OK)
    BY <1>3 DEF f_read
  <2>2. no \in Result /\ FR_OK \in Result
    BY <1>2, RefusalLemma, ResultCodes
  <2>3. QED
    BY <1>1, <2>1, <2>2
<1>4. CASE no = FR_OK /\ ~(f.fptr >= f.size)
  <2>1. f.open
    BY <1>2, <1>4, RefusalLemma
  <2>2. f.fptr \in Sectors /\ f.fptr + 1 \in 0..Capacity
    BY <1>4, <2>1, OpenFil, CapacityAssumption DEF Fil, Sectors
  <2>3. Kept(m, x, h)
    BY <2>1, <2>2, LoadBufLemma
  <2>4. MachineOK(x) /\ x.fil[h].open
    BY <2>1, <2>3 DEF Kept, SameFile
  <2>5. x.fil[h] \in Fil /\ x.fil[h].val \in Value
    BY <2>4, OpenFil
  <2>6. /\ g \in Fil /\ g.open /\ g.path = x.fil[h].path /\ g.mode = x.fil[h].mode
        /\ g.dirty => g.written /\ g.buf # NoSector
    <3>1. /\ g \in Fil /\ g.open /\ g.path = x.fil[h].path /\ g.mode = x.fil[h].mode
          /\ g.dirty = x.fil[h].dirty /\ g.written = x.fil[h].written
          /\ g.buf = x.fil[h].buf
      BY <2>2, <2>4, <2>5 DEF Fil
    <3>2. QED
      BY <2>4, <3>1, ZenonT(60) DEF MachineOK, Sound
  <2> DEFINE y == SetFil(x, h, g, FR_OK)
             z == SetData(y, x.fil[h].val)
  <2>7. n = z \/ n = Aborted(m, h) \/ n = Aborted(FlushBuf(m, h), h)
    BY <1>4 DEF f_read, OrFault
  <2> HIDE DEF x, g
  <2>8. CallResult(x, y, h) /\ y.res = FR_OK
    BY <2>4, <2>6, TouchLemma, ResultCodes
  <2>9. Kept(y, z, h) /\ z.res = FR_OK
    BY <2>5, <2>8, SetDataLemma DEF CallResult, Kept
  <2>10. CallResult(m, z, h)
    BY <2>3, <2>8, <2>9, KeptTrans, ResultCodes DEF CallResult
  <2>11. QED
    BY <2>1, <2>7, <2>10, AbortedResult
<1>5. QED
  BY <1>3, <1>4

LEMMA WriteLemma ==
  ASSUME NEW m, MachineOK(m), NEW h \in Slots, NEW v \in Value,
         NEW n \in f_write(m, h, v)
  PROVE  CallResult(m, n, h) /\ n.data = m.data
<1> DEFINE f == m.fil[h]
           no == Refusal(f, CanWrite(f))
           x == FlushBuf(m, h)
           g == [f EXCEPT !.buf = f.fptr, !.val = v, !.dirty = TRUE,
                          !.fptr = f.fptr + 1,
                          !.size = Larger(f.size, f.fptr + 1), !.written = TRUE]
           c == [f EXCEPT !.written = TRUE]
<1>1. CanWrite(f) \in BOOLEAN
  BY DEF CanWrite
<1>2. no \in Result
  BY <1>1, RefusalLemma
<1>3. CASE no # FR_OK
  <2>1. n = Return(m, no)
    BY <1>3 DEF f_write
  <2>2. QED
    BY <1>2, <2>1, ReturnLemma, ResultCodes, ZenonT(60) DEF CallResult
<1>4. CASE no = FR_OK /\ f.fptr >= Capacity
  <2>1. f.open
    BY <1>1, <1>4, RefusalLemma
  <2>2. /\ c \in Fil /\ c.open /\ c.path = f.path /\ c.mode = f.mode
        /\ c.dirty = f.dirty /\ c.written /\ c.buf = f.buf
    BY <2>1, OpenFil, ZenonT(60) DEF Fil
  <2>3. n = SetFil(m, h, c, FR_OK)
    BY <1>4 DEF f_write
  <2>4. c.dirty => c.written /\ c.buf # NoSector
    BY <2>1, <2>2 DEF MachineOK, Sound
  <2> HIDE DEF c
  <2>5. QED
    BY <2>1, <2>2, <2>3, <2>4, TouchLemma, ResultCodes
<1>5. CASE no = FR_OK /\ ~(f.fptr >= Capacity)
  <2>1. f.open
    BY <1>1, <1>5, RefusalLemma
  <2>2. f.fptr \in Sectors /\ f.fptr + 1 \in 0..Capacity /\ f.size \in 0..Capacity
    BY <1>5, <2>1, OpenFil, CapacityAssumption DEF Fil, Sectors
  <2>3. Larger(f.size, f.fptr + 1) \in 0..Capacity
    BY <2>2 DEF Larger
  <2>4. f.fptr # NoSector
    BY <2>2, CapacityAssumption DEF Sectors, NoSector
  <2>5. Kept(m, x, h) /\ x.data = m.data
    BY <2>1, FlushLemma
  <2>6. /\ g \in Fil /\ g.open /\ g.path = f.path /\ g.mode = f.mode
        /\ g.written /\ g.buf # NoSector
    <3>1. f \in Fil /\ f.open
      BY <2>1, OpenFil
    <3>2. f.fptr \in Sectors \cup {NoSector}
      BY <2>2
    <3> DEFINE at == f.fptr + 1
               len == Larger(f.size, at)
    <3>3. at \in 0..Capacity /\ len \in 0..Capacity
      BY <2>2, <2>3
    <3> HIDE DEF at, len
    <3>4. g = [f EXCEPT !.buf = f.fptr, !.val = v, !.dirty = TRUE, !.fptr = at,
                        !.size = len, !.written = TRUE]
      BY DEF at, len
    <3>5. QED
      BY <2>4, <3>1, <3>2, <3>3, <3>4, ZenonT(60) DEF Fil
  <2>7. n = SetFil(x, h, g, FR_OK) \/ n = Aborted(m, h) \/ n = Aborted(x, h)
    BY <1>5 DEF f_write, OrFault
  <2> HIDE DEF g
  <2>8. MachineOK(x) /\ x.fil[h].open /\ g.path = x.fil[h].path /\ g.mode = x.fil[h].mode
    BY <2>1, <2>5, <2>6 DEF Kept, SameFile
  <2> DEFINE y == SetFil(x, h, g, FR_OK)
  <2> HIDE DEF x
  <2>9. CallResult(x, y, h) /\ y.data = x.data
    BY <2>6, <2>8, TouchLemma, ResultCodes
  <2>10. CallResult(m, y, h) /\ y.data = m.data
    BY <2>5, <2>9, KeptTrans DEF CallResult
  <2>11. QED
    BY <2>1, <2>7, <2>10, AbortedResult, AbortLemma DEF x
<1>6. QED
  BY <1>3, <1>4, <1>5

LEMMA SeekLemma ==
  ASSUME NEW m, MachineOK(m), NEW h \in Slots, NEW ofs \in Nat,
         NEW n \in f_lseek(m, h, ofs)
  PROVE  CallResult(m, n, h) /\ n.data = m.data /\ (n.res = FR_OK => m.fil[h].open)
<1> DEFINE f == m.fil[h]
           no == Refusal(f, TRUE)
           to == SeekTo(f, ofs)
           g == [f EXCEPT !.fptr = to, !.size = Larger(f.size, to),
                          !.written = @ \/ to > f.size]
<1>1. no \in Result
  BY RefusalLemma
<1>2. CASE no # FR_OK
  <2>1. n = Return(m, no)
    BY <1>2 DEF f_lseek
  <2>2. QED
    BY <1>1, <1>2, <2>1, ReturnLemma, ResultCodes, ZenonT(60) DEF CallResult
<1>3. CASE no = FR_OK
  <2>1. f.open
    BY <1>3, RefusalLemma
  <2>2. f \in Fil /\ f.size \in 0..Capacity
    BY <2>1, OpenFil DEF Fil
  <2>3. to \in 0..Capacity
    BY <2>2, CapacityAssumption DEF SeekTo
  <2>4. Larger(f.size, to) \in 0..Capacity
    BY <2>2, <2>3 DEF Larger
  <2>5. /\ g \in Fil /\ g.open /\ g.path = f.path /\ g.mode = f.mode
        /\ g.dirty = f.dirty /\ g.buf = f.buf /\ (f.written => g.written)
    BY <2>1, <2>2, <2>3, <2>4 DEF Fil
  <2>6. n = SetFil(m, h, g, FR_OK) \/ n = Aborted(m, h)
    BY <1>3 DEF f_lseek, OrFault
  <2>7. g.dirty => g.written /\ g.buf # NoSector
    BY <2>1, <2>5 DEF MachineOK, Sound
  <2> HIDE DEF g
  <2>8. QED
    BY <2>1, <2>5, <2>6, <2>7, TouchLemma, AbortedResult, AbortLemma, ResultCodes
<1>4. QED
  BY <1>2, <1>3

----------------------------------------------------------------------------
(* The drive operators *)

\* The selected drive's own file is in fildata[3].
Backed(m) ==
    m.last # NoDrive /\ m.drv[m.last].attribs # Unset =>
        /\ m.fil[3].open
        /\ m.fil[3].path = <<m.cdir, m.drv[m.last].name>>
        /\ m.fil[3].mode = "both"

\* Only fildata[3] and the selection differ; the selection stays sound.
Selects(m, n) ==
    /\ MachineOK(n)
    /\ n.cdir = m.cdir
    /\ n.data = m.data
    /\ \A g \in Slots \ {3} : n.fil[g] = m.fil[g]
    /\ Backed(m) => Backed(n)

LEMMA SlotFacts == /\ SDDOS_FILE = 3 /\ 0 \in Slots /\ 3 \in Slots
                   /\ Slots = {0, 1, 2, 3} /\ Drives = {0, 1, 2, 3}
                   /\ NoDrive \notin Drives
  BY DEF SDDOS_FILE, Slots, Drives, NoDrive

LEMMA SelectLemma ==
  ASSUME NEW m, MachineOK(m), NEW d \in Drives \cup {NoDrive}
  PROVE  LET n == [m EXCEPT !.last = d] IN
         /\ MachineOK(n) /\ n.fil = m.fil /\ n.cdir = m.cdir /\ n.drv = m.drv
         /\ n.data = m.data /\ n.res = m.res /\ n.last = d /\ n.vol = m.vol
  BY DEF MachineOK, MachineType, Sound

\* n is m with result r.
OnlyResult(m, n, r) ==
    /\ MachineOK(n) /\ n.fil = m.fil /\ n.cdir = m.cdir /\ n.drv = m.drv
    /\ n.data = m.data /\ n.last = m.last /\ n.res = r /\ n.vol = m.vol

LEMMA ReturnSame ==
  ASSUME NEW m, MachineOK(m), NEW r \in 0..255
  PROVE  OnlyResult(m, Return(m, r), r)
  BY DEF OnlyResult, Return, MachineOK, MachineType, Sound

\* switchDrive leaves the table alone, and fildata[3] with the file of drive d
\* when it had to open it.
LEMMA SwitchLemma ==
  ASSUME NEW m, MachineOK(m), NEW d \in Drives, NEW n \in switchDrive(m, d)
  PROVE  /\ Selects(m, n) /\ n.drv = m.drv /\ n.res \in Result
         /\ n.res = FR_OK => n.last = d
         /\ n.res = FR_OK /\ d # m.last =>
               n.fil[3].open /\ n.fil[3].path \in Path
<1>1. CASE d = m.last
  <2>1. n = Return(m, FR_OK)
    BY <1>1 DEF switchDrive
  <2>2. FR_OK \in 0..255
    BY ResultCodes
  <2>3. OnlyResult(m, n, FR_OK)
    BY <2>1, <2>2, ReturnSame
  <2>4. Selects(m, n)
    BY <2>3 DEF OnlyResult, Selects, Backed
  <2>5. FR_OK \in Result
    BY ResultCodes
  <2>6. QED
    BY <1>1, <2>3, <2>4, <2>5 DEF OnlyResult
<1>2. CASE d # m.last
  <2> DEFINE k == [m EXCEPT !.last = NoDrive]
             name == m.drv[d].name
             p == <<m.cdir, name>>
  <2>1. PICK c \in (IF m.last # NoDrive THEN f_close(m, SDDOS_FILE) ELSE {m}) :
          \E o \in f_open([c EXCEPT !.last = NoDrive], SDDOS_FILE, p,
                          "both", "existing") :
             n = IF o.res = FR_OK THEN [o EXCEPT !.last = d] ELSE o
    BY <1>2 DEF switchDrive
  <2>2. MachineOK(c) /\ Frame(m, c, 3) /\ c.data = m.data
    BY <2>1, CloseLemma, SlotFacts DEF Frame
  <2> DEFINE x == [c EXCEPT !.last = NoDrive]
  <2>3. /\ MachineOK(x) /\ x.fil = c.fil /\ x.cdir = m.cdir /\ x.drv = m.drv
        /\ x.data = m.data /\ x.last = NoDrive
    BY <2>2, SelectLemma DEF Frame
  <2> HIDE DEF x, p
  <2>4. PICK o \in f_open(x, 3, p, "both", "existing") :
             n = IF o.res = FR_OK THEN [o EXCEPT !.last = d] ELSE o
    BY <2>1, SlotFacts DEF x
  <2>5. OpenResult(x, o, 3, p, "both")
    BY <2>3, <2>4, OpenLemma, SlotFacts
  <2>6. \A g \in Slots \ {3} : o.fil[g] = m.fil[g]
    BY <2>2, <2>3, <2>5 DEF OpenResult, Frame
  <2>7. CASE o.res = FR_OK
    <3>1. /\ MachineOK(n) /\ n.fil = o.fil /\ n.cdir = o.cdir /\ n.drv = o.drv
          /\ n.data = o.data /\ n.last = d /\ n.res = o.res
      BY <2>4, <2>5, <2>7, SelectLemma DEF OpenResult
    <3>2. QED
      BY <2>3, <2>5, <2>6, <2>7, <3>1 DEF OpenResult, Frame, Selects, Backed, p
  <2>8. CASE o.res # FR_OK
    BY <2>3, <2>4, <2>5, <2>6, <2>8 DEF OpenResult, Frame, Selects, Backed
  <2>9. QED
    BY <2>7, <2>8
<1>3. QED
  BY <1>1, <1>2

\* Changing one drive of the table.
LEMMA SetDriveLemma ==
  ASSUME NEW m, MachineOK(m), NEW d \in Drives, NEW info \in ImgInfo
  PROVE  LET n == SetDrive(m, d, info) IN
         /\ MachineOK(n) /\ n.cdir = m.cdir /\ n.data = m.data /\ n.fil = m.fil
         /\ n.res = m.res /\ n.last = m.last /\ n.drv[d] = info
         /\ \A i \in Drives \ {d} : n.drv[i] = m.drv[i]
  BY DEF SetDrive, MachineOK, MachineType, Sound, DriveTable

LEMMA DriveType ==
  ASSUME NEW m, MachineOK(m), NEW d \in Drives
  PROVE  /\ m.drv[d] \in ImgInfo /\ Unused \in ImgInfo /\ Unused.attribs = Unset
         /\ \A a \in StrayAttr : [m.drv[d] EXCEPT !.attribs = a] \in ImgInfo
         /\ m.drv \in Value
  BY SMTT(30) DEF MachineOK, MachineType, DriveTable, ImgInfo, Unused, StrayAttr, Value

LEMMA CompleteByte ==
  ASSUME NEW x \in 0..255
  PROVE  Complete(x) \in 0..255
  BY DEF Complete, STATUS_COMPLETE

LEMMA StatusLemma ==
  /\ STATUS_COMPLETE + ERROR_ALREADY_MOUNT \in 0..255
  /\ STATUS_OK \in 0..255 /\ STATUS_EOF \in 0..255 /\ STATUS_BUSY \in 0..255
  /\ Complete(ERROR_INVALID_DRIVE) \in 0..255 /\ Complete(ERROR_READ_ONLY) \in 0..255
  /\ Complete(ERROR_TOO_MANY_OPEN) \in 0..255
  BY DEF Complete, STATUS_COMPLETE, Result, ERROR_ALREADY_MOUNT, STATUS_OK,
         STATUS_EOF, STATUS_BUSY, ERROR_INVALID_DRIVE, ERROR_READ_ONLY,
         ERROR_TOO_MANY_OPEN, FR_OK, FR_DISK_ERR, FR_INT_ERR, FR_NO_FILE,
         FR_INVALID_NAME, FR_DENIED, FR_EXIST, FR_INVALID_OBJECT

LEMMA StatusOf ==
  ASSUME NEW r \in Result
  PROVE  Complete(r) \in 0..255 /\ r \in 0..255
<1>1. r \in 0..255
  BY ResultCodes
<1>2. QED
  BY <1>1, CompleteByte

\* Only drive d of the table may differ, and it keeps its name unless unused.
TableKept(m, n, d) ==
    /\ \A i \in Drives \ {d} : n.drv[i] = m.drv[i]
    /\ n.drv[d].attribs # Unset => /\ m.drv[d].attribs # Unset
                                  /\ n.drv[d].name = m.drv[d].name

\* What tryOpenImage promises: it may change the attributes of drive d.
LEMMA TryLemma ==
  ASSUME NEW m, MachineOK(m), NEW d \in Drives, NEW n \in tryOpenImage(m, d),
         m.drv[d].attribs # Unset
  PROVE  /\ Selects(m, n) /\ TableKept(m, n, d) /\ n.res \in 0..255
<1>1. PICK x \in switchDrive(m, d) :
         n \in (IF x.res # FR_OK THEN {Return(x, Complete(x.res))}
                ELSE IF SameImage(x, d)
                THEN {Return(x, STATUS_COMPLETE + ERROR_ALREADY_MOUNT)}
                ELSE {Return([x EXCEPT !.drv[d].attribs = a], a) :
                         a \in FoundAttr(m, d, x)})
  BY DEF tryOpenImage
<1>2. /\ Selects(m, x) /\ x.drv = m.drv /\ x.res \in Result
      /\ x.res = FR_OK => x.last = d
      /\ x.res = FR_OK /\ d # m.last => x.fil[3].open /\ x.fil[3].path \in Path
  BY SwitchLemma
<1>3. ASSUME NEW r \in 0..255, n = Return(x, r)
      PROVE  Selects(m, n) /\ TableKept(m, n, d) /\ n.res \in 0..255
  <2>1. MachineOK(x)
    BY <1>2 DEF Selects
  <2>2. OnlyResult(x, n, r)
    BY <1>3, <2>1, ReturnSame
  <2>3. QED
    BY <1>2, <2>2 DEF OnlyResult, Selects, Backed, TableKept
<1>4. ASSUME NEW a \in FoundAttr(m, d, x), x.res = FR_OK,
             n = Return([x EXCEPT !.drv[d].attribs = a], a)
      PROVE  Selects(m, n) /\ TableKept(m, n, d) /\ n.res \in 0..255
  <2>1. a \in StrayAttr
    <3>1. CASE d = m.last
      BY <3>1 DEF FoundAttr
    <3>2. CASE d # m.last
      <4>1. x.vol[x.fil[3].path] \in Entry
        BY <1>2, <1>4, <3>2, SlotFacts, OpenFil DEF Selects
      <4>2. a = x.vol[x.fil[3].path].attr
        BY <3>2, <1>4, SlotFacts DEF FoundAttr
      <4>3. QED
        BY <4>1, <4>2 DEF Entry, StrayAttr
    <3>3. QED
      BY <3>1, <3>2
  <2>2. a \in 0..255
    BY <2>1 DEF StrayAttr, Attr, Unset, NoAttr, AM_RDO, AM_ARC
  <2> DEFINE info == [x.drv[d] EXCEPT !.attribs = a]
             y == SetDrive(x, d, info)
  <2>3. info \in ImgInfo
    BY <1>2, <2>1, DriveType DEF Selects
  <2>4. info.name = x.drv[d].name /\ info.attribs = a
    BY <1>2 DEF Selects, MachineOK, MachineType, DriveTable, ImgInfo
  <2>5. [x EXCEPT !.drv[d].attribs = a] = y
    BY DEF SetDrive
  <2> HIDE DEF info
  <2>6. /\ MachineOK(y) /\ y.cdir = x.cdir /\ y.data = x.data /\ y.fil = x.fil
        /\ y.last = x.last /\ y.drv[d] = info
        /\ \A i \in Drives \ {d} : y.drv[i] = x.drv[i]
    BY <1>2, <2>3, SetDriveLemma DEF Selects
  <2> HIDE DEF y
  <2>7. OnlyResult(y, n, a)
    BY <1>4, <2>2, <2>5, <2>6, ReturnSame, SMTT(30)
  <2>8. TableKept(m, n, d)
    BY <1>2, <2>4, <2>6, <2>7 DEF TableKept, OnlyResult
  <2>9. Backed(x) => Backed(n)
    <3>1. /\ n.last = x.last /\ n.fil = x.fil /\ n.cdir = x.cdir
          /\ n.drv[d].name = x.drv[d].name
          /\ \A i \in Drives \ {d} : n.drv[i] = x.drv[i]
      BY <2>4, <2>6, <2>7 DEF OnlyResult
    <3>2. x.last \in Drives \cup {NoDrive} /\ x.drv[d].attribs # Unset
      BY <1>2 DEF Selects, MachineOK, MachineType
    <3>3. QED
      BY <3>1, <3>2 DEF Backed
  <2>10. QED
    BY <1>2, <2>2, <2>6, <2>7, <2>8, <2>9 DEF Selects, OnlyResult
<1>5. QED
  <2>1. \/ n = Return(x, Complete(x.res))
        \/ n = Return(x, STATUS_COMPLETE + ERROR_ALREADY_MOUNT)
        \/ x.res = FR_OK /\ \E a \in FoundAttr(m, d, x) :
               n = Return([x EXCEPT !.drv[d].attribs = a], a)
    BY <1>1
  <2>2. Complete(x.res) \in 0..255
    BY <1>2, StatusOf
  <2>3. STATUS_COMPLETE + ERROR_ALREADY_MOUNT \in 0..255
    BY StatusLemma, SMTT(30)
  <2>4. CASE \E r \in 0..255 : n = Return(x, r)
    BY <1>3, <2>4, ZenonT(60)
  <2>5. CASE x.res = FR_OK /\ \E a \in FoundAttr(m, d, x) :
               n = Return([x EXCEPT !.drv[d].attribs = a], a)
    BY <1>4, <2>5
  <2>6. QED
    BY <2>1, <2>2, <2>3, <2>4, <2>5, ZenonT(60)

\* A call on fildata[0] that goes through the data buffer.
ThroughScratch(m, n) ==
    /\ MachineOK(n)
    /\ n.cdir = m.cdir /\ n.last = m.last
    /\ \A g \in Slots \ {0} : n.fil[g] = m.fil[g]

LEMMA CfgPath ==
  ASSUME NEW m, MachineOK(m)
  PROVE  <<m.cdir, CfgName>> \in Path
  BY DEF MachineOK, MachineType, Path, Names

LEMMA SaveLemma ==
  ASSUME NEW m, MachineOK(m), NEW n \in saveDrivesImpl(m)
  PROVE  ThroughScratch(m, n) /\ n.drv = m.drv
<1> DEFINE x == SetData(m, Alien)
           p == <<m.cdir, CfgName>>
<1>1. MachineOK(x) /\ Kept(m, x, 0)
  BY SetDataLemma, SlotFacts
<1> HIDE DEF x, p
<1>2. PICK o \in f_open(x, 0, p, "write", "always") :
         n \in (IF o.res # FR_OK THEN {o}
                ELSE UNION {f_close(w, 0) : w \in f_write(o, 0, o.drv)})
  BY DEF saveDrivesImpl, x, p
<1>3. OpenResult(x, o, 0, p, "write")
  BY <1>1, <1>2, OpenLemma, SlotFacts
<1>4. CASE o.res # FR_OK
  BY <1>1, <1>2, <1>3, <1>4 DEF OpenResult, Kept, Frame, ThroughScratch
<1>5. CASE o.res = FR_OK
  <2>1. PICK w \in f_write(o, 0, o.drv) : n \in f_close(w, 0)
    BY <1>2, <1>5
  <2>2. o.drv \in Value /\ MachineOK(o)
    BY <1>3, DriveType, SlotFacts DEF OpenResult
  <2>3. CallResult(o, w, 0)
    BY <2>1, <2>2, WriteLemma, SlotFacts
  <2>4. MachineOK(n) /\ Frame(w, n, 0)
    BY <2>1, <2>3, CloseLemma, SlotFacts DEF CallResult, Kept
  <2>5. QED
    BY <1>1, <1>3, <2>3, <2>4 DEF OpenResult, CallResult, Kept, Frame, ThroughScratch
<1>6. QED
  BY <1>4, <1>5

LEMMA SetTableLemma ==
  ASSUME NEW m, MachineOK(m), NEW t \in DriveTable, NEW v \in Value \cup {Alien}
  PROVE  LET n == [m EXCEPT !.drv = t, !.data = v] IN ThroughScratch(m, n)
  BY ZenonT(60) DEF ThroughScratch, MachineOK, MachineType, Sound

LEMMA LoadLemma ==
  ASSUME NEW m, MachineOK(m), NEW n \in loadDrives(m)
  PROVE  ThroughScratch(m, n)
<1> DEFINE x == SetData(m, Alien)
           p == <<m.cdir, CfgName>>
           none == [d \in Drives |-> Unused]
<1>1. MachineOK(x) /\ Kept(m, x, 0)
  BY SetDataLemma, SlotFacts
<1> HIDE DEF x, p
<1>2. PICK o \in f_open(x, 0, p, "read", "existing") :
         n \in (IF o.res # FR_OK THEN {[o EXCEPT !.drv = none]}
                ELSE UNION {UNION {f_close(l, 0) : l \in Overlaid(o, r)} :
                            r \in f_read(o, 0)})
  BY DEF loadDrives, x, p
<1>3. OpenResult(x, o, 0, p, "read")
  BY <1>1, <1>2, OpenLemma, SlotFacts
<1>4. ThroughScratch(m, o)
  BY <1>1, <1>3 DEF OpenResult, Kept, Frame, ThroughScratch
<1>5. CASE o.res # FR_OK
  <2>1. none \in DriveTable
    BY DEF DriveTable, ImgInfo, Unused
  <2>2. o.data \in Value \cup {Alien} /\ MachineOK(o)
    BY <1>4 DEF ThroughScratch, MachineOK, MachineType
  <2>3. n = [o EXCEPT !.drv = none, !.data = o.data]
    BY <1>2, <1>5, <2>2, ZenonT(60) DEF MachineOK, MachineType
  <2> HIDE DEF none
  <2>4. ThroughScratch(o, n)
    BY <2>1, <2>2, <2>3, SetTableLemma
  <2>5. QED
    BY <1>4, <2>4 DEF ThroughScratch
<1>6. CASE o.res = FR_OK
  <2>0. PICK r \in f_read(o, 0) : \E l \in Overlaid(o, r) : n \in f_close(l, 0)
    BY <1>2, <1>6
  <2>1. PICK l \in Overlaid(o, r) : n \in f_close(l, 0)
    BY <2>0
  <2>2. CallResult(o, r, 0)
    BY <1>4, ReadLemma, SlotFacts DEF ThroughScratch
  <2>3. MachineOK(r) /\ ThroughScratch(m, r)
    BY <1>4, <2>2 DEF CallResult, Kept, Frame, ThroughScratch
  <2>4. ThroughScratch(r, l)
    <3>1. CASE l = r
      BY <2>3, <3>1 DEF ThroughScratch
    <3>2. ASSUME NEW t \in TablesIn(r.data), l = [r EXCEPT !.drv = t, !.data = Alien]
          PROVE  ThroughScratch(r, l)
      BY <2>3, <3>2, SetTableLemma DEF TablesIn
    <3>3. QED
      BY <2>1, <3>1, <3>2 DEF Overlaid
  <2>5. MachineOK(n) /\ Frame(l, n, 0)
    BY <2>1, <2>4, CloseLemma, SlotFacts DEF ThroughScratch
  <2>6. QED
    BY <2>3, <2>4, <2>5 DEF Frame, ThroughScratch
<1>7. QED
  BY <1>5, <1>6

\* What the rounds of ValidateSDDOSDrives keep.
Validated(m, n) == MachineOK(n) /\ n.cdir = m.cdir /\ (Backed(m) => Backed(n))

LEMMA UnusedLemma ==
  ASSUME NEW m, MachineOK(m), NEW d \in Drives
  PROVE  LET n == SetDrive(m, d, Unused) IN
         Selects(m, n) /\ TableKept(m, n, d) /\ n.res = m.res
<1> DEFINE n == SetDrive(m, d, Unused)
<1>1. Unused \in ImgInfo /\ Unused.attribs = Unset
  BY DriveType
<1>2. /\ MachineOK(n) /\ n.cdir = m.cdir /\ n.data = m.data /\ n.fil = m.fil
      /\ n.res = m.res /\ n.last = m.last /\ n.drv[d] = Unused
      /\ \A i \in Drives \ {d} : n.drv[i] = m.drv[i]
  BY <1>1, SetDriveLemma
<1> HIDE DEF n
<1>3. m.last \in Drives \cup {NoDrive}
  BY DEF MachineOK, MachineType
<1>4. Backed(m) => Backed(n)
  BY <1>1, <1>2, <1>3 DEF Backed
<1>5. QED
  BY <1>1, <1>2, <1>4 DEF Selects, TableKept, n

LEMMA ValidateLemma ==
  ASSUME NEW m, MachineOK(m), NEW d \in Drives, NEW n \in ValidateDrive(m, d)
  PROVE  Validated(m, n)
<1>1. CASE m.drv[d].attribs = Unset
  <2>1. n = SetDrive(m, d, Unused)
    BY <1>1 DEF ValidateDrive
  <2>2. QED
    BY <2>1, UnusedLemma DEF Selects, Validated
<1>2. CASE m.drv[d].attribs # Unset
  <2>1. PICK t \in tryOpenImage(m, d) :
           n = IF t.res >= STATUS_COMPLETE THEN SetDrive(t, d, Unused) ELSE t
    BY <1>2 DEF ValidateDrive
  <2>2. Selects(m, t)
    BY <1>2, <2>1, TryLemma
  <2>3. Selects(t, SetDrive(t, d, Unused))
    BY <2>2, UnusedLemma DEF Selects
  <2>4. QED
    BY <2>1, <2>2, <2>3 DEF Selects, Validated
<1>3. QED
  BY <1>1, <1>2

LEMMA ValidateAllLemma ==
  ASSUME NEW m, MachineOK(m), NEW n \in ValidateAll(m)
  PROVE  Validated(m, n)
<1>1. PICK m1 \in ValidateDrive(m, 0) :
         \E m2 \in ValidateDrive(m1, 1) : \E m3 \in ValidateDrive(m2, 2) :
             n \in ValidateDrive(m3, 3)
  BY DEF ValidateAll
<1>2. Validated(m, m1)
  BY <1>1, ValidateLemma, SlotFacts
<1>3. PICK m2 \in ValidateDrive(m1, 1) : \E m3 \in ValidateDrive(m2, 2) :
         n \in ValidateDrive(m3, 3)
  BY <1>1
<1>4. PICK m3 \in ValidateDrive(m2, 2) : n \in ValidateDrive(m3, 3)
  BY <1>3
<1>5. Validated(m1, m2)
  BY <1>3, <1>2, ValidateLemma, SlotFacts DEF Validated
<1>6. Validated(m2, m3)
  BY <1>4, <1>5, ValidateLemma, SlotFacts DEF Validated
<1>7. Validated(m3, n)
  BY <1>4, <1>6, ValidateLemma, SlotFacts DEF Validated
<1>8. QED
  BY <1>2, <1>5, <1>6, <1>7 DEF Validated

\* Deleting a file that no FIL is open on.
LEMMA UnlinkLemma ==
  ASSUME NEW m, MachineOK(m), NEW p,
         \A h \in Slots : m.fil[h].open => m.fil[h].path # p,
         NEW n \in f_unlink(m, p)
  PROVE  /\ MachineOK(n) /\ n.cdir = m.cdir /\ n.drv = m.drv /\ n.last = m.last
         /\ n.fil = m.fil /\ n.data = m.data /\ n.res \in Result
<1> DEFINE gone == [m EXCEPT !.vol[p] = NoEntry]
           void == [gone EXCEPT !.fresh = {}]
<1>1. ASSUME NEW r \in Result
      PROVE  OnlyResult(m, Return(m, r), r)
  BY ReturnSame, ResultCodes
<1>2. ASSUME Exists(m, p), NEW x \in {gone, void}, NEW r \in Result
      PROVE  /\ MachineOK(x) /\ x.cdir = m.cdir /\ x.drv = m.drv
             /\ x.last = m.last /\ x.fil = m.fil /\ x.data = m.data
             /\ OnlyResult(x, Return(x, r), r)
  <2>1. /\ x.vol = [m.vol EXCEPT ![p] = NoEntry] /\ x.fresh \subseteq m.fresh
        /\ x.cdir = m.cdir /\ x.drv = m.drv /\ x.last = m.last /\ x.fil = m.fil
        /\ x.data = m.data /\ x.res = m.res
    BY <1>2 DEF MachineOK, MachineType
  <2>2. x \in MachineType
    <3>1. [m.vol EXCEPT ![p] = NoEntry] \in [Path -> Entry \cup {NoEntry}]
      BY <1>2 DEF Exists, MachineOK, MachineType
    <3>2. gone \in MachineType
      BY <3>1 DEF MachineOK, MachineType
    <3> HIDE DEF gone
    <3>3. void \in MachineType
      BY <3>2 DEF MachineType
    <3>4. QED
      BY <1>2, <3>2, <3>3
  <2>3. \A q \in Path : x.vol[q] = IF q = p THEN NoEntry ELSE m.vol[q]
    BY <2>1 DEF MachineOK, MachineType
  <2>4. \A g \in Slots : m.fil[g].path \in Path
    BY DEF MachineOK, MachineType, Fil
  <2>5. Sound(x)
    BY <2>1, <2>3, <2>4 DEF MachineOK, Sound
  <2>6. MachineOK(x) /\ r \in 0..255
    BY <2>2, <2>5, ResultCodes DEF MachineOK
  <2>7. OnlyResult(x, Return(x, r), r)
    BY <2>6, ReturnSame
  <2>8. QED
    BY <2>1, <2>6, <2>7
<1>3. \/ \E r \in Result : n = Return(m, r)
      \/ Exists(m, p) /\ \E r \in Result : n = Return(gone, r) \/ n = Return(void, r)
  <2>1. [gone EXCEPT !.fresh = {}, !.res = FR_OK] = Return(void, FR_OK)
    BY DEF Return
  <2>2. QED
    BY <2>1 DEF f_unlink, OrFault, Result
<1> HIDE DEF gone, void
<1>4. CASE \E r \in Result : n = Return(m, r)
  BY <1>1, <1>4 DEF OnlyResult
<1>5. CASE Exists(m, p) /\ \E r \in Result : n = Return(gone, r) \/ n = Return(void, r)
  BY <1>2, <1>5 DEF OnlyResult
<1>6. QED
  BY <1>3, <1>4, <1>5

----------------------------------------------------------------------------
(* The workers *)

State == /\ TypeOK
         /\ FilesSound

LEMMA MachineState == State => MachineOK(Machine)
<1> SUFFICES ASSUME State PROVE MachineOK(Machine)
  OBVIOUS
<1>1. FR_OK \in 0..255
  BY ResultCodes
<1>2. Machine \in MachineType
  BY <1>1 DEF State, TypeOK, Machine, MachineType
<1>3. Machine.fil = fildata /\ Machine.vol = vol
  BY DEF Machine
<1>4. Sound(Machine)
  BY <1>3 DEF State, FilesSound, Sound
<1>5. QED
  BY <1>2, <1>4 DEF MachineOK

\* A worker ends in a good machine with a status byte.
Settled(m, s) == MachineOK(m) /\ s \in 0..255 /\ Becomes(m, s)

LEMMA SettledState ==
  ASSUME State, NEW m, NEW s, Settled(m, s)
  PROVE  State'
<1>1. TypeOK'
  BY DEF Settled, Becomes, MachineOK, MachineType, State, TypeOK
<1>2. FilesSound'
  BY DEF Settled, Becomes, MachineOK, Sound, FilesSound
<1>3. QED
  BY <1>1, <1>2 DEF State

\* A file command on FIL h.
FileStep(h) == \E m, s : Settled(m, s) /\ Frame(Machine, m, h)

LEMMA FirstFreeLemma == FreeSlots # {} => FirstFree \in FreeSlots
<1> SUFFICES ASSUME FreeSlots # {}
             PROVE  \E h \in FreeSlots : \A g \in FreeSlots : h <= g
  BY DEF FirstFree
<1>1. CASE 1 \in FreeSlots
  BY <1>1 DEF FreeSlots
<1>2. CASE 1 \notin FreeSlots /\ 2 \in FreeSlots
  BY <1>2 DEF FreeSlots
<1>3. CASE 1 \notin FreeSlots /\ 2 \notin FreeSlots
  BY <1>3 DEF FreeSlots
<1>4. QED
  BY <1>1, <1>2, <1>3

LEMMA FileOpenStep ==
  ASSUME State, NEW h \in Slots, NEW n \in HostNames,
         NEW mode \in {"read", "write", "both"}, NEW how,
         fileOpen(h, n, mode, how)
  PROVE  \E g \in Slots :
            /\ FileStep(g)
            /\ g = h \/ (h # 0 /\ FreeSlots # {} /\ g = FirstFree)
<1> DEFINE slot == IF h = 0 THEN 0 ELSE FirstFree
<1>1. MachineOK(Machine)
  BY MachineState
<1>2. CASE h # 0 /\ FreeSlots = {}
  <2>1. Becomes(Machine, Complete(ERROR_TOO_MANY_OPEN))
    BY <1>2 DEF fileOpen
  <2>2. FileStep(h)
    BY <1>1, <2>1, StatusLemma DEF FileStep, Settled, Frame
  <2>3. QED
    BY <2>2
<1>3. CASE ~(h # 0 /\ FreeSlots = {})
  <2>1. slot \in Slots
    BY <1>3, FirstFreeLemma DEF FreeSlots, Slots
  <2>2. PICK m \in f_open(Machine, slot, <<cdir, n>>, mode, how) :
            Becomes(m, OpenStatus(slot, m.res))
    BY <1>3 DEF fileOpen
  <2>3. OpenResult(Machine, m, slot, <<cdir, n>>, mode)
    BY <1>1, <2>1, <2>2, OpenLemma, SMTT(30)
  <2> HIDE DEF slot
  <2>4. OpenStatus(slot, m.res) \in 0..255
    <3>1. FILENUM_OFFSET + slot \in 0..255 /\ m.res \in 0..255
      BY <2>1, <2>3, ResultCodes DEF FILENUM_OFFSET, Slots, OpenResult
    <3>2. QED
      BY <3>1, CompleteByte, ZenonT(60) DEF OpenStatus
  <2>5. FileStep(slot)
    BY <2>2, <2>3, <2>4 DEF FileStep, Settled, OpenResult
  <2>6. QED
    BY <1>3, <2>1, <2>5 DEF slot
<1>4. QED
  BY <1>2, <1>3

LEMMA FileReadStep ==
  ASSUME State, NEW h \in Slots, FileRead(h)
  PROVE  FileStep(h)
<1>1. PICK m \in f_read(Machine, h) :
         \E s \in {STATUS_EOF, Complete(m.res)} : Becomes(m, s)
  BY DEF FileRead
<1>2. CallResult(Machine, m, h)
  BY <1>1, MachineState, ReadLemma
<1>3. STATUS_EOF \in 0..255 /\ Complete(m.res) \in 0..255
  BY <1>2, StatusOf, StatusLemma DEF CallResult
<1>4. QED
  BY <1>1, <1>2, <1>3 DEF FileStep, Settled, CallResult, Kept

LEMMA FileWriteStep ==
  ASSUME State, NEW h \in Slots, NEW v \in Data, FileWrite(h, v)
  PROVE  FileStep(h)
<1> DEFINE x == SetData(Machine, v)
<1>1. v \in Value
  BY DEF Value
<1>2. MachineOK(x) /\ Kept(Machine, x, h)
  BY <1>1, MachineState, SetDataLemma
<1> HIDE DEF x
<1>3. PICK m \in f_write(x, h, v) : Becomes(m, Complete(m.res))
  BY DEF FileWrite, x
<1>4. CallResult(x, m, h)
  BY <1>1, <1>2, <1>3, WriteLemma
<1>5. Complete(m.res) \in 0..255
  BY <1>4, StatusOf DEF CallResult
<1>6. QED
  BY <1>2, <1>3, <1>4, <1>5, KeptTrans DEF FileStep, Settled, CallResult, Kept

LEMMA FileSeekStep ==
  ASSUME State, NEW h \in Slots, NEW ofs \in 0..Capacity, FileSeek(h, ofs)
  PROVE  FileStep(h)
<1>1. PICK m \in f_lseek(Machine, h, ofs) : Becomes(m, Complete(m.res))
  BY DEF FileSeek
<1>2. ofs \in Nat
  BY CapacityAssumption
<1>3. CallResult(Machine, m, h)
  BY <1>1, <1>2, MachineState, SeekLemma
<1>4. Complete(m.res) \in 0..255
  BY <1>3, StatusOf DEF CallResult
<1>5. QED
  BY <1>1, <1>3, <1>4 DEF FileStep, Settled, CallResult, Kept

LEMMA FileCloseStep ==
  ASSUME State, NEW h \in Slots, FileClose(h)
  PROVE  FileStep(h)
<1>1. PICK m \in f_close(Machine, h) : Becomes(m, Complete(m.res))
  BY DEF FileClose
<1>2. MachineOK(m) /\ Frame(Machine, m, h) /\ m.res \in Result
  BY <1>1, MachineState, CloseLemma
<1>3. Complete(m.res) \in 0..255
  BY <1>2, StatusOf
<1>4. QED
  BY <1>1, <1>2, <1>3 DEF FileStep, Settled

LEMMA FileDeleteStep ==
  ASSUME State, NEW n, FileDelete(n)
  PROVE  FileStep(0)
<1> DEFINE p == <<cdir, n>>
<1>1. PICK m \in f_unlink(Machine, p) : Becomes(m, Complete(m.res))
  BY DEF FileDelete
<1>2. \A h \in Slots : Machine.fil[h].open => Machine.fil[h].path # p
  BY DEF FileDelete, NotInUse, Machine
<1> HIDE DEF p
<1>3. /\ MachineOK(m) /\ m.cdir = Machine.cdir /\ m.drv = Machine.drv
      /\ m.last = Machine.last /\ m.fil = Machine.fil /\ m.res \in Result
  BY <1>1, <1>2, MachineState, UnlinkLemma
<1>4. Complete(m.res) \in 0..255
  BY <1>3, StatusOf
<1>5. QED
  BY <1>1, <1>3, <1>4 DEF FileStep, Settled, Frame

LEMMA ChdirStep ==
  ASSUME State, NEW c \in Dirs, SetCWDirectory(c)
  PROVE  /\ \E m, s : Settled(m, s)
         /\ cdir' \in {cdir, c}
         /\ fildata' = fildata /\ driveInfo' = driveInfo /\ lastDriveNo' = lastDriveNo
<1> DEFINE k == [Machine EXCEPT !.cdir = c, !.res = FR_OK]
<1>1. PICK m \in {k, Return(Machine, FR_DISK_ERR)} : Becomes(m, Complete(m.res))
  BY DEF SetCWDirectory, OrFault
<1>2. MachineOK(Machine)
  BY MachineState
<1>3. /\ MachineOK(k) /\ k.res \in Result /\ k.cdir = c /\ k.fil = fildata
      /\ k.drv = driveInfo /\ k.last = lastDriveNo
  <2>1. /\ k.vol = vol /\ k.cdir = c /\ k.fil = fildata /\ k.drv = driveInfo
        /\ k.last = lastDriveNo /\ k.res = FR_OK
    BY DEF Machine
  <2>2. k \in MachineType
    <3>1. Machine \in MachineType /\ FR_OK \in 0..255
      BY <1>2, ResultCodes DEF MachineOK
    <3> HIDE DEF Machine
    <3>2. QED
      BY <3>1 DEF MachineType
  <2>3. Sound(k)
    BY <2>1 DEF State, FilesSound, Sound
  <2>4. QED
    BY <2>1, <2>2, <2>3, ResultCodes DEF MachineOK
<1>4. OnlyResult(Machine, Return(Machine, FR_DISK_ERR), FR_DISK_ERR)
      /\ FR_DISK_ERR \in Result
  BY <1>2, ReturnSame, ResultCodes DEF Errors
<1> HIDE DEF k
<1>5. CASE m = k
  <2>1. Complete(m.res) \in 0..255
    BY <1>3, <1>5, StatusOf
  <2>2. QED
    BY <1>1, <1>3, <1>5, <2>1 DEF Settled, Becomes
<1>6. CASE m = Return(Machine, FR_DISK_ERR)
  <2>1. Complete(m.res) \in 0..255
    BY <1>4, <1>6, StatusOf DEF OnlyResult
  <2>2. /\ MachineOK(m) /\ m.cdir = cdir /\ m.fil = fildata /\ m.drv = driveInfo
        /\ m.last = lastDriveNo
    BY <1>4, <1>6 DEF OnlyResult, Machine
  <2>3. QED
    BY <1>1, <2>1, <2>2 DEF Settled, Becomes
<1>7. QED
  BY <1>1, <1>5, <1>6

\* A command on drive d: at most that drive leaves the table, and the selected
\* drive stays backed by its file.
Follows(m, n, d) ==
    /\ MachineOK(n)
    /\ n.cdir = m.cdir
    /\ Backed(m) => Backed(n)
    /\ TableKept(m, n, d)

LEMMA FollowsTrans ==
  ASSUME NEW m, NEW k, NEW n, NEW d \in Drives, Follows(m, k, d), Follows(k, n, d)
  PROVE  Follows(m, n, d)
  BY DEF Follows, TableKept

LEMMA KeptFollows ==
  ASSUME NEW m, NEW n, NEW d \in Drives, Kept(m, n, 3)
  PROVE  Follows(m, n, d)
  BY DEF Kept, Frame, SameFile, Follows, Backed, TableKept

LEMMA SwitchFollows ==
  ASSUME NEW m, MachineOK(m), NEW d \in Drives, NEW e \in Drives,
         NEW n \in switchDrive(m, d)
  PROVE  Follows(m, n, e) /\ n.res \in Result /\ n.data = m.data
  BY SwitchLemma DEF Selects, Follows, TableKept

LEMMA SaveFollows ==
  ASSUME NEW m, MachineOK(m), NEW d \in Drives, NEW n \in saveDrivesImpl(m)
  PROVE  Follows(m, n, d)
<1>1. ThroughScratch(m, n) /\ n.drv = m.drv
  BY SaveLemma
<1>2. QED
  BY <1>1, SlotFacts DEF ThroughScratch, Follows, Backed, TableKept

LEMMA UnusedFollows ==
  ASSUME NEW m, MachineOK(m), NEW d \in Drives
  PROVE  Follows(m, SetDrive(m, d, Unused), d)
  BY UnusedLemma DEF Selects, Follows

LEMMA InvalidateFollows ==
  ASSUME NEW m, MachineOK(m), globalCurDrive \in Drives
  PROVE  Follows(m, Invalidate(m), globalCurDrive) /\ Invalidate(m).res = m.res
<1> DEFINE d == globalCurDrive
           info == [m.drv[d] EXCEPT !.attribs = Unset]
           n == SetDrive(m, d, info)
<1>1. info \in ImgInfo
  BY DriveType DEF StrayAttr
<1>2. info.attribs = Unset
  BY DEF MachineOK, MachineType, DriveTable, ImgInfo
<1>3. n = Invalidate(m)
  BY DEF Invalidate, SetDrive
<1> HIDE DEF info
<1>4. /\ MachineOK(n) /\ n.cdir = m.cdir /\ n.fil = m.fil
      /\ n.res = m.res /\ n.last = m.last /\ n.drv[d] = info
      /\ \A i \in Drives \ {d} : n.drv[i] = m.drv[i]
  BY <1>1, SetDriveLemma
<1> HIDE DEF n
<1>5. m.last \in Drives \cup {NoDrive}
  BY DEF MachineOK, MachineType
<1>6. Backed(m) => Backed(n)
  BY <1>2, <1>4, <1>5 DEF Backed
<1>7. QED
  BY <1>2, <1>3, <1>4, <1>6 DEF Follows, TableKept

DriveStep(d) == \E m, s : Settled(m, s) /\ Follows(Machine, m, d)

LEMMA StayFollows ==
  ASSUME NEW m, MachineOK(m), NEW d \in Drives
  PROVE  Follows(m, m, d)
  BY DEF Follows, TableKept

LEMMA SeekSectorFollows ==
  ASSUME NEW m, MachineOK(m), TypeOK, NEW s \in SeekSector(m)
  PROVE  Follows(m, s, globalCurDrive) /\ s.res \in Result /\ s.data = m.data
<1>1. globalCurDrive \in Drives /\ globalLBAOffset \in Nat
  BY CapacityAssumption DEF TypeOK, Sectors
<1>2. PICK n \in switchDrive(m, globalCurDrive) :
         s \in f_lseek(n, 3, globalLBAOffset)
  BY SlotFacts DEF SeekSector
<1>3. Follows(m, n, globalCurDrive) /\ n.data = m.data
  BY <1>1, <1>2, SwitchFollows
<1>4. CallResult(n, s, 3) /\ s.data = n.data
  BY <1>1, <1>2, <1>3, SeekLemma, SlotFacts DEF Follows
<1>5. Follows(n, s, globalCurDrive)
  BY <1>1, <1>4, KeptFollows DEF CallResult
<1>6. QED
  BY <1>1, <1>3, <1>4, <1>5, FollowsTrans DEF CallResult

LEMMA ReadSectorStep ==
  ASSUME State, ReadSDDOSSect
  PROVE  DriveStep(globalCurDrive)
<1> DEFINE d == globalCurDrive
<1>1. d \in Drives /\ MachineOK(Machine) /\ TypeOK
  BY MachineState DEF State, TypeOK
<1>2. CASE driveInfo[d].attribs = Unset
  <2>1. Becomes(Machine, Complete(ERROR_INVALID_DRIVE))
    BY <1>2 DEF ReadSDDOSSect
  <2>2. QED
    BY <1>1, <2>1, StatusLemma, StayFollows DEF DriveStep, Settled
<1>3. CASE driveInfo[d].attribs # Unset
  <2>1. PICK s \in SeekSector(Machine) :
           IF s.res # FR_OK
           THEN Becomes(Invalidate(s), Complete(ERROR_INVALID_DRIVE))
           ELSE \E m \in f_read(s, 3) :
                    IF m.res = FR_OK THEN Becomes(m, STATUS_OK)
                    ELSE Becomes(Invalidate(m), Complete(m.res))
    BY <1>3, SlotFacts DEF ReadSDDOSSect
  <2>2. Follows(Machine, s, d) /\ MachineOK(s)
    BY <1>1, SeekSectorFollows DEF Follows
  <2>3. CASE s.res # FR_OK
    <3>1. Follows(s, Invalidate(s), d)
      BY <1>1, <2>2, InvalidateFollows
    <3>2. Follows(Machine, Invalidate(s), d)
      BY <1>1, <2>2, <3>1, FollowsTrans
    <3>3. QED
      BY <2>1, <2>3, <3>1, <3>2, StatusLemma DEF DriveStep, Settled, Follows
  <2>4. CASE s.res = FR_OK
    <3>1. PICK m \in f_read(s, 3) :
             IF m.res = FR_OK THEN Becomes(m, STATUS_OK)
             ELSE Becomes(Invalidate(m), Complete(m.res))
      BY <2>1, <2>4
    <3>2. CallResult(s, m, 3)
      BY <2>2, <3>1, ReadLemma, SlotFacts
    <3>3. Follows(Machine, m, d) /\ MachineOK(m)
      BY <1>1, <2>2, <3>2, KeptFollows, FollowsTrans DEF CallResult, Kept
    <3>4. Follows(Machine, Invalidate(m), d)
      BY <1>1, <3>3, InvalidateFollows, FollowsTrans
    <3>5. STATUS_OK \in 0..255 /\ Complete(m.res) \in 0..255
      BY <3>2, StatusLemma, StatusOf DEF CallResult
    <3>6. QED
      BY <3>1, <3>3, <3>4, <3>5 DEF DriveStep, Settled, Follows
  <2>5. QED
    BY <2>3, <2>4
<1>4. QED
  BY <1>2, <1>3

LEMMA WriteSectorStep ==
  ASSUME State, NEW v \in Data, WriteSDDOSSect(v)
  PROVE  DriveStep(globalCurDrive)
<1> DEFINE d == globalCurDrive
           x == SetData(Machine, v)
<1>1. d \in Drives /\ MachineOK(Machine) /\ TypeOK /\ v \in Value
  BY MachineState DEF State, TypeOK, Value
<1>2. MachineOK(x) /\ Follows(Machine, x, d)
  BY <1>1, SetDataLemma, KeptFollows, SlotFacts
<1> HIDE DEF x
<1>3. \/ \E r \in {ERROR_INVALID_DRIVE, ERROR_READ_ONLY} : Becomes(x, Complete(r))
      \/ \E s \in SeekSector(x) :
            IF s.res # FR_OK
            THEN Becomes(Invalidate(s), Complete(ERROR_INVALID_DRIVE))
            ELSE \E w \in f_write(s, 3, v) :
                    IF w.res # FR_OK THEN Becomes(Invalidate(w), w.res)
                    ELSE \E m \in f_sync(w, 3) :
                            IF m.res = FR_OK THEN Becomes(m, STATUS_OK)
                            ELSE Becomes(Invalidate(m), m.res)
  BY SlotFacts DEF WriteSDDOSSect, x
<1>4. CASE \E r \in {ERROR_INVALID_DRIVE, ERROR_READ_ONLY} : Becomes(x, Complete(r))
  BY <1>2, <1>4, StatusLemma DEF DriveStep, Settled
<1>5. ASSUME NEW s \in SeekSector(x),
             IF s.res # FR_OK
             THEN Becomes(Invalidate(s), Complete(ERROR_INVALID_DRIVE))
             ELSE \E w \in f_write(s, 3, v) :
                     IF w.res # FR_OK THEN Becomes(Invalidate(w), w.res)
                     ELSE \E m \in f_sync(w, 3) :
                             IF m.res = FR_OK THEN Becomes(m, STATUS_OK)
                             ELSE Becomes(Invalidate(m), m.res)
      PROVE  DriveStep(d)
  <2>1. Follows(Machine, s, d) /\ MachineOK(s)
    BY <1>1, <1>2, SeekSectorFollows, FollowsTrans DEF Follows
  <2>2. CASE s.res # FR_OK
    <3>1. Follows(Machine, Invalidate(s), d)
      BY <1>1, <2>1, InvalidateFollows, FollowsTrans
    <3>2. QED
      BY <1>5, <2>2, <3>1, StatusLemma DEF DriveStep, Settled, Follows
  <2>3. CASE s.res = FR_OK
    <3>1. PICK w \in f_write(s, 3, v) :
             IF w.res # FR_OK THEN Becomes(Invalidate(w), w.res)
             ELSE \E m \in f_sync(w, 3) :
                     IF m.res = FR_OK THEN Becomes(m, STATUS_OK)
                     ELSE Becomes(Invalidate(m), m.res)
      BY <1>5, <2>3
    <3>2. CallResult(s, w, 3)
      BY <1>1, <2>1, <3>1, WriteLemma, SlotFacts
    <3>3. Follows(Machine, w, d) /\ MachineOK(w)
      BY <1>1, <2>1, <3>2, KeptFollows, FollowsTrans DEF CallResult, Kept
    <3>4. CASE w.res # FR_OK
      <4>1. Follows(Machine, Invalidate(w), d)
        BY <1>1, <3>3, InvalidateFollows, FollowsTrans
      <4>2. w.res \in 0..255
        BY <3>2, StatusOf DEF CallResult
      <4>3. QED
        BY <3>1, <3>4, <4>1, <4>2 DEF DriveStep, Settled, Follows
    <3>5. CASE w.res = FR_OK
      <4>1. PICK m \in f_sync(w, 3) :
               IF m.res = FR_OK THEN Becomes(m, STATUS_OK)
               ELSE Becomes(Invalidate(m), m.res)
        BY <3>1, <3>5
      <4>2. CallResult(w, m, 3)
        BY <3>3, <4>1, SyncLemma, SlotFacts
      <4>3. Follows(Machine, m, d) /\ MachineOK(m)
        BY <1>1, <3>3, <4>2, KeptFollows, FollowsTrans DEF CallResult, Kept
      <4>4. Follows(Machine, Invalidate(m), d)
        BY <1>1, <4>3, InvalidateFollows, FollowsTrans
      <4>5. STATUS_OK \in 0..255 /\ m.res \in 0..255
        BY <4>2, StatusLemma, StatusOf DEF CallResult
      <4>6. QED
        BY <4>1, <4>3, <4>4, <4>5 DEF DriveStep, Settled, Follows
    <3>6. QED
      BY <3>4, <3>5
  <2>4. QED
    BY <2>2, <2>3
<1>6. QED
  BY <1>3, <1>4, <1>5

LEMMA SaveStep ==
  ASSUME State, SerialiseSDDOSDrives
  PROVE  DriveStep(0)
<1>1. PICK m \in saveDrivesImpl(Machine) : Becomes(m, STATUS_OK)
  BY DEF SerialiseSDDOSDrives
<1>2. Follows(Machine, m, 0)
  BY <1>1, MachineState, SaveFollows, SlotFacts
<1>3. QED
  BY <1>1, <1>2, StatusLemma DEF DriveStep, Settled, Follows

LEMMA UnmountStep ==
  ASSUME State, NEW d \in Drives, UnmountSDDOSImg(d)
  PROVE  DriveStep(d)
<1>1. PICK s \in switchDrive(Machine, d) : \E c \in f_close(s, 3) :
         \E m \in saveDrivesImpl(SetDrive([c EXCEPT !.last = NoDrive], d, Unused)) :
            Becomes(m, STATUS_OK)
  BY SlotFacts DEF UnmountSDDOSImg
<1>2. PICK c \in f_close(s, 3) :
         \E m \in saveDrivesImpl(SetDrive([c EXCEPT !.last = NoDrive], d, Unused)) :
            Becomes(m, STATUS_OK)
  BY <1>1
<1> DEFINE x == [c EXCEPT !.last = NoDrive]
           y == SetDrive(x, d, Unused)
<1>3. PICK m \in saveDrivesImpl(y) : Becomes(m, STATUS_OK)
  BY <1>2
<1>4. Follows(Machine, s, d) /\ MachineOK(s)
  BY <1>1, MachineState, SwitchFollows DEF Follows
<1>5. MachineOK(c) /\ Frame(s, c, 3)
  BY <1>2, <1>4, CloseLemma, SlotFacts
<1>6. MachineOK(x) /\ x.cdir = c.cdir /\ x.drv = c.drv /\ x.last = NoDrive
  BY <1>5, SelectLemma
<1> HIDE DEF x
<1>7. Follows(s, x, d)
  BY <1>4, <1>5, <1>6 DEF Frame, Follows, Backed, TableKept
<1>8. Follows(x, y, d) /\ MachineOK(y)
  BY <1>6, UnusedFollows DEF Follows
<1> HIDE DEF y
<1>9. Follows(y, m, d)
  BY <1>3, <1>8, SaveFollows
<1>10. Follows(Machine, m, d)
  BY <1>4, <1>7, <1>8, <1>9, FollowsTrans
<1>11. QED
  BY <1>3, <1>9, <1>10, StatusLemma DEF DriveStep, Settled, Follows

\* The table as OpenSDDOSImg asks for it.
Asked(d, n) == SetDrive(Machine, d, [name |-> n, attribs |-> NoAttr])

LEMMA OpenImgStep ==
  ASSUME State, NEW d \in Drives, NEW n \in ImageNames, OpenSDDOSImg(d, n)
  PROVE  \E m, s : Settled(m, s) /\ Follows(Asked(d, n), m, d)
<1> DEFINE a == Asked(d, n)
           info == [name |-> n, attribs |-> NoAttr]
<1>1. info \in ImgInfo /\ info.attribs # Unset
  BY DEF ImgInfo, Attr, NoAttr, Unset
<1>2. MachineOK(a) /\ a.drv[d] = info
  BY <1>1, MachineState, SetDriveLemma DEF Asked
<1>3. PICK t \in tryOpenImage(a, d) :
         \E m \in saveDrivesImpl(IF t.res >= STATUS_COMPLETE
                                 THEN SetDrive(t, d, Unused) ELSE t) :
            Becomes(m, t.res)
  BY DEF OpenSDDOSImg, Asked
<1> DEFINE k == IF t.res >= STATUS_COMPLETE THEN SetDrive(t, d, Unused) ELSE t
<1>4. PICK m \in saveDrivesImpl(k) : Becomes(m, t.res)
  BY <1>3
<1> HIDE DEF a, info
<1>5. Follows(a, t, d) /\ MachineOK(t) /\ t.res \in 0..255
  BY <1>1, <1>2, <1>3, TryLemma DEF Selects, Follows
<1>6. Follows(a, k, d) /\ MachineOK(k)
  BY <1>5, UnusedFollows, FollowsTrans DEF Follows
<1> HIDE DEF k
<1>7. Follows(k, m, d)
  BY <1>4, <1>6, SaveFollows
<1>8. Follows(a, m, d)
  BY <1>6, <1>7, FollowsTrans
<1>9. QED
  BY <1>4, <1>5, <1>7, <1>8 DEF Settled, Follows, a

LEMMA ValidateStep ==
  ASSUME State, ValidateSDDOSDrives
  PROVE  \E m, s : /\ Settled(m, s) /\ m.cdir = cdir
                   /\ lastDriveNo = NoDrive => Backed(m)
<1>1. PICK l \in loadDrives(Machine) : \E t \in ValidateAll(l) :
         \E m \in saveDrivesImpl(t) : Becomes(m, STATUS_OK)
  BY DEF ValidateSDDOSDrives
<1>2. PICK t \in ValidateAll(l) :
         \E m \in saveDrivesImpl(t) : Becomes(m, STATUS_OK)
  BY <1>1
<1>3. PICK m \in saveDrivesImpl(t) : Becomes(m, STATUS_OK)
  BY <1>2
<1>4. ThroughScratch(Machine, l) /\ MachineOK(l)
  BY <1>1, MachineState, LoadLemma DEF ThroughScratch
<1>5. Validated(l, t) /\ MachineOK(t)
  BY <1>2, <1>4, ValidateAllLemma DEF Validated
<1>6. Follows(t, m, 0)
  BY <1>3, <1>5, SaveFollows, SlotFacts
<1>7. Machine.cdir = cdir /\ Machine.last = lastDriveNo
  BY DEF Machine
<1>8. lastDriveNo = NoDrive => Backed(l)
  BY <1>4, <1>7 DEF ThroughScratch, Backed
<1>9. QED
  BY <1>3, <1>4, <1>5, <1>6, <1>7, <1>8, StatusLemma
  DEF Settled, ThroughScratch, Validated, Follows

LEMMA LoadParamStep ==
  ASSUME State, NEW d \in Drives, NEW s \in Sectors, LoadParam(d, s)
  PROVE  State'
<1>1. TypeOK'
  BY StatusLemma DEF State, TypeOK, LoadParam
<1>2. FilesSound'
  BY DEF State, FilesSound, LoadParam
<1>3. QED
  BY <1>1, <1>2 DEF State

\* The firmware after power on.
PowerOn ==
    /\ vol \in [Path -> Entry \cup {NoEntry}]
    /\ fresh = {} /\ cdir = Root
    /\ fildata = [h \in Slots |-> Closed]
    /\ driveInfo = [d \in Drives |-> Unused] /\ lastDriveNo = NoDrive
    /\ globalCurDrive = 0 /\ globalLBAOffset = 0 /\ globalData = Alien
    /\ port = STATUS_BUSY

LEMMA BlankState == PowerOn => State
<1> SUFFICES ASSUME PowerOn PROVE State
  OBVIOUS
<1>1. TypeOK
  <2>1. Root \in Dirs
    BY NamesAssumption
  <2>2. Closed \in Fil /\ STATUS_BUSY \in 0..255
    BY ClosedType, StatusLemma
  <2>3. [d \in Drives |-> Unused] \in DriveTable
    BY DEF DriveTable, ImgInfo, Unused
  <2>4. 0 \in Sectors /\ 0 \in Drives
    BY CapacityAssumption, SlotFacts DEF Sectors
  <2>5. QED
    BY <2>1, <2>2, <2>3, <2>4 DEF TypeOK, PowerOn
<1>2. FilesSound
  BY ClosedType DEF FilesSound, PowerOn
<1>3. QED
  BY <1>1, <1>2 DEF State

LEMMA RestartStep ==
  ASSUME State, Restart
  PROVE  State'
<1>1. vol' \in [Path -> Entry \cup {NoEntry}]
  BY DEF Restart, State, TypeOK
<1>2. PowerOn'
  BY <1>1 DEF Restart, PowerOn
<1>3. QED
  BY <1>2, BlankState, PTL

----------------------------------------------------------------------------
(* The theorems *)

\* What HNext can do, as steps of the workers.
LEMMA StepState ==
  ASSUME State, [HNext]_hvars
  PROVE  State'
<1>1. CASE HostFileCommand
  <2>1. ASSUME NEW h \in Slots, FileStep(h) PROVE State'
    BY <2>1, SettledState DEF FileStep
  <2>2. ASSUME NEW h \in HostFiles, NEW n \in HostNames,
               FileOpenRead(h, n) \/ FileOpenWrite(h, n) \/ FileOpenRAF(h, n)
        PROVE  State'
    <3>1. h \in Slots
      BY HostAssumption
    <3>2. PICK mode \in {"read", "write", "both"}, how \in {"existing", "new", "always"} :
             fileOpen(h, n, mode, how)
      BY <2>2 DEF FileOpenRead, FileOpenWrite, FileOpenRAF
    <3>3. QED
      BY <2>1, <3>1, <3>2, FileOpenStep
  <2>3. ASSUME NEW h \in HostFiles, FileRead(h) \/ FileClose(h) PROVE State'
    BY <2>1, <2>3, FileReadStep, FileCloseStep, HostAssumption
  <2>4. ASSUME NEW h \in HostFiles, NEW v \in HostData, FileWrite(h, v) PROVE State'
    BY <2>1, <2>4, FileWriteStep, HostAssumption
  <2>5. ASSUME NEW h \in HostFiles, NEW ofs \in 0..Capacity, FileSeek(h, ofs)
        PROVE  State'
    BY <2>1, <2>5, FileSeekStep, HostAssumption
  <2>6. ASSUME NEW n \in HostNames \cup ImageNames, FileDelete(n) PROVE State'
    BY <2>1, <2>6, FileDeleteStep, SlotFacts
  <2>7. ASSUME NEW c \in Dirs, SetCWDirectory(c) PROVE State'
    BY <2>7, ChdirStep, SettledState
  <2>8. QED
    BY <1>1, <2>2, <2>3, <2>4, <2>5, <2>6, <2>7 DEF HostFileCommand
<1>2. ASSUME NEW d \in Drives, DriveStep(d) PROVE State'
  BY <1>2, SettledState DEF DriveStep
<1>3. ASSUME NEW d \in HostDrives, NEW s \in Sectors, HostParam(d, s) PROVE State'
  BY <1>3, LoadParamStep, HostAssumption DEF HostParam
<1>4. ASSUME NEW d \in HostDrives, NEW n \in ImageNames, HostMount(d, n) PROVE State'
  BY <1>4, OpenImgStep, SettledState, HostAssumption DEF HostMount
<1>5. ASSUME NEW d \in HostDrives, HostUnmount(d) PROVE State'
  BY <1>2, <1>5, UnmountStep, HostAssumption DEF HostUnmount
<1>6. CASE HostLoadTable
  BY <1>6, ValidateStep, SettledState DEF HostLoadTable
<1>7. CASE HostSaveTable
  BY <1>2, <1>7, SaveStep, SlotFacts DEF HostSaveTable
<1>8. CASE HostReadSector
  BY <1>2, <1>8, ReadSectorStep DEF HostReadSector, State, TypeOK
<1>9. ASSUME NEW v \in HostData, HostWriteSector(v) PROVE State'
  BY <1>2, <1>9, WriteSectorStep, HostAssumption DEF HostWriteSector, State, TypeOK
<1>10. CASE PowerCycle
  BY <1>10, RestartStep DEF PowerCycle
<1>11. CASE UNCHANGED hvars
  BY <1>11 DEF hvars, vars, State, TypeOK, FilesSound
<1>12. QED
  BY <1>1, <1>3, <1>4, <1>5, <1>6, <1>7, <1>8, <1>9, <1>10, <1>11 DEF HNext

LEMMA InitState == HInit => State
<1>1. HInit => PowerOn
  BY CardsAssumption DEF HInit, Init, PowerOn
<1>2. QED
  BY <1>1, BlankState

\* What the host knows, in the steps that change it.
HostTypes ==
    /\ bound \in [Drives -> (Dirs \X (ImageNames \cup {NoName})) \cup {NoPath}]
    /\ out \in Value \cup {Alien}

LEMMA StillBoundType ==
  ASSUME NEW b,
         \A d \in Drives : b[d] \in (Dirs \X (ImageNames \cup {NoName})) \cup {NoPath}
  PROVE  StillBound(b) \in [Drives -> (Dirs \X (ImageNames \cup {NoName})) \cup {NoPath}]
  BY DEF StillBound

LEMMA StepHostTypes ==
  ASSUME State, State', HostTypes, [HNext]_hvars
  PROVE  HostTypes'
<1> DEFINE Bound == (Dirs \X (ImageNames \cup {NoName})) \cup {NoPath}
<1>1. bound \in [Drives -> Bound]
  BY DEF HostTypes
<1>2. StillBound(bound) \in [Drives -> Bound]
  BY <1>1, StillBoundType
<1>3. ASSUME NEW d \in HostDrives, NEW n \in ImageNames, HostMount(d, n)
      PROVE  bound' \in [Drives -> Bound]
  <2>1. <<cdir, n>> \in Bound
    BY DEF State, TypeOK
  <2>2. \A e \in Drives : [bound EXCEPT ![d] = <<cdir, n>>][e] \in Bound
    BY <1>1, <2>1
  <2>3. bound' = StillBound([bound EXCEPT ![d] = <<cdir, n>>])
    BY <1>3 DEF HostMount
  <2> HIDE DEF Bound
  <2>4. QED
    BY <2>2, <2>3, StillBoundType DEF Bound
<1>4. CASE HostLoadTable
  <2> DEFINE b == [d \in Drives |-> <<cdir, driveInfo'[d].name>>]
  <2>1. \A d \in Drives : driveInfo'[d].name \in ImageNames \cup {NoName}
    BY DEF State, TypeOK, DriveTable, ImgInfo
  <2>2. \A d \in Drives : b[d] \in Bound
    BY <2>1 DEF State, TypeOK
  <2>3. bound' = StillBound(b)
    BY <1>4 DEF HostLoadTable
  <2> HIDE DEF b
  <2>4. bound' \in [Drives -> Bound]
    BY <2>2, <2>3, StillBoundType
  <2>5. out' = Alien
    BY <1>4 DEF HostLoadTable, Silent
  <2>6. QED
    BY <2>4, <2>5 DEF HostTypes
<1>5. CASE HostReadSector
  <2>1. bound' = StillBound(bound) /\ out' \in {globalData', Alien}
    BY <1>5 DEF HostReadSector
  <2>2. globalData' \in Value \cup {Alien}
    BY DEF State, TypeOK
  <2>3. QED
    BY <1>2, <2>1, <2>2 DEF HostTypes
<1>6. CASE PowerCycle
  <2>1. bound' = [d \in Drives |-> NoPath] /\ out' = Alien
    BY <1>6 DEF PowerCycle, Silent
  <2>2. QED
    BY <2>1 DEF HostTypes
<1>7. ASSUME bound' \in [Drives -> Bound], Silent PROVE HostTypes'
  BY <1>7 DEF Silent, HostTypes
<1>8. ASSUME bound' \in {bound, StillBound(bound)}, Silent PROVE HostTypes'
  BY <1>1, <1>2, <1>7, <1>8
<1> HIDE DEF Bound
<1>9. CASE HostFileCommand
  BY <1>8, <1>9 DEF HostFileCommand
<1>10. ASSUME NEW d \in HostDrives, NEW n \in ImageNames, HostMount(d, n)
       PROVE  HostTypes'
  BY <1>3, <1>7, <1>10 DEF HostMount
<1>11. ASSUME NEW d \in HostDrives, NEW s \in Sectors, HostParam(d, s)
       PROVE  HostTypes'
  BY <1>8, <1>11 DEF HostParam
<1>12. ASSUME NEW d \in HostDrives, HostUnmount(d) PROVE HostTypes'
  BY <1>8, <1>12 DEF HostUnmount
<1>13. CASE HostSaveTable
  BY <1>8, <1>13 DEF HostSaveTable
<1>14. ASSUME NEW v \in HostData, HostWriteSector(v) PROVE HostTypes'
  BY <1>8, <1>14 DEF HostWriteSector
<1>15. CASE UNCHANGED hvars
  BY <1>15 DEF hvars, HostTypes
<1>16. QED
  BY <1>4, <1>5, <1>6, <1>9, <1>10, <1>11, <1>12, <1>13, <1>14, <1>15 DEF HNext

\* Whatever commands come in whatever order, with or without disk errors and
\* power cuts: every variable keeps its type, ...
THEOREM HostTypeOK == HSpec => []HTypeOK
<1>1. HInit => State /\ HostTypes
  <2>1. HInit => HostTypes
    BY DEF HInit, HostTypes
  <2>2. QED
    BY <2>1, InitState
<1>2. State /\ HostTypes /\ [HNext]_hvars => State' /\ HostTypes'
  BY StepState, StepHostTypes
<1>3. State /\ HostTypes => HTypeOK
  BY DEF State, HostTypes, HTypeOK
<1>4. QED
  BY <1>1, <1>2, <1>3, PTL DEF HSpec

\* ... and no open FIL is without its entry or has data it would not write back.
THEOREM OpenFilesSound == HSpec => []FilesSound
<1>1. State /\ [HNext]_hvars => State'
  BY StepState
<1>2. State => FilesSound
  BY DEF State
<1>3. QED
  BY <1>1, <1>2, InitState, PTL DEF HSpec

\* The strengthening of SelectedImage: the firmware's half, Backed, does not
\* mention the host, and the host's knowledge follows the drive table.
Bindings ==
    /\ Backed(Machine)
    /\ bound = [d \in Drives |-> bound[d]]
    /\ \A d \in Drives : bound[d] # NoPath =>
          driveInfo[d].attribs # Unset /\ bound[d] = <<cdir, driveInfo[d].name>>

LEMMA FileBindings ==
  ASSUME State, Bindings, NEW h \in Slots \ {3}, FileStep(h), bound' = bound
  PROVE  Bindings'
<1>1. PICK m, s : Settled(m, s) /\ Frame(Machine, m, h)
  BY DEF FileStep
<1>2. /\ cdir' = cdir /\ driveInfo' = driveInfo /\ lastDriveNo' = lastDriveNo
      /\ fildata'[3] = fildata[3]
  BY <1>1, SlotFacts DEF Settled, Becomes, Frame, Machine
<1>3. Backed(Machine)'
  BY <1>2 DEF Bindings, Backed, Machine
<1>4. QED
  BY <1>2, <1>3 DEF Bindings

LEMMA SettledBacked ==
  ASSUME NEW m, NEW s, Settled(m, s), Backed(m)
  PROVE  Backed(Machine)'
  BY DEF Settled, Becomes, Backed, Machine

\* A step that changes the table as Follows allows, from a machine that is as
\* the host will know it.
LEMMA DriveBindings ==
  ASSUME NEW k, NEW m, NEW s, NEW d \in Drives, Settled(m, s), Follows(k, m, d),
         Backed(k), k.cdir = cdir, NEW b,
         \A e \in Drives : b[e] # NoPath /\ k.drv[e].attribs # Unset =>
                               b[e] = <<cdir, k.drv[e].name>>,
         bound' = StillBound(b)
  PROVE  Bindings'
<1>1. Backed(Machine)'
  BY SettledBacked DEF Follows
<1>2. driveInfo' = m.drv /\ cdir' = cdir
  BY DEF Settled, Becomes, Follows
<1>3. ASSUME NEW e \in Drives, bound'[e] # NoPath
      PROVE  driveInfo'[e].attribs # Unset /\ bound'[e] = <<cdir', driveInfo'[e].name>>
  <2>1. m.drv[e].attribs # Unset /\ bound'[e] = b[e]
    BY <1>2, <1>3 DEF StillBound
  <2>2. k.drv[e].attribs # Unset /\ k.drv[e].name = m.drv[e].name
    BY <2>1 DEF Follows, TableKept
  <2>3. QED
    BY <1>2, <1>3, <2>1, <2>2
<1>4. bound' = [e \in Drives |-> bound'[e]]
  BY DEF StillBound
<1>5. QED
  BY <1>1, <1>3, <1>4 DEF Bindings

LEMMA StepBindings ==
  ASSUME {"two-files", "unmount-first", "stays-put"} \subseteq Habits,
         State, Bindings, [HNext]_hvars
  PROVE  Bindings'
<1>1. CASE HostFileCommand
  <2>1. bound' = bound
    BY <1>1 DEF HostFileCommand
  <2>2. ASSUME NEW h \in Slots \ {3}, FileStep(h) PROVE Bindings'
    BY <2>1, <2>2, FileBindings
  <2>3. ASSUME NEW h \in HostFiles, OwnSlot(h) PROVE h \in Slots \ {3}
    BY <2>3, HostAssumption DEF OwnSlot, Has
  <2>4. ASSUME NEW h \in HostFiles, NEW n \in HostNames, OwnSlot(h), LeavesSlot3(h),
               FileOpenRead(h, n) \/ FileOpenWrite(h, n) \/ FileOpenRAF(h, n)
        PROVE  Bindings'
    <3>1. h \in Slots \ {3}
      BY <2>3, <2>4
    <3>2. PICK mode \in {"read", "write", "both"}, how \in {"existing", "new", "always"} :
             fileOpen(h, n, mode, how)
      BY <2>4 DEF FileOpenRead, FileOpenWrite, FileOpenRAF
    <3>3. PICK g \in Slots : /\ FileStep(g)
                             /\ g = h \/ (h # 0 /\ FreeSlots # {} /\ g = FirstFree)
      BY <3>1, <3>2, FileOpenStep
    <3>4. g # 3
      BY <2>4, <3>1, <3>3 DEF LeavesSlot3, Has
    <3>5. QED
      BY <2>2, <3>3, <3>4
  <2>5. ASSUME NEW h \in HostFiles, OwnSlot(h), FileRead(h) \/ FileClose(h)
        PROVE  Bindings'
    BY <2>2, <2>3, <2>5, FileReadStep, FileCloseStep
  <2>6. ASSUME NEW h \in HostFiles, NEW v \in HostData, OwnSlot(h), FileWrite(h, v)
        PROVE  Bindings'
    BY <2>2, <2>3, <2>6, FileWriteStep, HostAssumption
  <2>7. ASSUME NEW h \in HostFiles, NEW ofs \in 0..Capacity, OwnSlot(h),
               FileSeek(h, ofs)
        PROVE  Bindings'
    BY <2>2, <2>3, <2>7, FileSeekStep
  <2>8. ASSUME NEW n \in HostNames \cup ImageNames, FileDelete(n) PROVE Bindings'
    BY <2>2, <2>8, FileDeleteStep, SlotFacts
  <2>9. ASSUME NEW c \in Dirs, StaysPut(c), SetCWDirectory(c) PROVE Bindings'
    <3>1. /\ cdir' \in {cdir, c} /\ fildata' = fildata /\ driveInfo' = driveInfo
          /\ lastDriveNo' = lastDriveNo
      BY <2>9, ChdirStep
    <3>2. cdir' = cdir \/ \A d \in Drives : driveInfo[d].attribs = Unset
      BY <2>9, <3>1 DEF StaysPut, Has, Mounted
    <3>3. lastDriveNo \in Drives \cup {NoDrive}
      BY DEF State, TypeOK
    <3>4. Backed(Machine)'
      BY <3>1, <3>2, <3>3 DEF Bindings, Backed, Machine
    <3>5. QED
      BY <2>1, <3>1, <3>2, <3>4 DEF Bindings
  <2>10. QED
    BY <1>1, <2>4, <2>5, <2>6, <2>7, <2>8, <2>9 DEF HostFileCommand
<1>2. ASSUME NEW d \in Drives, DriveStep(d),
             bound' = StillBound(bound)
      PROVE  Bindings'
  <2>1. PICK m, s : Settled(m, s) /\ Follows(Machine, m, d)
    BY <1>2 DEF DriveStep
  <2>2. Machine.cdir = cdir /\ Machine.drv = driveInfo
    BY DEF Machine
  <2>3. QED
    BY <1>2, <2>1, <2>2, DriveBindings DEF Bindings
<1>3. ASSUME NEW d \in HostDrives, NEW s \in Sectors, HostParam(d, s) PROVE Bindings'
  <2>1. UNCHANGED <<bound, driveInfo, lastDriveNo, fildata, cdir>>
    BY <1>3 DEF HostParam, LoadParam
  <2>2. Backed(Machine)'
    BY <2>1 DEF Bindings, Backed, Machine
  <2>3. QED
    BY <2>1, <2>2 DEF Bindings
<1>4. ASSUME NEW d \in HostDrives, NEW n \in ImageNames, HostMount(d, n)
      PROVE  Bindings'
  <2> DEFINE a == Asked(d, n)
             info == [name |-> n, attribs |-> NoAttr]
             b == [bound EXCEPT ![d] = <<cdir, n>>]
  <2>1. d \in Drives /\ lastDriveNo # d /\ OpenSDDOSImg(d, n) /\ bound' = StillBound(b)
    BY <1>4, HostAssumption DEF HostMount, JustUnmounted, Has
  <2>2. PICK m, s : Settled(m, s) /\ Follows(a, m, d)
    BY <2>1, OpenImgStep
  <2>3. /\ a.cdir = cdir /\ a.last = lastDriveNo /\ a.fil = fildata
        /\ a.drv[d] = info /\ \A e \in Drives \ {d} : a.drv[e] = driveInfo[e]
    <3>1. info \in ImgInfo
      BY DEF ImgInfo, Attr, NoAttr
    <3>2. /\ Machine.cdir = cdir /\ Machine.last = lastDriveNo
          /\ Machine.fil = fildata /\ Machine.drv = driveInfo
      BY DEF Machine
    <3>3. QED
      BY <2>1, <3>1, <3>2, MachineState, SetDriveLemma DEF Asked
  <2>4. lastDriveNo \in Drives \cup {NoDrive}
    BY DEF State, TypeOK
  <2> HIDE DEF a
  <2>5. Backed(a)
    BY <2>1, <2>3, <2>4 DEF Bindings, Backed, Machine
  <2>6. ASSUME NEW e \in Drives, b[e] # NoPath, a.drv[e].attribs # Unset
        PROVE  b[e] = <<cdir, a.drv[e].name>>
    <3>1. CASE e = d
      <4>1. b[e] = <<cdir, n>>
        BY <2>1, <3>1 DEF Bindings
      <4>2. QED
        BY <2>3, <2>6, <3>1, <4>1
    <3>2. CASE e # d
      BY <2>3, <2>6, <3>2 DEF Bindings
    <3>3. QED
      BY <3>1, <3>2
  <2> HIDE DEF b, info
  <2>7. QED
    BY <2>1, <2>2, <2>3, <2>5, <2>6, DriveBindings
<1>5. ASSUME NEW d \in HostDrives, HostUnmount(d) PROVE Bindings'
  BY <1>2, <1>5, UnmountStep, HostAssumption DEF HostUnmount
<1>6. CASE HostLoadTable
  <2>1. lastDriveNo = NoDrive /\ ValidateSDDOSDrives
        /\ bound' = StillBound([d \in Drives |-> <<cdir, driveInfo'[d].name>>])
    BY <1>6 DEF HostLoadTable, AtPowerOn, Has
  <2>2. PICK m, s : Settled(m, s) /\ m.cdir = cdir /\ Backed(m)
    BY <2>1, ValidateStep
  <2>3. Backed(Machine)'
    BY <2>2, SettledBacked
  <2>4. cdir' = cdir
    BY <2>2 DEF Settled, Becomes
  <2>5. QED
    BY <2>1, <2>3, <2>4 DEF Bindings, StillBound
<1>7. CASE HostSaveTable
  <2>1. DriveStep(0) /\ bound' = bound
    BY <1>7, SaveStep DEF HostSaveTable
  <2>2. PICK m, s : Settled(m, s) /\ m \in saveDrivesImpl(Machine)
    BY <1>7, MachineState, SaveLemma, StatusLemma
    DEF HostSaveTable, SerialiseSDDOSDrives, Settled, ThroughScratch
  <2>3. ThroughScratch(Machine, m) /\ m.drv = Machine.drv
    BY <2>2, MachineState, SaveLemma
  <2>4. /\ cdir' = cdir /\ driveInfo' = driveInfo /\ lastDriveNo' = lastDriveNo
        /\ fildata'[3] = fildata[3]
    BY <2>2, <2>3, SlotFacts DEF Settled, Becomes, ThroughScratch, Machine
  <2>5. Backed(Machine)'
    BY <2>4 DEF Bindings, Backed, Machine
  <2>6. QED
    BY <2>1, <2>4, <2>5 DEF Bindings
<1>8. CASE HostReadSector
  BY <1>2, <1>8, ReadSectorStep DEF HostReadSector, State, TypeOK
<1>9. ASSUME NEW v \in HostData, HostWriteSector(v) PROVE Bindings'
  BY <1>2, <1>9, WriteSectorStep, HostAssumption DEF HostWriteSector, State, TypeOK
<1>10. CASE PowerCycle
  <2>1. lastDriveNo' = NoDrive /\ bound' = [d \in Drives |-> NoPath]
    BY <1>10 DEF PowerCycle, Restart
  <2>2. Backed(Machine)'
    BY <2>1 DEF Backed, Machine
  <2>3. QED
    BY <2>1, <2>2 DEF Bindings
<1>11. CASE UNCHANGED hvars
  <2>1. UNCHANGED <<bound, driveInfo, lastDriveNo, fildata, cdir>>
    BY <1>11 DEF hvars, vars
  <2>2. Backed(Machine)'
    BY <2>1 DEF Bindings, Backed, Machine
  <2>3. QED
    BY <2>1, <2>2 DEF Bindings
<1>12. QED
  BY <1>1, <1>3, <1>4, <1>5, <1>6, <1>7, <1>8, <1>9, <1>10, <1>11 DEF HNext

LEMMA InitBindings == HInit => Bindings
  BY DEF HInit, Init, Bindings, Backed, Machine

LEMMA BindingsSelect == State /\ Bindings => SelectedImage
<1> SUFFICES ASSUME State, Bindings, lastDriveNo # NoDrive, bound[lastDriveNo] # NoPath
             PROVE  /\ fildata[3].open /\ fildata[3].path = bound[lastDriveNo]
                    /\ fildata[3].mode = "both"
  BY SlotFacts DEF SelectedImage
<1>1. lastDriveNo \in Drives
  BY DEF State, TypeOK
<1>2. driveInfo[lastDriveNo].attribs # Unset
      /\ bound[lastDriveNo] = <<cdir, driveInfo[lastDriveNo].name>>
  BY <1>1 DEF Bindings
<1>3. QED
  BY <1>2 DEF Bindings, Backed, Machine

\* For a host that never gives fildata[3] to its own files, mounts only in a
\* drive it has unmounted, and stays in its directory while a drive is mounted,
\* every sector command works on the image its drive was mounted with: whatever
\* fails, whatever is deleted, saved or loaded in between.
THEOREM SelectedImageHolds ==
  ASSUME {"two-files", "unmount-first", "stays-put"} \subseteq Habits
  PROVE  HSpec => []SelectedImage
<1>1. State /\ Bindings /\ [HNext]_hvars => State' /\ Bindings'
  BY StepState, StepBindings
<1>2. State /\ Bindings => SelectedImage
  BY BindingsSelect
<1>3. QED
  BY <1>1, <1>2, InitState, InitBindings, PTL DEF HSpec

----------------------------------------------------------------------------
(* BOOTDRV.CFG and the mounted drives *)

CfgFile == <<Root, CfgName>>

\* No FIL is open on BOOTDRV.CFG: between two commands nothing can change it.
NotOpen(m) == \A h \in Slots : m.fil[h].open => m.fil[h].path # CfgFile

\* If nothing is open on BOOTDRV.CFG, the call leaves it as it is and unopened.
Spares(m, n) == NotOpen(m) => NotOpen(n) /\ n.vol[CfgFile] = m.vol[CfgFile]

LEMMA SparesTrans ==
  ASSUME NEW m, NEW k, NEW n, Spares(m, k), Spares(k, n)
  PROVE  Spares(m, n)
  BY DEF Spares

LEMMA CfgFilePath == CfgFile \in Path
  BY NamesAssumption DEF CfgFile, Path, Names

----------------------------------------------------------------------------
(* The calls on a FIL *)

\* On the card only the file of FIL h is touched.
OnlyFile(m, n, h) ==
    \/ n.vol = m.vol
    \/ m.fil[h].open /\ \A q \in Path \ {m.fil[h].path} : n.vol[q] = m.vol[q]

LEMMA KeptSpares ==
  ASSUME NEW m, NEW n, NEW h \in Slots, Kept(m, n, h), OnlyFile(m, n, h)
  PROVE  Spares(m, n)
<1>1. NotOpen(m) => NotOpen(n)
  BY DEF Kept, Frame, SameFile, NotOpen
<1>2. NotOpen(m) => n.vol[CfgFile] = m.vol[CfgFile]
  BY CfgFilePath DEF NotOpen, OnlyFile
<1>3. QED
  BY <1>1, <1>2 DEF Spares

LEMMA VolKept ==
  ASSUME NEW m \in MachineType, NEW h \in Slots, NEW f, NEW r, NEW v
  PROVE  /\ SetFil(m, h, f, r).vol = m.vol
         /\ Return(m, r).vol = m.vol
         /\ SetData(SetFil(m, h, f, r), v).vol = m.vol
         /\ Aborted(m, h).vol = m.vol
  BY DEF SetFil, Return, SetData, Aborted, MachineType

LEMMA FlushOnlyFile ==
  ASSUME NEW m, MachineOK(m), NEW h \in Slots, m.fil[h].open
  PROVE  OnlyFile(m, FlushBuf(m, h), h)
<1> DEFINE f == m.fil[h]
           e == [m.vol[f.path] EXCEPT !.blk[f.buf] = f.val]
<1>1. CASE ~f.dirty
  BY <1>1 DEF FlushBuf, OnlyFile
<1>2. CASE f.dirty
  <2>1. FlushBuf(m, h).vol = [m.vol EXCEPT ![f.path] = e]
    BY <1>2 DEF FlushBuf, MachineOK, MachineType
  <2> HIDE DEF e
  <2>2. \A q \in Path \ {f.path} : FlushBuf(m, h).vol[q] = m.vol[q]
    BY <2>1 DEF MachineOK, MachineType
  <2>3. QED
    BY <2>2 DEF OnlyFile
<1>3. QED
  BY <1>1, <1>2

\* A call that leaves the card as it is or as the FIL's flushed buffer makes it.
LEMMA FlushedSpares ==
  ASSUME NEW m, MachineOK(m), NEW h \in Slots, NEW n, Kept(m, n, h),
         n.vol = m.vol \/ (m.fil[h].open /\ n.vol = FlushBuf(m, h).vol)
  PROVE  Spares(m, n) /\ OnlyFile(m, n, h)
<1>1. OnlyFile(m, n, h)
  BY FlushOnlyFile DEF OnlyFile
<1>2. QED
  BY <1>1, KeptSpares

LEMMA FlushedMachine ==
  ASSUME NEW m, MachineOK(m), NEW h \in Slots, m.fil[h].open
  PROVE  FlushBuf(m, h) \in MachineType /\ m \in MachineType
  BY FlushLemma DEF Kept, MachineOK

LEMMA ReadSpares ==
  ASSUME NEW m, MachineOK(m), NEW h \in Slots, NEW n \in f_read(m, h)
  PROVE  Spares(m, n) /\ OnlyFile(m, n, h)
<1> DEFINE f == m.fil[h]
           x == FlushBuf(m, h)
           y == LoadBuf(m, h, f.fptr)
           no == Refusal(f, CanRead(f))
<1>1. Kept(m, n, h)
  BY ReadLemma DEF CallResult
<1>2. CASE no # FR_OK \/ f.fptr >= f.size
  <2>1. \E r : n = Return(m, r)
    BY <1>2 DEF f_read
  <2>2. n.vol = m.vol
    BY <2>1, VolKept DEF MachineOK
  <2>3. QED
    BY <1>1, <2>2, FlushedSpares
<1>3. CASE no = FR_OK /\ ~(f.fptr >= f.size)
  <2>1. f.open
    <3>1. CanRead(f) \in BOOLEAN
      BY DEF CanRead
    <3>2. QED
      BY <1>3, <3>1, RefusalLemma
  <2>2. x \in MachineType /\ m \in MachineType
    BY <2>1, FlushedMachine
  <2>3. f.fptr \in Sectors
    BY <1>3, <2>1, OpenFil, CapacityAssumption DEF Fil, Sectors
  <2>4. y \in MachineType
    BY <2>1, <2>3, LoadBufLemma DEF Kept, MachineOK
  <2>5. y.vol = x.vol
    <3>1. y = x \/ \E g, r : y = SetFil(x, h, g, r)
      BY DEF LoadBuf
    <3> HIDE DEF x, y
    <3>2. QED
      BY <2>2, <3>1, VolKept
  <2>6. \/ \E g, v : n = SetData(SetFil(y, h, g, FR_OK), v)
        \/ n = Aborted(m, h)
        \/ n = Aborted(x, h)
    BY <1>3 DEF f_read, OrFault
  <2> HIDE DEF x, y
  <2>7. n.vol = m.vol \/ n.vol = x.vol
    BY <2>2, <2>4, <2>5, <2>6, VolKept
  <2>8. QED
    BY <1>1, <2>1, <2>7, FlushedSpares DEF x
<1>4. QED
  BY <1>2, <1>3

LEMMA WriteSpares ==
  ASSUME NEW m, MachineOK(m), NEW h \in Slots, NEW v \in Value,
         NEW n \in f_write(m, h, v)
  PROVE  Spares(m, n) /\ OnlyFile(m, n, h)
<1> DEFINE f == m.fil[h]
           x == FlushBuf(m, h)
           no == Refusal(f, CanWrite(f))
<1>1. Kept(m, n, h)
  BY WriteLemma DEF CallResult
<1>2. CASE no # FR_OK \/ f.fptr >= Capacity
  <2>1. (\E r : n = Return(m, r)) \/ (\E g, r : n = SetFil(m, h, g, r))
    BY <1>2 DEF f_write
  <2>2. n.vol = m.vol
    BY <2>1, VolKept DEF MachineOK
  <2>3. QED
    BY <1>1, <2>2, FlushedSpares
<1>3. CASE no = FR_OK /\ ~(f.fptr >= Capacity)
  <2>1. f.open
    <3>1. CanWrite(f) \in BOOLEAN
      BY DEF CanWrite
    <3>2. QED
      BY <1>3, <3>1, RefusalLemma
  <2>2. x \in MachineType /\ m \in MachineType
    BY <2>1, FlushedMachine
  <2>3. \/ \E g : n = SetFil(x, h, g, FR_OK)
        \/ n = Aborted(m, h)
        \/ n = Aborted(x, h)
    BY <1>3 DEF f_write, OrFault
  <2> HIDE DEF x
  <2>4. n.vol = m.vol \/ n.vol = x.vol
    BY <2>2, <2>3, VolKept
  <2>5. QED
    BY <1>1, <2>1, <2>4, FlushedSpares DEF x
<1>4. QED
  BY <1>2, <1>3

LEMMA SeekSpares ==
  ASSUME NEW m, MachineOK(m), NEW h \in Slots, NEW ofs \in Nat,
         NEW n \in f_lseek(m, h, ofs)
  PROVE  Spares(m, n) /\ OnlyFile(m, n, h)
<1>1. Kept(m, n, h)
  BY SeekLemma DEF CallResult
<1>2. \/ \E r : n = Return(m, r)
      \/ \E g, r : n = SetFil(m, h, g, r)
      \/ n = Aborted(m, h)
  BY DEF f_lseek, OrFault
<1>3. n.vol = m.vol
  BY <1>2, VolKept DEF MachineOK
<1>4. QED
  BY <1>1, <1>3, FlushedSpares

LEMMA SyncSpares ==
  ASSUME NEW m, MachineOK(m), NEW h \in Slots, NEW n \in f_sync(m, h)
  PROVE  Spares(m, n) /\ OnlyFile(m, n, h) /\ Kept(m, n, h)
<1> DEFINE f == m.fil[h]
           x == FlushBuf(m, h)
           u == UpdateEntry(x, h)
<1>1. Kept(m, n, h)
  BY SyncLemma DEF CallResult
<1>2. CASE \E r : n = Return(m, r)
  <2>1. n.vol = m.vol
    BY <1>2, VolKept DEF MachineOK
  <2>2. QED
    BY <1>1, <2>1, FlushedSpares
<1>3. CASE f.open /\ n = Return(x, FR_DISK_ERR)
  <2>1. n.vol = x.vol
    BY <1>3, FlushedMachine, VolKept
  <2>2. QED
    BY <1>1, <1>3, <2>1, FlushedSpares
<1>4. CASE f.open /\ n = u
  <2>1. x \in MachineType /\ x.fil[h].path = f.path
    <3>1. Kept(m, x, h)
      BY <1>4, FlushLemma
    <3> HIDE DEF x
    <3>2. QED
      BY <3>1 DEF Kept, MachineOK, SameFile
  <2> HIDE DEF x
  <2>2. \E e : n.vol = [x.vol EXCEPT ![f.path] = e]
    BY <1>4, <2>1 DEF UpdateEntry, MachineType
  <2>3. \A q \in Path \ {f.path} : n.vol[q] = x.vol[q]
    BY <2>1, <2>2 DEF MachineType
  <2>4. OnlyFile(m, x, h)
    BY <1>4, FlushOnlyFile DEF x
  <2>5. OnlyFile(m, n, h)
    BY <1>4, <2>3, <2>4 DEF OnlyFile
  <2>6. QED
    BY <1>1, <2>5, KeptSpares
<1>5. QED
  <2>1. \/ \E r : n = Return(m, r)
        \/ f.open /\ n = Return(x, FR_DISK_ERR)
        \/ f.open /\ n = u
    BY DEF f_sync, OrFault
  <2> HIDE DEF f, x, u
  <2>2. QED
    BY <1>1, <1>2, <1>3, <1>4, <2>1

LEMMA CloseSpares ==
  ASSUME NEW m, MachineOK(m), NEW h \in Slots, NEW n \in f_close(m, h)
  PROVE  Spares(m, n) /\ OnlyFile(m, n, h)
<1>1. PICK k \in f_sync(m, h) :
         n = IF k.res = FR_OK THEN [k EXCEPT !.fil[h] = Closed] ELSE k
  BY DEF f_close
<1>2. Spares(m, k) /\ OnlyFile(m, k, h) /\ MachineOK(k)
  BY SyncSpares DEF Kept
<1>3. n.vol = k.vol
  BY <1>1, <1>2 DEF MachineOK, MachineType
<1>4. \A g \in Slots : n.fil[g] = k.fil[g] \/ n.fil[g] = Closed
  BY <1>1, <1>2 DEF MachineOK, MachineType
<1>5. QED
  BY <1>2, <1>3, <1>4, ClosedType DEF Spares, NotOpen, OnlyFile

\* f_open adds at most an empty entry.
LEMMA OpenVol ==
  ASSUME NEW m, MachineOK(m), NEW h \in Slots, NEW p, NEW mode, NEW how,
         NEW n \in f_open(m, h, p, mode, how)
  PROVE  n.vol = m.vol \/ n.vol = [m.vol EXCEPT ![p] = NewEntry]
<1> DEFINE k == [m EXCEPT !.vol[p] = NewEntry, !.fresh = @ \cup {p}]
<1>1. k.vol = [m.vol EXCEPT ![p] = NewEntry]
  BY DEF MachineOK, MachineType
<1>2. \A f, r : SetFil(m, h, f, r).vol = m.vol
  BY VolKept DEF MachineOK
<1>3. \A new : Opened(m, h, p, mode, new).vol = m.vol
  BY DEF Opened, MachineOK, MachineType
<1>4. \A new : Opened(k, h, p, mode, new).vol = k.vol
  BY DEF Opened, MachineOK, MachineType
<1>5. \/ \E f, r : n = SetFil(m, h, f, r)
      \/ \E new : n = Opened(m, h, p, mode, new)
      \/ \E new : n = Opened(k, h, p, mode, new)
  BY DEF f_open, OrFault
<1> HIDE DEF k
<1>6. QED
  BY <1>1, <1>2, <1>3, <1>4, <1>5

LEMMA OpenSpares ==
  ASSUME NEW m, MachineOK(m), NEW h \in Slots, NEW p, p # CfgFile,
         NEW mode \in {"read", "write", "both"}, NEW how,
         NEW n \in f_open(m, h, p, mode, how)
  PROVE  Spares(m, n)
<1>1. OpenResult(m, n, h, p, mode)
  BY OpenLemma
<1>2. NotOpen(m) => NotOpen(n)
  BY <1>1 DEF OpenResult, Frame, NotOpen
<1>3. n.vol = m.vol \/ n.vol = [m.vol EXCEPT ![p] = NewEntry]
  BY OpenVol
<1>4. n.vol[CfgFile] = m.vol[CfgFile]
  BY <1>3, CfgFilePath DEF MachineOK, MachineType
<1>5. QED
  BY <1>2, <1>4 DEF Spares

LEMMA UnlinkSpares ==
  ASSUME NEW m, MachineOK(m), NEW p, p # CfgFile,
         \A h \in Slots : m.fil[h].open => m.fil[h].path # p,
         NEW n \in f_unlink(m, p)
  PROVE  Spares(m, n)
<1> DEFINE gone == [m EXCEPT !.vol[p] = NoEntry]
<1>1. n.fil = m.fil
  BY UnlinkLemma
<1>2. n.vol = m.vol \/ n.vol = gone.vol
  BY DEF f_unlink, OrFault, Return, MachineOK, MachineType
<1>3. gone.vol = [m.vol EXCEPT ![p] = NoEntry]
  BY DEF MachineOK, MachineType
<1> HIDE DEF gone
<1>4. n.vol[CfgFile] = m.vol[CfgFile]
  BY <1>2, <1>3, CfgFilePath DEF MachineOK, MachineType
<1>5. QED
  BY <1>1, <1>4 DEF Spares, NotOpen

----------------------------------------------------------------------------
(* The drive operators *)

LEMMA SpareSame ==
  ASSUME NEW m, NEW n, n.vol = m.vol, n.fil = m.fil
  PROVE  Spares(m, n)
  BY DEF Spares, NotOpen

\* No image is called BOOTDRV.CFG.
LEMMA ImagePathApart ==
  ASSUME NEW m, MachineOK(m), NEW d \in Drives
  PROVE  <<m.cdir, m.drv[d].name>> # CfgFile
<1>1. m.drv[d].name \in ImageNames \cup {NoName}
  BY DriveType DEF ImgInfo
<1>2. m.drv[d].name # CfgName
  BY <1>1, NamesAssumption
<1>3. QED
  BY <1>2 DEF CfgFile

LEMMA SwitchSpares ==
  ASSUME NEW m, MachineOK(m), NEW d \in Drives, NEW n \in switchDrive(m, d)
  PROVE  Spares(m, n)
<1>1. CASE d = m.last
  <2>1. n = Return(m, FR_OK) /\ FR_OK \in 0..255
    BY <1>1, ResultCodes DEF switchDrive
  <2>2. n.vol = m.vol /\ n.fil = m.fil
    BY <2>1, ReturnSame DEF OnlyResult
  <2>3. QED
    BY <2>2, SpareSame
<1>2. CASE d # m.last
  <2> DEFINE p == <<m.cdir, m.drv[d].name>>
  <2>1. PICK c \in (IF m.last # NoDrive THEN f_close(m, SDDOS_FILE) ELSE {m}) :
          \E o \in f_open([c EXCEPT !.last = NoDrive], SDDOS_FILE, p,
                          "both", "existing") :
             n = IF o.res = FR_OK THEN [o EXCEPT !.last = d] ELSE o
    BY <1>2 DEF switchDrive
  <2>2. MachineOK(c) /\ Spares(m, c)
    BY <2>1, CloseLemma, CloseSpares, SlotFacts, SpareSame
  <2> DEFINE x == [c EXCEPT !.last = NoDrive]
  <2>3. MachineOK(x) /\ x.vol = c.vol /\ x.fil = c.fil
    BY <2>2, SelectLemma
  <2>4. p # CfgFile
    BY ImagePathApart
  <2> HIDE DEF x, p
  <2>5. PICK o \in f_open(x, 3, p, "both", "existing") :
             n = IF o.res = FR_OK THEN [o EXCEPT !.last = d] ELSE o
    BY <2>1, SlotFacts DEF x
  <2>6. Spares(c, x)
    BY <2>3, SpareSame
  <2>7. OpenResult(x, o, 3, p, "both")
    BY <2>3, <2>5, OpenLemma, SlotFacts
  <2>8. Spares(x, o)
    BY <2>3, <2>4, <2>5, OpenSpares, SlotFacts
  <2>9. n.vol = o.vol /\ n.fil = o.fil
    BY <2>5, <2>7, SelectLemma DEF OpenResult
  <2>10. Spares(o, n)
    BY <2>9, SpareSame
  <2>11. QED
    BY <2>2, <2>6, <2>8, <2>10, SparesTrans
<1>3. QED
  BY <1>1, <1>2

LEMMA SetDriveSpares ==
  ASSUME NEW m, MachineOK(m), NEW d \in Drives, NEW info
  PROVE  Spares(m, SetDrive(m, d, info))
<1>1. SetDrive(m, d, info).vol = m.vol /\ SetDrive(m, d, info).fil = m.fil
  BY DEF SetDrive, MachineOK, MachineType
<1>2. QED
  BY <1>1, SpareSame

LEMMA TrySpares ==
  ASSUME NEW m, MachineOK(m), NEW d \in Drives, NEW n \in tryOpenImage(m, d)
  PROVE  Spares(m, n)
<1>1. PICK x \in switchDrive(m, d) :
         \/ \E r : n = Return(x, r)
         \/ \E a : n = Return([x EXCEPT !.drv[d].attribs = a], a)
  BY DEF tryOpenImage
<1>2. MachineOK(x) /\ Spares(m, x)
  BY <1>1, SwitchLemma, SwitchSpares DEF Selects
<1>3. n.vol = x.vol /\ n.fil = x.fil
  BY <1>1, <1>2 DEF Return, MachineOK, MachineType
<1>4. QED
  BY <1>2, <1>3, SpareSame, SparesTrans

LEMMA ValidateSpares ==
  ASSUME NEW m, MachineOK(m), NEW d \in Drives, NEW n \in ValidateDrive(m, d)
  PROVE  Spares(m, n) /\ MachineOK(n) /\ n.cdir = m.cdir
<1>1. MachineOK(n) /\ n.cdir = m.cdir
  BY ValidateLemma DEF Validated
<1>2. CASE m.drv[d].attribs = Unset
  BY <1>1, <1>2, SetDriveSpares DEF ValidateDrive
<1>3. CASE m.drv[d].attribs # Unset
  <2>1. PICK t \in tryOpenImage(m, d) : n = SetDrive(t, d, Unused) \/ n = t
    BY <1>3 DEF ValidateDrive
  <2>2. MachineOK(t) /\ Spares(m, t)
    BY <1>3, <2>1, TryLemma, TrySpares DEF Selects
  <2>3. QED
    BY <1>1, <2>1, <2>2, SetDriveSpares, SparesTrans
<1>4. QED
  BY <1>2, <1>3

LEMMA ValidateAllSpares ==
  ASSUME NEW m, MachineOK(m), NEW n \in ValidateAll(m)
  PROVE  Spares(m, n) /\ MachineOK(n) /\ n.cdir = m.cdir
<1>1. PICK m1 \in ValidateDrive(m, 0) :
         \E m2 \in ValidateDrive(m1, 1) : \E m3 \in ValidateDrive(m2, 2) :
             n \in ValidateDrive(m3, 3)
  BY DEF ValidateAll
<1>2. Spares(m, m1) /\ MachineOK(m1) /\ m1.cdir = m.cdir
  BY <1>1, ValidateSpares, SlotFacts
<1>3. PICK m2 \in ValidateDrive(m1, 1) : \E m3 \in ValidateDrive(m2, 2) :
         n \in ValidateDrive(m3, 3)
  BY <1>1
<1>4. Spares(m1, m2) /\ MachineOK(m2) /\ m2.cdir = m1.cdir
  BY <1>2, <1>3, ValidateSpares, SlotFacts
<1>5. PICK m3 \in ValidateDrive(m2, 2) : n \in ValidateDrive(m3, 3)
  BY <1>3
<1>6. Spares(m2, m3) /\ MachineOK(m3) /\ m3.cdir = m2.cdir
  BY <1>4, <1>5, ValidateSpares, SlotFacts
<1>7. Spares(m3, n) /\ MachineOK(n) /\ n.cdir = m3.cdir
  BY <1>5, <1>6, ValidateSpares, SlotFacts
<1>8. QED
  BY <1>2, <1>4, <1>6, <1>7, SparesTrans

----------------------------------------------------------------------------
(* Saving and loading the table, on a card that does not fail *)

\* f_open may write BOOTDRV.CFG, and the table goes to the root directory.
Writable(m) ==
    /\ m.cdir = Root
    /\ m.vol[CfgFile] # NoEntry => m.vol[CfgFile].attr # AM_RDO

\* The table m holds is the one on its card.
Saved(m) ==
    LET e == m.vol[CfgFile] IN
    e # NoEntry /\ e.size > 0 /\ e.attr # AM_RDO /\ e.blk[0] = m.drv

\* The FIL f_open leaves: on the file, at its start, with an empty buffer.
OpenedAt(m, h, p, mode) ==
    LET f == m.fil[h] IN
    /\ MachineOK(m) /\ f.open /\ f.path = p /\ f.mode = mode
    /\ f.fptr = 0 /\ ~f.dirty /\ ~f.err

\* The machine Opened makes of one with card v and table t.
JustOpened(n, h, p, mode, new, v, t) ==
    LET f == n.fil[h] IN
    /\ f.open /\ f.path = p /\ f.mode = mode /\ f.fptr = 0
    /\ ~f.dirty /\ ~f.err /\ f.written = new
    /\ n.res = FR_OK /\ n.vol = v /\ n.drv = t

LEMMA OpenedLemma ==
  ASSUME NEW m \in MachineType, NEW h \in Slots, NEW p \in Path, NEW mode, NEW new
  PROVE  JustOpened(Opened(m, h, p, mode, new), h, p, mode, new, m.vol, m.drv)
  BY DEF Opened, MachineType, JustOpened

\* f_open of BOOTDRV.CFG fails in no other way than by not finding it.
LEMMA OpenCfg ==
  ASSUME ~Faults, NEW m, MachineOK(m), Writable(m),
         NEW mode \in {"read", "write", "both"}, NEW how \in {"existing", "always"},
         NEW n \in f_open(m, 0, CfgFile, mode, how)
  PROVE  /\ n.drv = m.drv /\ n.cdir = m.cdir
         /\ \/ /\ how = "existing" /\ n.res # FR_OK /\ ~n.fil[0].open
               /\ n.vol[CfgFile] = m.vol[CfgFile]
            \/ /\ n.res = FR_OK /\ OpenedAt(n, 0, CfgFile, mode)
               /\ how = "existing" => /\ n.vol[CfgFile] = m.vol[CfgFile]
                                      /\ ~n.fil[0].written
<1> DEFINE k == [m EXCEPT !.vol[CfgFile] = NewEntry, !.fresh = @ \cup {CfgFile}]
<1>1. OpenResult(m, n, 0, CfgFile, mode)
  BY OpenLemma, SlotFacts
<1>2. \/ /\ ~Exists(m, CfgFile) /\ how = "existing"
         /\ n = SetFil(m, 0, Closed, FR_NO_FILE)
      \/ ~Exists(m, CfgFile) /\ how = "always" /\ n = Opened(k, 0, CfgFile, mode, TRUE)
      \/ Exists(m, CfgFile) /\ n = Opened(m, 0, CfgFile, mode, FALSE)
  BY CfgFilePath DEF f_open, OrFault, Exists, Writable
<1>3. k \in MachineType
  BY CfgFilePath, NewEntryType, ZenonT(60) DEF MachineOK, MachineType
<1> HIDE DEF k
<1>4. CASE how = "existing" /\ n = SetFil(m, 0, Closed, FR_NO_FILE)
  <2>1. FilOK(m, Closed) /\ FR_NO_FILE \in 0..255 /\ FR_NO_FILE # FR_OK
    BY ClosedType, ResultCodes DEF FilOK, Errors
  <2>2. Replaced(m, n, 0, Closed, FR_NO_FILE)
    BY <1>4, <2>1, SetFilLemma, SlotFacts
  <2>3. QED
    BY <1>1, <1>4, <2>1, <2>2, ClosedType DEF Replaced, OpenResult, Frame
<1>5. CASE how = "always" /\ n = Opened(k, 0, CfgFile, mode, TRUE)
  <2>1. JustOpened(n, 0, CfgFile, mode, TRUE, k.vol, k.drv)
    BY <1>3, <1>5, OpenedLemma, CfgFilePath, SlotFacts
  <2>2. QED
    BY <1>1, <1>5, <2>1 DEF JustOpened, OpenResult, Frame, OpenedAt
<1>6. CASE n = Opened(m, 0, CfgFile, mode, FALSE)
  <2>1. JustOpened(n, 0, CfgFile, mode, FALSE, m.vol, m.drv)
    BY <1>6, OpenedLemma, CfgFilePath, SlotFacts DEF MachineOK
  <2>2. QED
    BY <1>1, <1>6, <2>1 DEF JustOpened, OpenResult, Frame, OpenedAt
<1>7. QED
  BY <1>2, <1>4, <1>5, <1>6

\* What f_write leaves of a FIL just opened for writing.
LEMMA WriteCfg ==
  ASSUME ~Faults, NEW m, OpenedAt(m, 0, CfgFile, "write"), NEW v \in Value,
         NEW n \in f_write(m, 0, v)
  PROVE  /\ MachineOK(n) /\ Frame(m, n, 0)
         /\ n.fil[0].open /\ n.fil[0].path = CfgFile /\ n.fil[0].dirty
         /\ n.fil[0].written /\ n.fil[0].buf = 0 /\ n.fil[0].val = v
         /\ n.fil[0].size > 0
<1> DEFINE f == m.fil[0]
           g == [f EXCEPT !.buf = f.fptr, !.val = v, !.dirty = TRUE,
                          !.fptr = f.fptr + 1,
                          !.size = Larger(f.size, f.fptr + 1), !.written = TRUE]
<1>1. MachineOK(m) /\ f \in Fil /\ f.open /\ f.path = CfgFile /\ f.mode = "write"
      /\ f.fptr = 0 /\ ~f.dirty /\ ~f.err
  BY OpenFil, SlotFacts DEF OpenedAt
<1>2. CallResult(m, n, 0)
  BY <1>1, WriteLemma, SlotFacts
<1>3. Refusal(f, CanWrite(f)) = FR_OK
  BY <1>1 DEF Refusal, CanWrite
<1>4. FlushBuf(m, 0) = m
  BY <1>1 DEF FlushBuf
<1>5. ~(f.fptr >= Capacity)
  BY <1>1, CapacityAssumption
<1>6. n = SetFil(m, 0, g, FR_OK)
  BY <1>3, <1>4, <1>5 DEF f_write, OrFault
<1>7. n.fil[0] = g
  BY <1>1, <1>6, SlotFacts DEF SetFil, MachineOK, MachineType
<1>8. /\ g.dirty /\ g.written /\ g.buf = 0 /\ g.val = v /\ g.size > 0
      /\ g.open /\ g.path = CfgFile
  BY <1>1 DEF Fil, Larger
<1> HIDE DEF g
<1>9. QED
  BY <1>2, <1>7, <1>8 DEF CallResult, Kept

\* f_close puts the sector and the size of the FIL on the card.
LEMMA CloseCfg ==
  ASSUME ~Faults, NEW m, MachineOK(m), m.fil[0].open, m.fil[0].path = CfgFile,
         m.fil[0].dirty, m.fil[0].written, m.fil[0].buf = 0, m.fil[0].size > 0,
         NEW n \in f_close(m, 0)
  PROVE  LET e == n.vol[CfgFile] IN
         /\ ~n.fil[0].open
         /\ e # NoEntry /\ e.size > 0 /\ e.attr # AM_RDO /\ e.blk[0] = m.fil[0].val
<1> DEFINE f == m.fil[0]
           x == FlushBuf(m, 0)
           u == UpdateEntry(x, 0)
           e == [m.vol[CfgFile] EXCEPT !.blk[0] = f.val]
           c == [e EXCEPT !.size = f.size, !.attr = AM_ARC]
<1>1. /\ m \in MachineType /\ f \in Fil /\ f.val \in Value
      /\ m.vol[CfgFile] \in Entry /\ 0 \in Sectors
  BY OpenFil, SlotFacts, CapacityAssumption DEF MachineOK, Sectors
<1>2. /\ x \in MachineType
      /\ x.fil[0].path = CfgFile /\ x.fil[0].size = f.size
  <2>1. MachineOK(x) /\ x.fil[0] = [f EXCEPT !.dirty = FALSE]
    BY FlushLemma, SlotFacts DEF Kept
  <2> HIDE DEF x
  <2>2. QED
    BY <1>1, <2>1 DEF MachineOK, Fil
<1>3. x.vol = [m.vol EXCEPT ![CfgFile] = e]
  BY <1>1 DEF FlushBuf, MachineType
<1>4. e \in Entry /\ e.blk[0] = f.val
  BY <1>1, SMTT(30) DEF Entry
<1>5. x.vol[CfgFile] = e
  BY <1>1, <1>3, CfgFilePath DEF MachineType
<1>6. c \in Entry /\ c.size = f.size /\ c.attr = AM_ARC /\ c.blk = e.blk
  BY <1>1, <1>4 DEF Entry, Fil, Attr
<1> HIDE DEF e
<1>7. u.vol[CfgFile] = c /\ u.res = FR_OK /\ u.fil \in [Slots -> Fil]
      /\ "fil" \in DOMAIN u /\ "vol" \in DOMAIN u
  <2>0. u \in f_sync(m, 0)
    BY DEF f_sync, OrFault
  <2> HIDE DEF x
  <2>1. u.vol = [x.vol EXCEPT ![CfgFile] = [x.vol[CfgFile] EXCEPT
                                  !.size = x.fil[0].size, !.attr = AM_ARC]]
    BY <1>2 DEF UpdateEntry, MachineType
  <2>2. u.vol[CfgFile] = c
    <3>1. u.vol = [x.vol EXCEPT ![CfgFile] = c]
      BY <1>2, <1>5, <2>1
    <3> HIDE DEF u, c
    <3>2. QED
      BY <1>2, <3>1, CfgFilePath DEF MachineType
  <2>3. u.res = FR_OK
    BY <1>2 DEF UpdateEntry, MachineType
  <2>4. MachineOK(u)
    BY <2>0, SyncSpares, SlotFacts DEF Kept
  <2> HIDE DEF u
  <2>5. QED
    BY <2>2, <2>3, <2>4 DEF MachineOK, MachineType
<1>8. n = [u EXCEPT !.fil[0] = Closed]
  <2>1. f_sync(m, 0) = {u}
    BY DEF f_sync, OrFault
  <2> HIDE DEF u
  <2>2. QED
    BY <1>7, <2>1 DEF f_close
<1> HIDE DEF u, c
<1>9. n.vol = u.vol /\ n.fil[0] = Closed
  BY <1>7, <1>8, SlotFacts
<1>10. QED
  BY <1>4, <1>6, <1>7, <1>9, ClosedType, NoEntryAssumption DEF Fil, AM_ARC, AM_RDO

\* After saveDrivesImpl the card holds the table.
LEMMA SaveSaves ==
  ASSUME ~Faults, NEW m, MachineOK(m), Writable(m), NotOpen(m),
         NEW n \in saveDrivesImpl(m)
  PROVE  NotOpen(n) /\ Saved(n) /\ n.drv = m.drv /\ n.cdir = m.cdir
<1> DEFINE x == SetData(m, Alien)
<1>1. ThroughScratch(m, n) /\ n.drv = m.drv
  BY SaveLemma
<1>2. /\ MachineOK(x) /\ Kept(m, x, 0) /\ x.vol = m.vol /\ x.fil = m.fil
  BY SetDataLemma, SlotFacts
<1> HIDE DEF x
<1>3. Writable(x) /\ x.drv = m.drv /\ x.cdir = Root
  BY <1>2 DEF Kept, Frame, Writable
<1>4. PICK o \in f_open(x, 0, CfgFile, "write", "always") :
         n \in (IF o.res # FR_OK THEN {o}
                ELSE UNION {f_close(w, 0) : w \in f_write(o, 0, o.drv)})
  BY DEF saveDrivesImpl, x, CfgFile, Writable
<1>5. o.drv = m.drv /\ o.res = FR_OK /\ OpenedAt(o, 0, CfgFile, "write")
  BY <1>2, <1>3, <1>4, OpenCfg
<1>6. PICK w \in f_write(o, 0, o.drv) : n \in f_close(w, 0)
  BY <1>4, <1>5
<1>7. o.drv \in Value
  BY <1>5, DriveType, SlotFacts
<1>8. /\ MachineOK(w) /\ w.fil[0].open /\ w.fil[0].path = CfgFile /\ w.fil[0].dirty
      /\ w.fil[0].written /\ w.fil[0].buf = 0 /\ w.fil[0].val = m.drv
      /\ w.fil[0].size > 0
  BY <1>5, <1>6, <1>7, WriteCfg
<1>9. /\ ~n.fil[0].open
      /\ n.vol[CfgFile] # NoEntry /\ n.vol[CfgFile].size > 0
      /\ n.vol[CfgFile].attr # AM_RDO /\ n.vol[CfgFile].blk[0] = m.drv
  BY <1>6, <1>8, CloseCfg
<1>10. NotOpen(n)
  BY <1>1, <1>9 DEF ThroughScratch, NotOpen
<1>11. QED
  BY <1>1, <1>9, <1>10 DEF ThroughScratch, Saved

\* Reading the table only changes the FIL, which is closed again.
LEMMA LoadSpares ==
  ASSUME ~Faults, NEW m, MachineOK(m), Writable(m), NEW n \in loadDrives(m)
  PROVE  Spares(m, n)
<1> DEFINE x == SetData(m, Alien)
           none == [d \in Drives |-> Unused]
<1>1. ThroughScratch(m, n)
  BY LoadLemma
<1>2. MachineOK(x) /\ Kept(m, x, 0) /\ x.vol = m.vol
  BY SetDataLemma, SlotFacts
<1> HIDE DEF x, none
<1>3. Writable(x)
  BY <1>2 DEF Kept, Frame, Writable
<1>4. PICK o \in f_open(x, 0, CfgFile, "read", "existing") :
         n \in (IF o.res # FR_OK THEN {[o EXCEPT !.drv = none]}
                ELSE UNION {UNION {f_close(l, 0) : l \in Overlaid(o, r)} :
                            r \in f_read(o, 0)})
  BY DEF loadDrives, x, none, CfgFile, Writable
<1>5. o.vol[CfgFile] = m.vol[CfgFile] /\ MachineOK(o)
  <2>1. OpenResult(x, o, 0, CfgFile, "read")
    BY <1>2, <1>4, OpenLemma, SlotFacts
  <2>2. o.vol[CfgFile] = x.vol[CfgFile]
    BY <1>2, <1>3, <1>4, OpenCfg
  <2>3. QED
    BY <1>2, <2>1, <2>2 DEF OpenResult
<1>6. SUFFICES ~n.fil[0].open /\ n.vol[CfgFile] = o.vol[CfgFile]
  BY <1>1, <1>5 DEF ThroughScratch, Spares, NotOpen
<1>7. CASE o.res # FR_OK
  <2>1. ~o.fil[0].open
    BY <1>2, <1>3, <1>4, <1>7, OpenCfg
  <2>2. n.fil = o.fil /\ n.vol = o.vol
    BY <1>4, <1>5, <1>7 DEF MachineOK, MachineType
  <2>3. QED
    BY <2>1, <2>2
<1>8. CASE o.res = FR_OK
  <2> DEFINE f == o.fil[0]
  <2>1. OpenedAt(o, 0, CfgFile, "read") /\ ~f.written
    BY <1>2, <1>3, <1>4, <1>8, OpenCfg
  <2>2. PICK r \in f_read(o, 0) : \E l \in Overlaid(o, r) : n \in f_close(l, 0)
    BY <1>4, <1>8
  <2>3. PICK l \in Overlaid(o, r) : n \in f_close(l, 0)
    BY <2>2
  <2>4. MachineOK(r)
    BY <1>5, <2>2, ReadLemma, SlotFacts DEF CallResult, Kept
  <2>5. r.vol = o.vol /\ r.fil[0].open /\ ~r.fil[0].written
    <3> DEFINE y == LoadBuf(o, 0, f.fptr)
    <3>1. /\ f \in Fil /\ f.open /\ ~f.dirty /\ f.fptr \in Sectors
          /\ FlushBuf(o, 0) = o /\ o \in MachineType
      <4>1. f.fptr \in Sectors
        BY <2>1, CapacityAssumption DEF OpenedAt, Sectors
      <4>2. QED
        BY <2>1, <4>1, OpenFil, SlotFacts DEF OpenedAt, FlushBuf, MachineOK
    <3>2. y \in MachineType /\ y.vol = o.vol /\ ~y.fil[0].written /\ y.fil[0].open
          /\ y.fil[0] \in Fil
      <4>1. MachineOK(y) /\ y.fil[0].open
        BY <1>5, <3>1, LoadBufLemma, SlotFacts DEF Kept, SameFile
      <4>2. y = o \/ \E b, v : y = SetFil(o, 0, [f EXCEPT !.buf = b, !.val = v], FR_OK)
        BY <3>1 DEF LoadBuf
      <4>3. y.vol = o.vol /\ ~y.fil[0].written
        <5>1. CASE y = o
          BY <2>1, <5>1
        <5>2. ASSUME NEW b, NEW v,
                     y = SetFil(o, 0, [f EXCEPT !.buf = b, !.val = v], FR_OK)
              PROVE  y.vol = o.vol /\ ~y.fil[0].written
          <6> DEFINE g == [f EXCEPT !.buf = b, !.val = v]
          <6>1. ~g.written
            BY <2>1, <3>1 DEF Fil
          <6> HIDE DEF g, y
          <6>2. y = SetFil(o, 0, g, FR_OK)
            BY <5>2 DEF g
          <6>3. y.vol = o.vol /\ y.fil[0] = g
            BY <3>1, <6>2, SlotFacts DEF SetFil, MachineType
          <6>4. QED
            BY <6>1, <6>3
        <5>3. QED
          BY <4>2, <5>1, <5>2
      <4> HIDE DEF y
      <4>4. QED
        BY <4>1, <4>3, OpenFil, SlotFacts DEF MachineOK
    <3>3. \/ \E q : r = Return(o, q)
          \/ \E q, v : r = SetData(SetFil(y, 0, [y.fil[0] EXCEPT !.fptr = q], FR_OK), v)
      BY DEF f_read, OrFault
    <3> HIDE DEF y
    <3>4. CASE \E q : r = Return(o, q)
      BY <2>1, <3>1, <3>4 DEF Return, MachineType
    <3>5. CASE \E q, v : r = SetData(SetFil(y, 0, [y.fil[0] EXCEPT !.fptr = q], FR_OK), v)
      BY <3>2, <3>5, SlotFacts DEF SetFil, SetData, MachineType, Fil
    <3>6. QED
      BY <3>3, <3>4, <3>5
  <2>6. /\ l.vol = o.vol /\ l.fil[0].open /\ ~l.fil[0].written
        /\ "res" \in DOMAIN l /\ "vol" \in DOMAIN l /\ "fil" \in DOMAIN l
        /\ l.fil \in [Slots -> Fil]
    <3>1. r \in MachineType
      BY <2>4 DEF MachineOK
    <3>2. l = r \/ \E t : l = [r EXCEPT !.drv = t, !.data = Alien]
      BY <2>3 DEF Overlaid
    <3>3. l.vol = r.vol /\ l.fil = r.fil
          /\ "res" \in DOMAIN l /\ "vol" \in DOMAIN l /\ "fil" \in DOMAIN l
      BY <3>1, <3>2 DEF MachineType
    <3>4. r.fil \in [Slots -> Fil]
      BY <3>1 DEF MachineType
    <3>5. QED
      BY <2>5, <3>3, <3>4
  <2>7. n = [Return(l, FR_OK) EXCEPT !.fil[0] = Closed]
    <3>1. f_sync(l, 0) = {Return(l, FR_OK)}
      BY <2>6 DEF f_sync
    <3>2. Return(l, FR_OK).res = FR_OK
      BY <2>6 DEF Return
    <3> HIDE DEF f
    <3>3. QED
      BY <2>3, <3>1, <3>2 DEF f_close
  <2>8. n.vol = l.vol /\ n.fil[0] = Closed
    BY <2>6, <2>7, SlotFacts DEF Return
  <2>9. QED
    BY <2>6, <2>8, ClosedType
<1>9. QED
  BY <1>7, <1>8

----------------------------------------------------------------------------
(* The workers *)

\* What is true between two commands.
TableState == NotOpen(Machine) /\ Writable(Machine)

\* The table on the card is the one in memory, or names more drives.
Tracks(m) ==
    \A d \in Drives : m.drv[d].attribs # Unset =>
        /\ m.vol[CfgFile] # NoEntry /\ m.vol[CfgFile].size > 0
        /\ m.vol[CfgFile].blk[0][d] = m.drv[d]

SavedState == TableState /\ Tracks(Machine)

LEMMA MachineFields ==
  /\ Machine.vol = vol /\ Machine.fil = fildata /\ Machine.cdir = cdir
  /\ Machine.drv = driveInfo /\ Machine.last = lastDriveNo
  BY DEF Machine

LEMMA BecomesMachine ==
  ASSUME NEW m, NEW s, Becomes(m, s)
  PROVE  /\ vol' = m.vol /\ fildata' = m.fil /\ cdir' = m.cdir
         /\ driveInfo' = m.drv
         /\ Machine'.vol = m.vol /\ Machine'.fil = m.fil /\ Machine'.cdir = m.cdir
         /\ Machine'.drv = m.drv
  BY DEF Becomes, Machine

\* A command that spares BOOTDRV.CFG and at most takes drives out of the table.
Fewer(m) ==
    \A d \in Drives : m.drv[d].attribs # Unset => m.drv[d] = driveInfo[d]

LEMMA SparingState ==
  ASSUME SavedState, NEW m, NEW s, Becomes(m, s), Spares(Machine, m),
         m.cdir = Root, Fewer(m)
  PROVE  SavedState'
<1>1. NotOpen(m) /\ m.vol[CfgFile] = vol[CfgFile]
  BY MachineFields DEF SavedState, TableState, Spares
<1>2. Writable(m) /\ Tracks(m)
  BY <1>1, MachineFields DEF SavedState, TableState, Writable, Tracks, Fewer
<1>3. QED
  BY <1>1, <1>2, BecomesMachine DEF SavedState, TableState, NotOpen, Writable, Tracks

\* A command that ends by saving the table.
LEMMA SavingState ==
  ASSUME ~Faults, NEW k, MachineOK(k), NotOpen(k), Writable(k),
         NEW m \in saveDrivesImpl(k), NEW s, Becomes(m, s)
  PROVE  SavedState'
<1>1. NotOpen(m) /\ Saved(m) /\ m.cdir = Root
  BY SaveSaves DEF Writable
<1>2. Writable(m) /\ Tracks(m)
  BY <1>1 DEF Saved, Writable, Tracks
<1>3. QED
  BY <1>1, <1>2, BecomesMachine DEF SavedState, TableState, NotOpen, Writable, Tracks

\* No host file is called BOOTDRV.CFG.
LEMMA HostPathApart ==
  ASSUME NEW n \in HostNames \cup ImageNames
  PROVE  <<cdir, n>> # CfgFile
  BY NamesAssumption DEF CfgFile

\* A file command: the table is not touched.
FilePart(m) == Spares(Machine, m) /\ m.drv = driveInfo /\ m.cdir = cdir

LEMMA FilePartState ==
  ASSUME SavedState, NEW m, NEW s, Becomes(m, s), FilePart(m)
  PROVE  SavedState'
<1>1. Fewer(m) /\ m.cdir = Root
  BY MachineFields DEF FilePart, Fewer, SavedState, TableState, Writable
<1>2. QED
  BY <1>1, SparingState DEF FilePart

LEMMA CallPart ==
  ASSUME NEW m, NEW h \in Slots, Frame(Machine, m, h), Spares(Machine, m)
  PROVE  FilePart(m)
  BY MachineFields DEF Frame, FilePart

LEMMA FileOpenSaved ==
  ASSUME State, SavedState, NEW h \in Slots, NEW n \in HostNames,
         NEW mode \in {"read", "write", "both"}, NEW how,
         fileOpen(h, n, mode, how)
  PROVE  SavedState'
<1> DEFINE slot == IF h = 0 THEN 0 ELSE FirstFree
           p == <<cdir, n>>
<1>1. CASE h # 0 /\ FreeSlots = {}
  <2>1. Becomes(Machine, Complete(ERROR_TOO_MANY_OPEN))
    BY <1>1 DEF fileOpen
  <2>2. FilePart(Machine)
    BY MachineFields, SpareSame DEF FilePart
  <2>3. QED
    BY <2>1, <2>2, FilePartState
<1>2. CASE ~(h # 0 /\ FreeSlots = {})
  <2>1. slot \in Slots
    BY <1>2, FirstFreeLemma DEF FreeSlots, Slots
  <2>2. PICK m \in f_open(Machine, slot, p, mode, how) :
            Becomes(m, OpenStatus(slot, m.res))
    BY <1>2 DEF fileOpen
  <2>3. p # CfgFile /\ MachineOK(Machine)
    BY HostPathApart, MachineState
  <2> HIDE DEF slot, p
  <2>4. OpenResult(Machine, m, slot, p, mode)
    BY <2>1, <2>2, <2>3, OpenLemma
  <2>5. Spares(Machine, m)
    BY <2>1, <2>2, <2>3, OpenSpares
  <2>6. FilePart(m)
    BY <2>1, <2>4, <2>5, CallPart DEF OpenResult
  <2>7. QED
    BY <2>2, <2>6, FilePartState
<1>3. QED
  BY <1>1, <1>2

LEMMA FileReadSaved ==
  ASSUME State, SavedState, NEW h \in Slots, FileRead(h)
  PROVE  SavedState'
<1>1. PICK m \in f_read(Machine, h) : \E s : Becomes(m, s)
  BY DEF FileRead
<1>2. Frame(Machine, m, h) /\ Spares(Machine, m)
  BY <1>1, MachineState, ReadLemma, ReadSpares DEF CallResult, Kept
<1>3. QED
  BY <1>1, <1>2, CallPart, FilePartState

LEMMA FileWriteSaved ==
  ASSUME State, SavedState, NEW h \in Slots, NEW v \in Data, FileWrite(h, v)
  PROVE  SavedState'
<1> DEFINE x == SetData(Machine, v)
<1>1. v \in Value
  BY DEF Value
<1>2. MachineOK(x) /\ Kept(Machine, x, h) /\ x.fil = Machine.fil /\ x.vol = Machine.vol
  BY <1>1, MachineState, SetDataLemma
<1> HIDE DEF x
<1>3. PICK m \in f_write(x, h, v) : Becomes(m, Complete(m.res))
  BY DEF FileWrite, x
<1>4. CallResult(x, m, h) /\ Spares(x, m)
  BY <1>1, <1>2, <1>3, WriteLemma, WriteSpares
<1>5. Frame(Machine, m, h) /\ Spares(Machine, m)
  BY <1>2, <1>4, KeptTrans, SpareSame, SparesTrans DEF CallResult, Kept
<1>6. QED
  BY <1>3, <1>5, CallPart, FilePartState

LEMMA FileSeekSaved ==
  ASSUME State, SavedState, NEW h \in Slots, NEW ofs \in 0..Capacity, FileSeek(h, ofs)
  PROVE  SavedState'
<1>1. PICK m \in f_lseek(Machine, h, ofs) : Becomes(m, Complete(m.res))
  BY DEF FileSeek
<1>2. ofs \in Nat
  BY CapacityAssumption
<1>3. CallResult(Machine, m, h) /\ Spares(Machine, m)
  BY <1>1, <1>2, MachineState, SeekLemma, SeekSpares
<1>4. QED
  BY <1>1, <1>3, CallPart, FilePartState DEF CallResult, Kept

LEMMA FileCloseSaved ==
  ASSUME State, SavedState, NEW h \in Slots, FileClose(h)
  PROVE  SavedState'
<1>1. PICK m \in f_close(Machine, h) : Becomes(m, Complete(m.res))
  BY DEF FileClose
<1>2. Frame(Machine, m, h) /\ Spares(Machine, m)
  BY <1>1, MachineState, CloseLemma, CloseSpares
<1>3. QED
  BY <1>1, <1>2, CallPart, FilePartState

LEMMA FileDeleteSaved ==
  ASSUME State, SavedState, NEW n \in HostNames \cup ImageNames, FileDelete(n)
  PROVE  SavedState'
<1> DEFINE p == <<cdir, n>>
<1>1. PICK m \in f_unlink(Machine, p) : Becomes(m, Complete(m.res))
  BY DEF FileDelete
<1>2. \A h \in Slots : Machine.fil[h].open => Machine.fil[h].path # p
  BY DEF FileDelete, NotInUse, Machine
<1>3. p # CfgFile
  BY HostPathApart
<1> HIDE DEF p
<1>4. m.cdir = Machine.cdir /\ m.drv = Machine.drv
  BY <1>1, <1>2, MachineState, UnlinkLemma
<1>5. Spares(Machine, m)
  BY <1>1, <1>2, <1>3, MachineState, UnlinkSpares
<1>6. QED
  BY <1>1, <1>4, <1>5, FilePartState, MachineFields DEF FilePart

LEMMA ChdirSaved ==
  ASSUME State, SavedState, SetCWDirectory(cdir)
  PROVE  SavedState'
<1>1. PICK m \in {[Machine EXCEPT !.cdir = cdir, !.res = FR_OK],
                  Return(Machine, FR_DISK_ERR)} : Becomes(m, Complete(m.res))
  BY DEF SetCWDirectory, OrFault
<1>2. /\ m.vol = Machine.vol /\ m.fil = Machine.fil /\ m.cdir = cdir
      /\ m.drv = driveInfo
  BY <1>1 DEF Machine, Return
<1>3. QED
  BY <1>1, <1>2, SpareSame, FilePartState DEF FilePart

LEMMA DrivenState ==
  ASSUME SavedState, NEW m, NEW s, Becomes(m, s), Spares(Machine, m), Fewer(m),
         m.cdir = cdir
  PROVE  SavedState'
<1>1. m.cdir = Root
  BY MachineFields DEF SavedState, TableState, Writable
<1>2. QED
  BY <1>1, SparingState

LEMMA InvalidateFewer ==
  ASSUME NEW m, MachineOK(m), globalCurDrive \in Drives, m.drv = driveInfo,
         Spares(Machine, m), m.cdir = cdir
  PROVE  LET n == Invalidate(m) IN
         Fewer(n) /\ Spares(Machine, n) /\ n.cdir = cdir
<1> DEFINE d == globalCurDrive
           info == [m.drv[d] EXCEPT !.attribs = Unset]
           n == Invalidate(m)
<1>1. info.attribs = Unset
  BY DEF MachineOK, MachineType, DriveTable, ImgInfo
<1>2. n.drv = [m.drv EXCEPT ![d] = info] /\ n.vol = m.vol /\ n.fil = m.fil
      /\ n.cdir = m.cdir
  BY DEF Invalidate, MachineOK, MachineType
<1> HIDE DEF info, n
<1>3. \A e \in Drives : n.drv[e] = IF e = d THEN info ELSE m.drv[e]
  BY <1>2 DEF MachineOK, MachineType, DriveTable
<1>4. Fewer(n)
  BY <1>1, <1>3 DEF Fewer
<1>5. Spares(Machine, n)
  BY <1>2, SpareSame, SparesTrans
<1>6. QED
  BY <1>2, <1>4, <1>5 DEF n

\* A machine on the way through a sector command.
Halfway(m) ==
    MachineOK(m) /\ Spares(Machine, m) /\ m.drv = driveInfo /\ m.cdir = cdir

LEMMA HalfwayCall ==
  ASSUME NEW m, NEW n, Halfway(m), Kept(m, n, 3), Spares(m, n)
  PROVE  Halfway(n)
  BY SparesTrans DEF Halfway, Kept, Frame

LEMMA HalfwayEnds ==
  ASSUME State, SavedState, NEW m, NEW s, Halfway(m),
         Becomes(m, s) \/ Becomes(Invalidate(m), s)
  PROVE  SavedState'
<1>1. globalCurDrive \in Drives
  BY DEF State, TypeOK
<1>2. CASE Becomes(m, s)
  BY <1>2, FilePartState DEF Halfway, FilePart
<1>3. CASE Becomes(Invalidate(m), s)
  <2>1. LET n == Invalidate(m) IN
        Fewer(n) /\ Spares(Machine, n) /\ n.cdir = cdir
    BY <1>1, InvalidateFewer DEF Halfway
  <2>2. QED
    BY <1>3, <2>1, DrivenState
<1>4. QED
  BY <1>2, <1>3

LEMMA SeekSectorHalfway ==
  ASSUME NEW m, Halfway(m), TypeOK, NEW s \in SeekSector(m)
  PROVE  Halfway(s)
<1>1. globalCurDrive \in Drives /\ globalLBAOffset \in Nat
  BY CapacityAssumption DEF TypeOK, Sectors
<1>2. PICK n \in switchDrive(m, globalCurDrive) :
         s \in f_lseek(n, 3, globalLBAOffset)
  BY SlotFacts DEF SeekSector
<1>3. Selects(m, n) /\ n.drv = m.drv /\ Spares(m, n)
  BY <1>1, <1>2, SwitchLemma, SwitchSpares DEF Halfway
<1>4. Halfway(n)
  BY <1>3, SparesTrans DEF Halfway, Selects
<1>5. CallResult(n, s, 3) /\ Spares(n, s)
  BY <1>1, <1>2, <1>4, SeekLemma, SeekSpares, SlotFacts DEF Halfway
<1>6. QED
  BY <1>4, <1>5, HalfwayCall DEF CallResult

LEMMA ReadSectorSaved ==
  ASSUME State, SavedState, ReadSDDOSSect
  PROVE  SavedState'
<1>1. Halfway(Machine) /\ TypeOK
  BY MachineState, MachineFields, SpareSame DEF Halfway, State
<1>2. CASE \E s : Becomes(Machine, s)
  BY <1>1, <1>2, HalfwayEnds
<1>3. ASSUME NEW s \in SeekSector(Machine),
             \/ \E r : Becomes(Invalidate(s), r)
             \/ \E m \in f_read(s, 3) : \E r : Becomes(m, r) \/ Becomes(Invalidate(m), r)
      PROVE  SavedState'
  <2>1. Halfway(s)
    BY <1>1, SeekSectorHalfway
  <2>2. ASSUME NEW m \in f_read(s, 3), NEW r,
               Becomes(m, r) \/ Becomes(Invalidate(m), r)
        PROVE  SavedState'
    <3>1. CallResult(s, m, 3) /\ Spares(s, m)
      BY <2>1, ReadLemma, ReadSpares, SlotFacts DEF Halfway
    <3>2. Halfway(m)
      BY <2>1, <3>1, HalfwayCall DEF CallResult
    <3>3. QED
      BY <2>2, <3>2, HalfwayEnds
  <2>3. QED
    BY <1>3, <2>1, <2>2, HalfwayEnds
<1>4. QED
  <2>1. \/ \E s : Becomes(Machine, s)
        \/ \E s \in SeekSector(Machine) :
              IF s.res # FR_OK
              THEN Becomes(Invalidate(s), Complete(ERROR_INVALID_DRIVE))
              ELSE \E m \in f_read(s, 3) :
                      IF m.res = FR_OK THEN Becomes(m, STATUS_OK)
                      ELSE Becomes(Invalidate(m), Complete(m.res))
    BY SlotFacts, Zenon DEF ReadSDDOSSect
  <2>2. QED
    BY <1>2, <1>3, <2>1, Zenon

LEMMA WriteSectorSaved ==
  ASSUME State, SavedState, NEW v \in Data, WriteSDDOSSect(v)
  PROVE  SavedState'
<1> DEFINE x == SetData(Machine, v)
<1>1. v \in Value /\ TypeOK /\ MachineOK(Machine)
  BY MachineState DEF Value, State
<1>2. /\ MachineOK(x) /\ Kept(Machine, x, 3)
      /\ x.fil = Machine.fil /\ x.vol = Machine.vol
  BY <1>1, SetDataLemma, SlotFacts
<1> HIDE DEF x
<1>3. Halfway(x)
  BY <1>2, MachineFields, SpareSame DEF Halfway, Kept, Frame
<1>4. CASE \E s : Becomes(x, s)
  BY <1>3, <1>4, HalfwayEnds
<1>5. ASSUME NEW s \in SeekSector(x),
             \/ \E r : Becomes(Invalidate(s), r)
             \/ \E w \in f_write(s, 3, v) :
                   \/ \E r : Becomes(Invalidate(w), r)
                   \/ \E m \in f_sync(w, 3) : \E r :
                         Becomes(m, r) \/ Becomes(Invalidate(m), r)
      PROVE  SavedState'
  <2>1. Halfway(s)
    BY <1>1, <1>3, SeekSectorHalfway
  <2>2. ASSUME NEW w \in f_write(s, 3, v) PROVE Halfway(w)
    <3>1. CallResult(s, w, 3) /\ Spares(s, w)
      BY <1>1, <2>1, WriteLemma, WriteSpares, SlotFacts DEF Halfway
    <3>2. QED
      BY <2>1, <3>1, HalfwayCall DEF CallResult
  <2>3. ASSUME NEW w \in f_write(s, 3, v), NEW m \in f_sync(w, 3) PROVE Halfway(m)
    <3>1. Halfway(w)
      BY <2>2
    <3>2. Kept(w, m, 3) /\ Spares(w, m)
      BY <3>1, SyncSpares, SlotFacts DEF Halfway
    <3>3. QED
      BY <3>1, <3>2, HalfwayCall
  <2>4. QED
    BY <1>5, <2>1, <2>2, <2>3, HalfwayEnds
<1>6. QED
  <2>1. \/ \E s : Becomes(x, s)
        \/ \E s \in SeekSector(x) :
              IF s.res # FR_OK
              THEN Becomes(Invalidate(s), Complete(ERROR_INVALID_DRIVE))
              ELSE \E w \in f_write(s, 3, v) :
                      IF w.res # FR_OK THEN Becomes(Invalidate(w), w.res)
                      ELSE \E m \in f_sync(w, 3) :
                              IF m.res = FR_OK THEN Becomes(m, STATUS_OK)
                              ELSE Becomes(Invalidate(m), m.res)
    BY SlotFacts, Zenon DEF WriteSDDOSSect, x
  <2>2. QED
    BY <1>4, <1>5, <2>1, Zenon

\* A machine that is about to save its table.
AboutToSave(m) == MachineOK(m) /\ NotOpen(m) /\ Writable(m)

LEMMA SparedAboutToSave ==
  ASSUME NEW m, NEW n, AboutToSave(m), MachineOK(n), Spares(m, n), n.cdir = m.cdir
  PROVE  AboutToSave(n)
  BY DEF AboutToSave, Spares, Writable

LEMMA MachineAboutToSave ==
  ASSUME State, TableState
  PROVE  AboutToSave(Machine)
  BY MachineState DEF AboutToSave, TableState

LEMMA SaveSaved ==
  ASSUME ~Faults, State, TableState, SerialiseSDDOSDrives
  PROVE  SavedState'
<1>1. PICK m \in saveDrivesImpl(Machine) : Becomes(m, STATUS_OK)
  BY DEF SerialiseSDDOSDrives
<1>2. QED
  BY <1>1, MachineAboutToSave, SavingState DEF AboutToSave

LEMMA UnmountSaved ==
  ASSUME ~Faults, State, TableState, NEW d \in Drives, UnmountSDDOSImg(d)
  PROVE  SavedState'
<1>1. PICK s \in switchDrive(Machine, d) : \E c \in f_close(s, 3) :
         \E m \in saveDrivesImpl(SetDrive([c EXCEPT !.last = NoDrive], d, Unused)) :
            Becomes(m, STATUS_OK)
  BY SlotFacts DEF UnmountSDDOSImg
<1>2. PICK c \in f_close(s, 3) :
         \E m \in saveDrivesImpl(SetDrive([c EXCEPT !.last = NoDrive], d, Unused)) :
            Becomes(m, STATUS_OK)
  BY <1>1
<1> DEFINE x == [c EXCEPT !.last = NoDrive]
           y == SetDrive(x, d, Unused)
<1>3. AboutToSave(s)
  <2>1. Selects(Machine, s) /\ Spares(Machine, s)
    BY <1>1, MachineState, SwitchLemma, SwitchSpares
  <2>2. QED
    BY <2>1, MachineAboutToSave, SparedAboutToSave DEF Selects
<1>4. AboutToSave(c)
  <2>1. MachineOK(c) /\ Frame(s, c, 3) /\ Spares(s, c)
    BY <1>2, <1>3, CloseLemma, CloseSpares, SlotFacts DEF AboutToSave
  <2>2. QED
    BY <1>3, <2>1, SparedAboutToSave DEF Frame
<1>5. MachineOK(x) /\ x.cdir = c.cdir /\ x.vol = c.vol /\ x.fil = c.fil
  BY <1>4, SelectLemma DEF AboutToSave
<1> HIDE DEF x
<1>6. AboutToSave(x)
  BY <1>4, <1>5, SpareSame, SparedAboutToSave
<1>7. Selects(x, y) /\ Spares(x, y)
  BY <1>5, UnusedLemma, SetDriveSpares
<1>8. PICK m \in saveDrivesImpl(y) : Becomes(m, STATUS_OK)
  BY <1>2 DEF x
<1> HIDE DEF y
<1>9. AboutToSave(y)
  BY <1>6, <1>7, SparedAboutToSave DEF Selects
<1>10. QED
  BY <1>8, <1>9, SavingState DEF AboutToSave

LEMMA OpenImgSaved ==
  ASSUME ~Faults, State, TableState, NEW d \in Drives, NEW n \in ImageNames,
         OpenSDDOSImg(d, n)
  PROVE  SavedState'
<1> DEFINE info == [name |-> n, attribs |-> NoAttr]
           a == SetDrive(Machine, d, info)
<1>1. info \in ImgInfo /\ info.attribs # Unset
  BY DEF ImgInfo, Attr, NoAttr, Unset
<1>2. PICK t \in tryOpenImage(a, d) :
         \E m \in saveDrivesImpl(IF t.res >= STATUS_COMPLETE
                                 THEN SetDrive(t, d, Unused) ELSE t) :
            Becomes(m, t.res)
  BY DEF OpenSDDOSImg
<1> DEFINE k == IF t.res >= STATUS_COMPLETE THEN SetDrive(t, d, Unused) ELSE t
<1>3. PICK m \in saveDrivesImpl(k) : Becomes(m, t.res)
  BY <1>2
<1> HIDE DEF info
<1>4. /\ MachineOK(a) /\ a.cdir = Machine.cdir /\ a.drv[d] = info
      /\ Spares(Machine, a)
  BY <1>1, MachineState, SetDriveLemma, SetDriveSpares
<1> HIDE DEF a
<1>5. AboutToSave(a)
  BY <1>4, MachineAboutToSave, SparedAboutToSave
<1>6. Selects(a, t) /\ Spares(a, t)
  BY <1>1, <1>2, <1>4, TryLemma, TrySpares
<1>7. AboutToSave(t)
  BY <1>5, <1>6, SparedAboutToSave DEF Selects
<1>8. MachineOK(k) /\ k.cdir = t.cdir /\ Spares(t, k)
  BY <1>7, UnusedLemma, SetDriveSpares, SpareSame DEF AboutToSave, Selects
<1> HIDE DEF k
<1>9. AboutToSave(k)
  BY <1>7, <1>8, SparedAboutToSave
<1>10. QED
  BY <1>3, <1>9, SavingState DEF AboutToSave

LEMMA ValidateSaved ==
  ASSUME ~Faults, State, TableState, ValidateSDDOSDrives
  PROVE  SavedState'
<1>1. PICK l \in loadDrives(Machine) : \E t \in ValidateAll(l) :
         \E m \in saveDrivesImpl(t) : Becomes(m, STATUS_OK)
  BY DEF ValidateSDDOSDrives
<1>2. PICK t \in ValidateAll(l) :
         \E m \in saveDrivesImpl(t) : Becomes(m, STATUS_OK)
  BY <1>1
<1>3. PICK m \in saveDrivesImpl(t) : Becomes(m, STATUS_OK)
  BY <1>2
<1>4. ThroughScratch(Machine, l) /\ Spares(Machine, l)
  BY <1>1, MachineState, LoadLemma, LoadSpares DEF TableState
<1>5. AboutToSave(l)
  BY <1>4, MachineAboutToSave, SparedAboutToSave DEF ThroughScratch
<1>6. Spares(l, t) /\ MachineOK(t) /\ t.cdir = l.cdir
  BY <1>2, <1>5, ValidateAllSpares DEF AboutToSave
<1>7. AboutToSave(t)
  BY <1>5, <1>6, SparedAboutToSave
<1>8. QED
  BY <1>3, <1>7, SavingState DEF AboutToSave

LEMMA RestartSaved ==
  ASSUME TableState, Restart
  PROVE  SavedState'
<1>1. NotOpen(Machine)'
  BY ClosedType DEF Restart, NotOpen, Machine
<1>2. Writable(Machine)'
  <2>1. vol'[CfgFile] = NoEntry \/ vol'[CfgFile] = vol[CfgFile]
    BY CfgFilePath DEF Restart
  <2>2. vol[CfgFile] # NoEntry => vol[CfgFile].attr # AM_RDO
    BY MachineFields DEF TableState, Writable
  <2>3. cdir' = Root
    BY DEF Restart
  <2>4. QED
    BY <2>1, <2>2, <2>3 DEF Writable, Machine
<1>3. Tracks(Machine)'
  BY DEF Restart, Tracks, Machine, Unused
<1>4. QED
  BY <1>1, <1>2, <1>3 DEF SavedState, TableState

\* What the card may be when it is first inserted.
CfgWritable ==
    \A card \in Cards : card[CfgFile] # NoEntry => card[CfgFile].attr # AM_RDO

LEMMA StepSaved ==
  ASSUME ~Faults, Has("same-place"), State, SavedState, [HNext]_hvars
  PROVE  SavedState'
<1>1. CASE HostFileCommand
  <2>1. ASSUME NEW h \in HostFiles, NEW n \in HostNames,
               FileOpenRead(h, n) \/ FileOpenWrite(h, n) \/ FileOpenRAF(h, n)
        PROVE  SavedState'
    <3>1. PICK mode \in {"read", "write", "both"}, how \in {"existing", "new", "always"} :
             fileOpen(h, n, mode, how)
      BY <2>1 DEF FileOpenRead, FileOpenWrite, FileOpenRAF
    <3>2. QED
      BY <3>1, FileOpenSaved, HostAssumption
  <2>2. ASSUME NEW h \in HostFiles, FileRead(h) \/ FileClose(h) PROVE SavedState'
    BY <2>2, FileReadSaved, FileCloseSaved, HostAssumption
  <2>3. ASSUME NEW h \in HostFiles, NEW v \in HostData, FileWrite(h, v)
        PROVE  SavedState'
    BY <2>3, FileWriteSaved, HostAssumption
  <2>4. ASSUME NEW h \in HostFiles, NEW ofs \in 0..Capacity, FileSeek(h, ofs)
        PROVE  SavedState'
    BY <2>4, FileSeekSaved, HostAssumption
  <2>5. ASSUME NEW n \in HostNames \cup ImageNames, FileDelete(n) PROVE SavedState'
    BY <2>5, FileDeleteSaved
  <2>6. ASSUME NEW c \in Dirs, StaysPut(c), SetCWDirectory(c) PROVE SavedState'
    BY <2>6, ChdirSaved DEF StaysPut
  <2>7. QED
    BY <1>1, <2>1, <2>2, <2>3, <2>4, <2>5, <2>6 DEF HostFileCommand
<1>2. TableState
  BY DEF SavedState
<1>3. CASE UNCHANGED <<vol, fildata, cdir, driveInfo>>
  BY <1>3 DEF SavedState, TableState, NotOpen, Writable, Tracks, Machine
<1>4. ASSUME NEW d \in HostDrives, NEW s \in Sectors, HostParam(d, s)
      PROVE  SavedState'
  BY <1>3, <1>4 DEF HostParam, LoadParam
<1>5. ASSUME NEW d \in HostDrives, NEW n \in ImageNames, HostMount(d, n)
      PROVE  SavedState'
  BY <1>2, <1>5, OpenImgSaved, HostAssumption DEF HostMount
<1>6. ASSUME NEW d \in HostDrives, HostUnmount(d) PROVE SavedState'
  BY <1>2, <1>6, UnmountSaved, HostAssumption DEF HostUnmount
<1>7. CASE HostLoadTable
  BY <1>2, <1>7, ValidateSaved DEF HostLoadTable
<1>8. CASE HostSaveTable
  BY <1>2, <1>8, SaveSaved DEF HostSaveTable
<1>9. CASE HostReadSector
  BY <1>9, ReadSectorSaved DEF HostReadSector
<1>10. ASSUME NEW v \in HostData, HostWriteSector(v) PROVE SavedState'
  BY <1>10, WriteSectorSaved, HostAssumption DEF HostWriteSector
<1>11. CASE PowerCycle
  BY <1>2, <1>11, RestartSaved DEF PowerCycle
<1>12. CASE UNCHANGED hvars
  BY <1>3, <1>12 DEF hvars, vars
<1>13. QED
  BY <1>1, <1>4, <1>5, <1>6, <1>7, <1>8, <1>9, <1>10, <1>11, <1>12 DEF HNext

LEMMA InitSaved ==
  ASSUME CfgWritable, HInit
  PROVE  SavedState
<1>1. NotOpen(Machine)
  BY ClosedType DEF HInit, Init, NotOpen, Machine
<1>2. Writable(Machine)
  BY DEF CfgWritable, HInit, Init, Writable, Machine
<1>3. Tracks(Machine)
  BY DEF HInit, Init, Tracks, Machine, Unused
<1>4. QED
  BY <1>1, <1>2, <1>3 DEF SavedState, TableState

LEMMA SavedIsSaved == SavedState => MountedIsSaved
  BY DEF SavedState, Tracks, Machine, MountedIsSaved, SavedTable, Mounted, CfgFile

\* On a card that does not fail, with a BOOTDRV.CFG that may be written, and for
\* a host that stays in the root directory: whatever it opens, writes, deletes,
\* mounts and loads, and whenever the power goes, every drive that is mounted
\* has its image in the table on the card.
THEOREM MountedDrivesSaved ==
  ASSUME ~Faults, "same-place" \in Habits, CfgWritable
  PROVE  HSpec => []MountedIsSaved
<1>1. HInit => State /\ SavedState
  BY InitState, InitSaved
<1>2. State /\ SavedState /\ [HNext]_hvars => State' /\ SavedState'
  BY StepState, StepSaved DEF Has
<1>3. SavedState => MountedIsSaved
  BY SavedIsSaved
<1>4. QED
  BY <1>1, <1>2, <1>3, PTL DEF HSpec
=============================================================================
