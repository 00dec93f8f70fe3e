--------------------------- MODULE HostLinkProofs ---------------------------
(***************************************************************************)
(* Proofs about HostLink: the types for any host, and for a paced host     *)
(* that commands run with the host's operands, that an answer is the       *)
(* answer to the last command, that the buffer is read in order, that the  *)
(* firmware does not sleep with a byte untaken and that an acknowledged    *)
(* configuration byte survives power cuts.                                 *)
(***************************************************************************)
EXTENDS HostLink, TLAPS

\* A write to register reg the firmware has not taken yet.
Pending(reg) == IBF /\ PORTA = reg

\* The port between two accesses of the host.
PortInv ==
    /\ PORTA # READ_DATA_REG
    /\ pc = "wait" /\ IBF => PSPIF
    /\ pc \in {"dispatch", "work", "eeprom", "clear"} => ~IBF
    /\ pc = "decode" => LatchedAddressLast = PORTA
    /\ pc = "take" /\ IBF => LatchedAddress = PORTA
    /\ pc \in {"dispatch", "work", "eeprom"} => LATD = STATUS_BUSY

\* Before the host has seen a heartbeat it has sent nothing else.
ProbeInv ==
    /\ pc \in {"init", "first"} => hpc \in {"probe", "probed"} /\ LATD = 255
    /\ hpc \in {"probe", "probed"} =>
        /\ PORTA = CMD_REG
        /\ hCmd = <<CMD_GET_HEARTBEAT, 0>>
        /\ hmode = "none"

\* The last command: sent and not taken, about to run, or acted on once.
CommandInv ==
    /\ Pending(CMD_REG) => PORTD = ByteOf(hCmd) /\ served = 0
    /\ served = 0 => Pending(CMD_REG) \/ pc = "dispatch"
    /\ served # 2
    /\ pc = "dispatch" =>
        /\ served = 0
        /\ received = hCmd[1]
        /\ hCmd[1] \in FileCommands \cup DataCommands => filenum = hCmd[2]
    /\ pc \in {"work", "eeprom"} => received = hCmd[1] /\ hpc = "sent"
    /\ pc = "work" => received \in WorkerCommands
    /\ pc = "eeprom" => received \in SetCommands
    /\ hpc = "sent" => Slow(hCmd)
    /\ served = 0 /\ Slow(hCmd) => hpc = "sent"

LatchInv ==
    /\ Pending(LATCH_REG) => PORTD = hLatch
    /\ Known(hLatch) => (byteValueLatch = hLatch \/ Pending(LATCH_REG))

\* A worker that has run, and may have changed the buffer.
Worked == hCmd[1] \in WorkerCommands /\ hpc = "sent" /\ served = 1 /\ pc # "work"

FillInv ==
    /\ Pending(WRITE_DATA_REG) => hmode = "fill" /\ PORTD = hBuf[globalIndex]
    /\ \A i \in Index : Known(hBuf[i]) =>
           \/ globalData[i] = hBuf[i]
           \/ Pending(WRITE_DATA_REG) /\ i = globalIndex
           \/ Worked
    /\ hmode = "fill" =>
        /\ hpc = "free"
        /\ hCmd[1] # CMD_INIT_READ
        /\ IF served = 0 /\ hCmd[1] = CMD_INIT_WRITE THEN hPos = 0
           ELSE hPos = IF Pending(WRITE_DATA_REG) THEN NextIndex(globalIndex)
                       ELSE globalIndex

\* An access the firmware has not answered yet.
Unanswered == pc \in {"latch", "decode", "take"} \/ (pc = "wait" /\ PSPIF)

DrainInv ==
    /\ LatchedAddress = READ_DATA_REG => hmode = "drain" \/ IBF
    /\ served = 0 /\ hCmd[1] = CMD_INIT_READ => hmode = "drain"
    /\ hmode = "drain" =>
        /\ hCmd[1] = CMD_INIT_READ /\ hpc = "free"
        /\ IF served = 0 THEN hPos = 0
           ELSE /\ ~IBF
                /\ LatchedAddress = READ_DATA_REG
                /\ IF Unanswered THEN globalIndex = hPos
                   ELSE globalIndex = NextIndex(hPos) /\ LATD = globalData[hPos]

LinkInv == PortInv /\ ProbeInv /\ CommandInv /\ LatchInv /\ FillInv /\ DrainInv

----------------------------------------------------------------------------
(* Types *)

USE DEF Index, CMD_REG, LATCH_REG, READ_DATA_REG, WRITE_DATA_REG,
        STATUS_OK, STATUS_COMPLETE, STATUS_BUSY, ERROR_NO_DATA,
        port, decoder, buffer, operands, board, host, firmware

LEMMA NextIndexInIndex == ASSUME NEW i \in Index PROVE NextIndex(i) \in Index
BY BufSizeAssumption DEF NextIndex

\* What a command byte may be, and what it decodes to.
LEMMA BaseIsByte == ASSUME NEW b \in 0..255 PROVE Base(b) \in 0..255
BY DEF Base, FileGroup, DataGroup

LEMMA FileNumberIsSlot == ASSUME NEW b \in 0..255 PROVE FileNumber(b) \in 0..3
BY DEF FileNumber, FileGroup

LEMMA ByteOfIsByte == ASSUME NEW cmd \in Asked PROVE ByteOf(cmd) \in 0..255
BY DEF Asked, ByteOf, FileCommands, DataCommands, OtherCommands, CMD_EXEC_PACKET

\* Decoding undoes what the host encodes, the file number included.
LEMMA Decoded ==
    ASSUME NEW cmd \in Asked
    PROVE  /\ Base(ByteOf(cmd)) = cmd[1]
           /\ cmd[1] \in FileCommands \cup DataCommands =>
                 Numbered(ByteOf(cmd)) /\ FileNumber(ByteOf(cmd)) = cmd[2]
<1>1. CASE cmd[1] \in FileCommands
    BY <1>1 DEF Asked, ByteOf, Base, FileNumber, Numbered, FileGroup, DataGroup,
       FileCommands, DataCommands, OtherCommands, CMD_EXEC_PACKET
<1>2. CASE cmd[1] \in DataCommands
    BY <1>2 DEF Asked, ByteOf, Base, FileNumber, Numbered, FileGroup, DataGroup,
       FileCommands, DataCommands, OtherCommands, CMD_EXEC_PACKET
<1>3. CASE cmd[1] \in OtherCommands
    BY <1>3 DEF Asked, ByteOf, Base, FileNumber, Numbered, FileGroup, DataGroup,
       FileCommands, DataCommands, OtherCommands, CMD_EXEC_PACKET
<1>4. QED BY <1>1, <1>2, <1>3 DEF Asked

LEMMA ShownIsByte ==
    ASSUME BoardTypes, ControlTypes, received \in GetCommands,
           NEW s \in Shown(received)
    PROVE  s \in 0..255
BY ByteAssumption DEF Shown, BoardTypes, ControlTypes, GetCommands, Heartbeats,
   ImgAttribs, FirmwareVersion, CMD_GET_PORT_DDR, CMD_READ_PORT, CMD_GET_FW_VER,
   CMD_GET_BL_VER, CMD_GET_CFG_BYTE, CMD_READ_AUX, CMD_GET_HEARTBEAT,
   CMD_GET_IMG_STATUS

LEMMA TypeInit == Init => TypeOK
<1> SUFFICES ASSUME Init PROVE TypeOK
    OBVIOUS
<1>1. PortTypes
    <2>1. IBF \in BOOLEAN /\ PSPIF \in BOOLEAN
        BY Zenon DEF Init
    <2>2. QED BY <2>1 DEF PortTypes, Init
<1>2. ControlTypes
    BY MaxCutsAssumption DEF ControlTypes, Init
<1>3. BufferTypes
    <2>1. globalData \in [Index -> 0..255]
        BY ByteAssumption DEF Init, VersionBytes
    <2>2. QED BY <2>1, BufSizeAssumption DEF BufferTypes, Init
<1>4. BoardTypes
    <2>1. ee \in [Cells -> 0..255]
        BY ByteAssumption DEF Init
    <2>2. QED BY <2>1 DEF BoardTypes, Init, Heartbeats
<1>5. HostTypes
    BY BufSizeAssumption DEF HostTypes, Init, Fresh, Unknown, Asked, OtherCommands,
       CMD_GET_HEARTBEAT
<1>6. QED BY <1>1, <1>2, <1>3, <1>4, <1>5 DEF TypeOK

LEMMA TypeArm ==
    ASSUME TypeOK, Arm PROVE TypeOK'
<1>1. PortTypes'
    BY DEF TypeOK, PortTypes, Arm
<1>2. ControlTypes'
    BY DEF TypeOK, ControlTypes, Arm
<1>3. BufferTypes'
    BY DEF TypeOK, BufferTypes, Arm
<1>4. BoardTypes'
    BY DEF TypeOK, BoardTypes, Arm, Cells, EE_SYSFLAGS, EE_PORTBVALU, EE_PORTBTRIS
<1>5. HostTypes'
    BY ZenonT(60) DEF TypeOK, HostTypes, Arm
<1>6. QED BY <1>1, <1>2, <1>3, <1>4, <1>5 DEF TypeOK

LEMMA TypeWake ==
    ASSUME TypeOK, Wake PROVE TypeOK'
<1>1. PortTypes'
    BY DEF TypeOK, PortTypes, Wake
<1>2. ControlTypes'
    BY DEF TypeOK, ControlTypes, Wake
<1>3. BufferTypes'
    BY DEF TypeOK, BufferTypes, Wake
<1>4. BoardTypes'
    BY DEF TypeOK, BoardTypes, Wake
<1>5. HostTypes'
    BY ZenonT(60) DEF TypeOK, HostTypes, Wake
<1>6. QED BY <1>1, <1>2, <1>3, <1>4, <1>5 DEF TypeOK

LEMMA TypeClear ==
    ASSUME TypeOK, Clear PROVE TypeOK'
<1>1. PortTypes'
    BY DEF TypeOK, PortTypes, Clear
<1>2. ControlTypes'
    BY DEF TypeOK, ControlTypes, Clear
<1>3. BufferTypes'
    BY DEF TypeOK, BufferTypes, Clear
<1>4. BoardTypes'
    BY DEF TypeOK, BoardTypes, Clear
<1>5. HostTypes'
    BY ZenonT(60) DEF TypeOK, HostTypes, Clear
<1>6. QED BY <1>1, <1>2, <1>3, <1>4, <1>5 DEF TypeOK

LEMMA TypeLatchAddressIn ==
    ASSUME TypeOK, LatchAddressIn PROVE TypeOK'
<1>1. PortTypes'
    BY DEF TypeOK, PortTypes, LatchAddressIn
<1>2. ControlTypes'
    BY DEF TypeOK, ControlTypes, LatchAddressIn, PortTypes
<1>3. BufferTypes'
    BY DEF TypeOK, BufferTypes, LatchAddressIn
<1>4. BoardTypes'
    BY DEF TypeOK, BoardTypes, LatchAddressIn
<1>5. HostTypes'
    BY ZenonT(60) DEF TypeOK, HostTypes, LatchAddressIn
<1>6. QED BY <1>1, <1>2, <1>3, <1>4, <1>5 DEF TypeOK

LEMMA TypeDecode ==
    ASSUME TypeOK, Decode PROVE TypeOK'
<1>1. PortTypes'
    BY DEF TypeOK, PortTypes, Decode
<1>2. ControlTypes'
    BY DEF TypeOK, ControlTypes, Decode
<1>3. BufferTypes'
    BY DEF TypeOK, BufferTypes, Decode
<1>4. BoardTypes'
    BY DEF TypeOK, BoardTypes, Decode
<1>5. HostTypes'
    BY ZenonT(60) DEF TypeOK, HostTypes, Decode
<1>6. QED BY <1>1, <1>2, <1>3, <1>4, <1>5 DEF TypeOK

LEMMA TypeTakeNothing ==
    ASSUME TypeOK, TakeNothing PROVE TypeOK'
<1>1. PortTypes'
    BY DEF TypeOK, PortTypes, TakeNothing
<1>2. ControlTypes'
    BY DEF TypeOK, ControlTypes, TakeNothing
<1>3. BufferTypes'
    BY DEF TypeOK, BufferTypes, TakeNothing
<1>4. BoardTypes'
    BY DEF TypeOK, BoardTypes, TakeNothing
<1>5. HostTypes'
    BY ZenonT(60) DEF TypeOK, HostTypes, TakeNothing
<1>6. QED BY <1>1, <1>2, <1>3, <1>4, <1>5 DEF TypeOK

LEMMA TypeTakeCommand ==
    ASSUME TypeOK, TakeCommand PROVE TypeOK'
<1>1. PortTypes'
    <2>1. IBF' \in BOOLEAN /\ PSPIF' \in BOOLEAN
        BY Zenon DEF TypeOK, PortTypes, TakeCommand, Takes
    <2>2. QED BY <2>1 DEF TypeOK, PortTypes, TakeCommand, Takes
<1>2. ControlTypes'
    <2>1. received' \in 0..255
        BY BaseIsByte DEF TypeOK, PortTypes, TakeCommand, Takes
    <2>2. filenum' \in -1..3
        BY FileNumberIsSlot DEF TypeOK, ControlTypes, PortTypes, TakeCommand, Takes
    <2>3. QED BY <2>1, <2>2 DEF TypeOK, ControlTypes, TakeCommand, Takes
<1>3. BufferTypes'
    BY DEF TypeOK, BufferTypes, TakeCommand, Takes
<1>4. BoardTypes'
    BY DEF TypeOK, BoardTypes, TakeCommand, Takes
<1>5. HostTypes'
    BY ZenonT(60) DEF TypeOK, HostTypes, TakeCommand, Takes
<1>6. QED BY <1>1, <1>2, <1>3, <1>4, <1>5 DEF TypeOK

LEMMA TypeTakeLatch ==
    ASSUME TypeOK, TakeLatch PROVE TypeOK'
<1>1. PortTypes'
    BY DEF TypeOK, PortTypes, TakeLatch, Takes
<1>2. ControlTypes'
    BY DEF TypeOK, ControlTypes, TakeLatch, Takes
<1>3. BufferTypes'
    BY DEF TypeOK, BufferTypes, TakeLatch, Takes, PortTypes
<1>4. BoardTypes'
    BY DEF TypeOK, BoardTypes, TakeLatch, Takes
<1>5. HostTypes'
    BY ZenonT(60) DEF TypeOK, HostTypes, TakeLatch, Takes
<1>6. QED BY <1>1, <1>2, <1>3, <1>4, <1>5 DEF TypeOK

LEMMA TypeTakeData ==
    ASSUME TypeOK, TakeData PROVE TypeOK'
<1>1. PortTypes'
    BY DEF TypeOK, PortTypes, TakeData, Takes
<1>2. ControlTypes'
    BY DEF TypeOK, ControlTypes, TakeData, Takes
<1>3. BufferTypes'
    BY NextIndexInIndex DEF TypeOK, BufferTypes, TakeData, Takes, PortTypes
<1>4. BoardTypes'
    BY DEF TypeOK, BoardTypes, TakeData, Takes
<1>5. HostTypes'
    BY ZenonT(60) DEF TypeOK, HostTypes, TakeData, Takes
<1>6. QED BY <1>1, <1>2, <1>3, <1>4, <1>5 DEF TypeOK

LEMMA TypePutData ==
    ASSUME TypeOK, PutData PROVE TypeOK'
<1>1. PortTypes'
    BY DEF TypeOK, PortTypes, PutData, BufferTypes
<1>2. ControlTypes'
    BY DEF TypeOK, ControlTypes, PutData
<1>3. BufferTypes'
    BY NextIndexInIndex DEF TypeOK, BufferTypes, PutData
<1>4. BoardTypes'
    BY DEF TypeOK, BoardTypes, PutData
<1>5. HostTypes'
    BY ZenonT(60) DEF TypeOK, HostTypes, PutData
<1>6. QED BY <1>1, <1>2, <1>3, <1>4, <1>5 DEF TypeOK

LEMMA TypeInitRead ==
    ASSUME TypeOK, InitRead PROVE TypeOK'
<1>1. PortTypes'
    BY BufSizeAssumption DEF TypeOK, PortTypes, InitRead, Dispatches, BufferTypes
<1>2. ControlTypes'
    BY DEF TypeOK, ControlTypes, InitRead, Dispatches
<1>3. BufferTypes'
    BY BufSizeAssumption DEF TypeOK, BufferTypes, InitRead, Dispatches
<1>4. BoardTypes'
    BY DEF TypeOK, BoardTypes, InitRead, Dispatches
<1>5. HostTypes'
    BY ZenonT(60) DEF TypeOK, HostTypes, InitRead, Dispatches
<1>6. QED BY <1>1, <1>2, <1>3, <1>4, <1>5 DEF TypeOK

LEMMA TypeInitWrite ==
    ASSUME TypeOK, InitWrite PROVE TypeOK'
<1>1. PortTypes'
    BY DEF TypeOK, PortTypes, InitWrite, Dispatches
<1>2. ControlTypes'
    BY DEF TypeOK, ControlTypes, InitWrite, Dispatches
<1>3. BufferTypes'
    BY BufSizeAssumption DEF TypeOK, BufferTypes, InitWrite, Dispatches
<1>4. BoardTypes'
    BY DEF TypeOK, BoardTypes, InitWrite, Dispatches
<1>5. HostTypes'
    BY ZenonT(60) DEF TypeOK, HostTypes, InitWrite, Dispatches
<1>6. QED BY <1>1, <1>2, <1>3, <1>4, <1>5 DEF TypeOK

LEMMA TypeLoadParam ==
    ASSUME TypeOK, LoadParam PROVE TypeOK'
<1>1. PortTypes'
    BY DEF TypeOK, PortTypes, LoadParam, Dispatches
<1>2. ControlTypes'
    BY DEF TypeOK, ControlTypes, LoadParam, Dispatches
<1>3. BufferTypes'
    <2>1. globalData[0] \in 0..255 /\ globalData[1] \in 0..255
        BY BufSizeAssumption DEF TypeOK, BufferTypes
    <2>2. params' \in (0..3) \X (0..255)
        BY <2>1 DEF LoadParam
    <2>3. QED BY <2>2 DEF TypeOK, BufferTypes, LoadParam, Dispatches
<1>4. BoardTypes'
    BY DEF TypeOK, BoardTypes, LoadParam, Dispatches
<1>5. HostTypes'
    BY ZenonT(60) DEF TypeOK, HostTypes, LoadParam, Dispatches
<1>6. QED BY <1>1, <1>2, <1>3, <1>4, <1>5 DEF TypeOK

LEMMA TypeGet ==
    ASSUME TypeOK, Get PROVE TypeOK'
<1>1. PortTypes'
    BY ShownIsByte DEF TypeOK, PortTypes, Get, Dispatches, BoardTypes, ControlTypes
<1>2. ControlTypes'
    BY DEF TypeOK, ControlTypes, Get, Dispatches
<1>3. BufferTypes'
    BY DEF TypeOK, BufferTypes, Get, Dispatches
<1>4. BoardTypes'
    BY DEF TypeOK, BoardTypes, Get, Dispatches, Heartbeats
<1>5. HostTypes'
    BY ZenonT(60) DEF TypeOK, HostTypes, Get, Dispatches
<1>6. QED BY <1>1, <1>2, <1>3, <1>4, <1>5 DEF TypeOK

LEMMA TypeSet ==
    ASSUME TypeOK, Set PROVE TypeOK'
<1>1. PortTypes'
    BY DEF TypeOK, PortTypes, Set, Dispatches
<1>2. ControlTypes'
    BY DEF TypeOK, ControlTypes, Set, Dispatches
<1>3. BufferTypes'
    BY DEF TypeOK, BufferTypes, Set, Dispatches
<1>4. BoardTypes'
    BY DEF TypeOK, BoardTypes, Set, Dispatches, BufferTypes
<1>5. HostTypes'
    BY ZenonT(60) DEF TypeOK, HostTypes, Set, Dispatches
<1>6. QED BY <1>1, <1>2, <1>3, <1>4, <1>5 DEF TypeOK

LEMMA TypeStartWorker ==
    ASSUME TypeOK, StartWorker PROVE TypeOK'
<1>1. PortTypes'
    BY DEF TypeOK, PortTypes, StartWorker, Dispatches
<1>2. ControlTypes'
    BY DEF TypeOK, ControlTypes, StartWorker, Dispatches
<1>3. BufferTypes'
    BY DEF TypeOK, BufferTypes, StartWorker, Dispatches
<1>4. BoardTypes'
    BY DEF TypeOK, BoardTypes, StartWorker, Dispatches
<1>5. HostTypes'
    BY ZenonT(60) DEF TypeOK, HostTypes, StartWorker, Dispatches
<1>6. QED BY <1>1, <1>2, <1>3, <1>4, <1>5 DEF TypeOK

LEMMA TypeIgnore ==
    ASSUME TypeOK, Ignore PROVE TypeOK'
<1>1. PortTypes'
    BY DEF TypeOK, PortTypes, Ignore, Dispatches
<1>2. ControlTypes'
    BY DEF TypeOK, ControlTypes, Ignore, Dispatches
<1>3. BufferTypes'
    BY DEF TypeOK, BufferTypes, Ignore, Dispatches
<1>4. BoardTypes'
    BY DEF TypeOK, BoardTypes, Ignore, Dispatches
<1>5. HostTypes'
    BY ZenonT(60) DEF TypeOK, HostTypes, Ignore, Dispatches
<1>6. QED BY <1>1, <1>2, <1>3, <1>4, <1>5 DEF TypeOK

LEMMA TypeWriteEEPROM ==
    ASSUME TypeOK, WriteEEPROM PROVE TypeOK'
<1>1. PortTypes'
    BY DEF TypeOK, PortTypes, WriteEEPROM
<1>2. ControlTypes'
    BY DEF TypeOK, ControlTypes, WriteEEPROM
<1>3. BufferTypes'
    BY DEF TypeOK, BufferTypes, WriteEEPROM
<1>4. BoardTypes'
    BY DEF TypeOK, BoardTypes, WriteEEPROM, BufferTypes
<1>5. HostTypes'
    BY ZenonT(60) DEF TypeOK, HostTypes, WriteEEPROM
<1>6. QED BY <1>1, <1>2, <1>3, <1>4, <1>5 DEF TypeOK

LEMMA TypeWork ==
    ASSUME TypeOK, Work PROVE TypeOK'
<1>1. PortTypes'
    BY AnswersAssumption DEF TypeOK, PortTypes, Work
<1>2. ControlTypes'
    BY DEF TypeOK, ControlTypes, Work
<1>3. BufferTypes'
    BY ByteAssumption, ZenonT(60) DEF TypeOK, BufferTypes, Work
<1>4. BoardTypes'
    BY DEF TypeOK, BoardTypes, Work
<1>5. HostTypes'
    BY ZenonT(60) DEF TypeOK, HostTypes, Work
<1>6. QED BY <1>1, <1>2, <1>3, <1>4, <1>5 DEF TypeOK

LEMMA TypeRefusePacket ==
    ASSUME TypeOK, RefusePacket PROVE TypeOK'
<1>1. PortTypes'
    BY DEF TypeOK, PortTypes, RefusePacket, Executes
<1>2. ControlTypes'
    BY DEF TypeOK, ControlTypes, RefusePacket, Executes
<1>3. BufferTypes'
    BY DEF TypeOK, BufferTypes, RefusePacket, Executes
<1>4. BoardTypes'
    BY DEF TypeOK, BoardTypes, RefusePacket, Executes
<1>5. HostTypes'
    BY ZenonT(60) DEF TypeOK, HostTypes, RefusePacket, Executes
<1>6. QED BY <1>1, <1>2, <1>3, <1>4, <1>5 DEF TypeOK

LEMMA TypeIgnorePacket ==
    ASSUME TypeOK, IgnorePacket PROVE TypeOK'
<1>1. PortTypes'
    BY DEF TypeOK, PortTypes, IgnorePacket, Executes
<1>2. ControlTypes'
    BY DEF TypeOK, ControlTypes, IgnorePacket, Executes
<1>3. BufferTypes'
    BY DEF TypeOK, BufferTypes, IgnorePacket, Executes
<1>4. BoardTypes'
    BY DEF TypeOK, BoardTypes, IgnorePacket, Executes
<1>5. HostTypes'
    BY ZenonT(60) DEF TypeOK, HostTypes, IgnorePacket, Executes
<1>6. QED BY <1>1, <1>2, <1>3, <1>4, <1>5 DEF TypeOK

LEMMA TypeReadCells ==
    ASSUME TypeOK, ReadCells PROVE TypeOK'
<1>1. PortTypes'
    BY DEF TypeOK, PortTypes, ReadCells, Executes
<1>2. ControlTypes'
    BY DEF TypeOK, ControlTypes, ReadCells, Executes
<1>3. BufferTypes'
    BY ByteAssumption, ZenonT(60) DEF TypeOK, BufferTypes, ReadCells, Executes
<1>4. BoardTypes'
    BY DEF TypeOK, BoardTypes, ReadCells, Executes
<1>5. HostTypes'
    BY ZenonT(60) DEF TypeOK, HostTypes, ReadCells, Executes
<1>6. QED BY <1>1, <1>2, <1>3, <1>4, <1>5 DEF TypeOK

LEMMA TypeWriteCells ==
    ASSUME TypeOK, WriteCells PROVE TypeOK'
<1>1. PortTypes'
    BY DEF TypeOK, PortTypes, WriteCells, Executes
<1>2. ControlTypes'
    BY DEF TypeOK, ControlTypes, WriteCells, Executes
<1>3. BufferTypes'
    BY DEF TypeOK, BufferTypes, WriteCells, Executes
<1>4. BoardTypes'
    BY ByteAssumption DEF TypeOK, BoardTypes, WriteCells, Executes
<1>5. HostTypes'
    BY ZenonT(60) DEF TypeOK, HostTypes, WriteCells, Executes
<1>6. QED BY <1>1, <1>2, <1>3, <1>4, <1>5 DEF TypeOK

LEMMA TypeHostCommand ==
    ASSUME NEW cmd \in Asked, TypeOK, HostCommand(cmd) PROVE TypeOK'
<1>1. PortTypes'
    BY ByteOfIsByte DEF TypeOK, PortTypes, HostCommand, AtomWrites
<1>2. ControlTypes'
    BY DEF TypeOK, ControlTypes, HostCommand, AtomWrites
<1>3. BufferTypes'
    BY DEF TypeOK, BufferTypes, HostCommand, AtomWrites
<1>4. BoardTypes'
    BY DEF TypeOK, BoardTypes, HostCommand, AtomWrites
<1>5. HostTypes'
    BY BufSizeAssumption DEF TypeOK, HostTypes, HostCommand, AtomWrites, HostMode
<1>6. QED BY <1>1, <1>2, <1>3, <1>4, <1>5 DEF TypeOK

LEMMA TypeHostLatch ==
    ASSUME NEW b \in 0..255, TypeOK, HostLatch(b) PROVE TypeOK'
<1>1. PortTypes'
    BY DEF TypeOK, PortTypes, HostLatch, AtomWrites
<1>2. ControlTypes'
    BY DEF TypeOK, ControlTypes, HostLatch, AtomWrites
<1>3. BufferTypes'
    BY DEF TypeOK, BufferTypes, HostLatch, AtomWrites
<1>4. BoardTypes'
    BY DEF TypeOK, BoardTypes, HostLatch, AtomWrites
<1>5. HostTypes'
    BY ZenonT(60) DEF TypeOK, HostTypes, HostLatch, AtomWrites
<1>6. QED BY <1>1, <1>2, <1>3, <1>4, <1>5 DEF TypeOK

LEMMA TypeHostPut ==
    ASSUME NEW b \in 0..255, TypeOK, HostPut(b) PROVE TypeOK'
<1>1. PortTypes'
    BY DEF TypeOK, PortTypes, HostPut, AtomWrites
<1>2. ControlTypes'
    BY DEF TypeOK, ControlTypes, HostPut, AtomWrites
<1>3. BufferTypes'
    BY DEF TypeOK, BufferTypes, HostPut, AtomWrites
<1>4. BoardTypes'
    BY DEF TypeOK, BoardTypes, HostPut, AtomWrites
<1>5. HostTypes'
    <2>1. hBuf' \in [Index -> 0..255 \cup {Unknown}]
        <3>1. hBuf \in [Index -> 0..255 \cup {Unknown}]
            BY DEF TypeOK, HostTypes
        <3>2. CASE Paced
            <4>1. hBuf' = [hBuf EXCEPT ![hPos] = b]
                BY <3>2, Zenon DEF HostPut
            <4>2. QED BY <3>1, <4>1
        <3>3. CASE ~Paced
            BY <3>1, <3>3 DEF HostPut
        <3>4. QED BY <3>2, <3>3
    <2>2. hPos' \in Index
        BY NextIndexInIndex DEF HostPut, TypeOK, HostTypes
    <2>3. QED BY <2>1, <2>2 DEF HostPut, TypeOK, HostTypes
<1>6. QED BY <1>1, <1>2, <1>3, <1>4, <1>5 DEF TypeOK

LEMMA TypeHostRead ==
    ASSUME TypeOK, HostRead PROVE TypeOK'
<1>1. PortTypes'
    BY DEF TypeOK, PortTypes, HostRead, AtomReads
<1>2. ControlTypes'
    BY DEF TypeOK, ControlTypes, HostRead, AtomReads
<1>3. BufferTypes'
    BY DEF TypeOK, BufferTypes, HostRead, AtomReads
<1>4. BoardTypes'
    BY DEF TypeOK, BoardTypes, HostRead, AtomReads
<1>5. HostTypes'
    <2>1. hBuf' \in [Index -> 0..255 \cup {Unknown}]
        BY ZenonT(60) DEF HostRead, TypeOK, HostTypes, Fresh
    <2>2. hAcked' \in [SetCommands -> 0..255 \cup {Unknown}]
        <3>1. hLatch \in 0..255 \cup {Unknown}
              /\ hAcked \in [SetCommands -> 0..255 \cup {Unknown}]
            BY DEF TypeOK, HostTypes
        <3>2. CASE hpc = "sent" /\ LATD < STATUS_BUSY
            BY <3>1, <3>2 DEF HostRead
        <3>3. CASE ~(hpc = "sent" /\ LATD < STATUS_BUSY)
            BY <3>1, <3>3 DEF HostRead
        <3>4. QED BY <3>2, <3>3
    <2>3. hPos' \in Index
        BY NextIndexInIndex DEF HostRead, TypeOK, HostTypes
    <2>4. hpc' \in {"probe", "probed", "sent", "free"}
        BY DEF HostRead, TypeOK, HostTypes
    <2>5. QED BY <2>1, <2>2, <2>3, <2>4 DEF HostRead, TypeOK, HostTypes
<1>6. QED BY <1>1, <1>2, <1>3, <1>4, <1>5 DEF TypeOK

LEMMA TypeHostProbe ==
    ASSUME TypeOK, HostProbe PROVE TypeOK'
<1>1. PortTypes'
    BY DEF TypeOK, PortTypes, HostProbe, AtomWrites, CMD_GET_HEARTBEAT, ByteOf
<1>2. ControlTypes'
    BY DEF TypeOK, ControlTypes, HostProbe, AtomWrites
<1>3. BufferTypes'
    BY DEF TypeOK, BufferTypes, HostProbe, AtomWrites
<1>4. BoardTypes'
    BY DEF TypeOK, BoardTypes, HostProbe, AtomWrites
<1>5. HostTypes'
    <2>1. hCmd' \in Asked
        BY DEF HostProbe, CMD_GET_HEARTBEAT, Asked, OtherCommands
    <2>2. QED BY <2>1 DEF TypeOK, HostTypes, HostProbe
<1>6. QED BY <1>1, <1>2, <1>3, <1>4, <1>5 DEF TypeOK

LEMMA TypeHostSeesHeartbeat ==
    ASSUME TypeOK, HostSeesHeartbeat PROVE TypeOK'
<1>1. PortTypes'
    BY DEF TypeOK, PortTypes, HostSeesHeartbeat, AtomReads
<1>2. ControlTypes'
    BY DEF TypeOK, ControlTypes, HostSeesHeartbeat, AtomReads
<1>3. BufferTypes'
    BY DEF TypeOK, BufferTypes, HostSeesHeartbeat, AtomReads
<1>4. BoardTypes'
    BY DEF TypeOK, BoardTypes, HostSeesHeartbeat, AtomReads
<1>5. HostTypes'
    BY ZenonT(60) DEF TypeOK, HostTypes, HostSeesHeartbeat, AtomReads
<1>6. QED BY <1>1, <1>2, <1>3, <1>4, <1>5 DEF TypeOK

LEMMA TypePowerCycle == ASSUME TypeOK, PowerCycle PROVE TypeOK'
<1>1. PortTypes'
    <2>1. IBF' \in BOOLEAN /\ PSPIF' \in BOOLEAN
        BY Zenon DEF PowerCycle
    <2>2. QED BY <2>1 DEF PortTypes, PowerCycle
<1>2. ControlTypes'
    BY MaxCutsAssumption DEF TypeOK, ControlTypes, PowerCycle
<1>3. BufferTypes'
    <2>1. globalData' \in [Index -> 0..255]
        BY ByteAssumption DEF PowerCycle, VersionBytes
    <2>2. QED BY <2>1, BufSizeAssumption DEF BufferTypes, PowerCycle
<1>4. BoardTypes'
    <2>1. ee' \in [Cells -> 0..255]
        <3>1. CASE pc = "eeprom"
            BY <3>1, ByteAssumption DEF TypeOK, BoardTypes, PowerCycle, CellsAfterCut
        <3>2. CASE pc # "eeprom"
            BY <3>2, ByteAssumption DEF TypeOK, BoardTypes, PowerCycle, CellsAfterCut
        <3>3. QED BY <3>1, <3>2
    <2>2. QED BY <2>1 DEF BoardTypes, PowerCycle, Heartbeats
<1>5. HostTypes'
    BY BufSizeAssumption DEF TypeOK, HostTypes, PowerCycle, Fresh, Unknown, Asked,
       OtherCommands, CMD_GET_HEARTBEAT
<1>6. QED BY <1>1, <1>2, <1>3, <1>4, <1>5 DEF TypeOK

LEMMA TypeStutter == ASSUME TypeOK, UNCHANGED vars PROVE TypeOK'
<1>1. PortTypes'
    BY DEF vars, TypeOK, PortTypes
<1>2. ControlTypes'
    BY DEF vars, TypeOK, ControlTypes
<1>3. BufferTypes'
    BY DEF vars, TypeOK, BufferTypes
<1>4. BoardTypes'
    BY DEF vars, TypeOK, BoardTypes
<1>5. HostTypes'
    BY ZenonT(60) DEF vars, TypeOK, HostTypes
<1>6. QED BY <1>1, <1>2, <1>3, <1>4, <1>5 DEF TypeOK

LEMMA TypeStep == TypeOK /\ [Next]_vars => TypeOK'
<1> SUFFICES ASSUME TypeOK, [Next]_vars PROVE TypeOK'
    OBVIOUS
<1>1. CASE Firmware
    BY <1>1, TypeArm, TypeWake, TypeClear, TypeLatchAddressIn,
       TypeDecode, TypeTakeNothing, TypeTakeCommand, TypeTakeLatch,
       TypeTakeData, TypePutData, TypeInitRead, TypeInitWrite,
       TypeLoadParam, TypeGet, TypeSet, TypeStartWorker,
       TypeIgnore, TypeWriteEEPROM, TypeWork, TypeRefusePacket,
       TypeIgnorePacket, TypeReadCells, TypeWriteCells DEF Firmware, ExecuteArbitrary
<1>2. CASE Host
    BY <1>2, CommandsAssumption, ByteAssumption, TypeHostCommand, TypeHostLatch,
       TypeHostPut, TypeHostRead, TypeHostProbe, TypeHostSeesHeartbeat DEF Host
<1>3. CASE PowerCycle
    BY <1>3, TypePowerCycle
<1>4. CASE UNCHANGED vars
    BY <1>4, TypeStutter
<1>5. QED BY <1>1, <1>2, <1>3, <1>4 DEF Next

\* Every variable keeps its type, whatever the host does and whenever.
THEOREM LinkTypeOK == Spec => []TypeOK
BY TypeInit, TypeStep, PTL DEF Spec

----------------------------------------------------------------------------
(* The paced host *)

\* A host that is free finds the firmware asleep with nothing left to do.
LEMMA QuietDone ==
    ASSUME LinkInv, Quiet, hpc = "free"
    PROVE  pc = "wait" /\ ~PSPIF /\ ~IBF /\ served # 0 /\ ~Worked
<1>1. pc = "wait" /\ ~PSPIF /\ ~IBF
    BY DEF LinkInv, PortInv, ProbeInv, Quiet
<1>2. served # 0
    BY <1>1 DEF LinkInv, CommandInv, Pending
<1>3. QED BY <1>1, <1>2 DEF Worked

LEMMA LinkArm ==
    ASSUME TypeOK, LinkInv, Arm
    PROVE  LinkInv'
<1>1. PortInv'
    BY DEF LinkInv, PortInv, Arm, TypeOK, PortTypes
<1>2. ProbeInv'
    BY DEF LinkInv, ProbeInv, Arm
<1>3. CommandInv'
    BY DEF LinkInv, CommandInv, Arm, Pending
<1>4. LatchInv'
    BY DEF LinkInv, LatchInv, Arm, Pending
<1>5. FillInv'
    BY DEF LinkInv, FillInv, Arm, Pending, Worked
<1>6. DrainInv'
    BY DEF LinkInv, DrainInv, Arm, Unanswered
<1>7. QED BY <1>1, <1>2, <1>3, <1>4, <1>5, <1>6 DEF LinkInv

LEMMA LinkWake ==
    ASSUME TypeOK, LinkInv, Wake
    PROVE  LinkInv'
<1>1. PortInv'
    BY DEF LinkInv, PortInv, Wake, TypeOK, PortTypes
<1>2. ProbeInv'
    BY DEF LinkInv, ProbeInv, Wake
<1>3. CommandInv'
    BY DEF LinkInv, CommandInv, Wake, Pending
<1>4. LatchInv'
    BY DEF LinkInv, LatchInv, Wake, Pending
<1>5. FillInv'
    BY DEF LinkInv, FillInv, Wake, Pending, Worked
<1>6. DrainInv'
    BY DEF LinkInv, DrainInv, Wake, Unanswered, ProbeInv
<1>7. QED BY <1>1, <1>2, <1>3, <1>4, <1>5, <1>6 DEF LinkInv

LEMMA LinkClear ==
    ASSUME TypeOK, LinkInv, Clear
    PROVE  LinkInv'
<1>1. PortInv'
    BY DEF LinkInv, PortInv, Clear, TypeOK, PortTypes
<1>2. ProbeInv'
    BY DEF LinkInv, ProbeInv, Clear
<1>3. CommandInv'
    BY DEF LinkInv, CommandInv, Clear, Pending
<1>4. LatchInv'
    BY DEF LinkInv, LatchInv, Clear, Pending
<1>5. FillInv'
    BY DEF LinkInv, FillInv, Clear, Pending, Worked
<1>6. DrainInv'
    BY DEF LinkInv, DrainInv, Clear, Unanswered
<1>7. QED BY <1>1, <1>2, <1>3, <1>4, <1>5, <1>6 DEF LinkInv

LEMMA LinkLatchAddressIn ==
    ASSUME TypeOK, LinkInv, LatchAddressIn
    PROVE  LinkInv'
<1>1. PortInv'
    BY DEF LinkInv, PortInv, LatchAddressIn, TypeOK, PortTypes
<1>2. ProbeInv'
    BY DEF LinkInv, ProbeInv, LatchAddressIn
<1>3. CommandInv'
    BY DEF LinkInv, CommandInv, LatchAddressIn, Pending
<1>4. LatchInv'
    BY DEF LinkInv, LatchInv, LatchAddressIn, Pending
<1>5. FillInv'
    BY DEF LinkInv, FillInv, LatchAddressIn, Pending, Worked
<1>6. DrainInv'
    BY DEF LinkInv, DrainInv, LatchAddressIn, Unanswered
<1>7. QED BY <1>1, <1>2, <1>3, <1>4, <1>5, <1>6 DEF LinkInv

LEMMA LinkDecode ==
    ASSUME TypeOK, LinkInv, Decode
    PROVE  LinkInv'
<1>1. PortInv'
    BY DEF LinkInv, PortInv, Decode, TypeOK, PortTypes
<1>2. ProbeInv'
    BY DEF LinkInv, ProbeInv, Decode
<1>3. CommandInv'
    BY DEF LinkInv, CommandInv, Decode, Pending
<1>4. LatchInv'
    BY DEF LinkInv, LatchInv, Decode, Pending
<1>5. FillInv'
    BY DEF LinkInv, FillInv, Decode, Pending, Worked
<1>6. DrainInv'
    BY DEF LinkInv, DrainInv, Decode, Unanswered
<1>7. QED BY <1>1, <1>2, <1>3, <1>4, <1>5, <1>6 DEF LinkInv

LEMMA LinkTakeNothing ==
    ASSUME TypeOK, LinkInv, TakeNothing
    PROVE  LinkInv'
<1>1. PortInv'
    BY DEF LinkInv, PortInv, TakeNothing, TypeOK, PortTypes
<1>2. ProbeInv'
    BY DEF LinkInv, ProbeInv, TakeNothing
<1>3. CommandInv'
    BY DEF LinkInv, CommandInv, TakeNothing, Pending
<1>4. LatchInv'
    BY DEF LinkInv, LatchInv, TakeNothing, Pending
<1>5. FillInv'
    BY DEF LinkInv, FillInv, TakeNothing, Pending, Worked
<1>6. DrainInv'
    BY DEF LinkInv, DrainInv, TakeNothing, Unanswered
<1>7. QED BY <1>1, <1>2, <1>3, <1>4, <1>5, <1>6 DEF LinkInv

LEMMA LinkTakeCommand ==
    ASSUME TypeOK, LinkInv, TakeCommand
    PROVE  LinkInv'
<1>1. PortInv'
    BY DEF LinkInv, PortInv, TakeCommand, Takes, TypeOK, PortTypes
<1>2. ProbeInv'
    BY DEF LinkInv, ProbeInv, TakeCommand, Takes
<1>3. CommandInv'
    BY Decoded DEF LinkInv, CommandInv, TakeCommand, Pending, Takes, PortInv,
       TypeOK, HostTypes
<1>4. LatchInv'
    BY DEF LinkInv, LatchInv, TakeCommand, Pending, Takes, PortInv
<1>5. FillInv'
    BY DEF LinkInv, FillInv, TakeCommand, Pending, Worked, Takes, PortInv
<1>6. DrainInv'
    BY DEF LinkInv, DrainInv, TakeCommand, Unanswered, Takes
<1>7. QED BY <1>1, <1>2, <1>3, <1>4, <1>5, <1>6 DEF LinkInv

LEMMA LinkTakeLatch ==
    ASSUME TypeOK, LinkInv, TakeLatch
    PROVE  LinkInv'
<1>1. PortInv'
    BY DEF LinkInv, PortInv, TakeLatch, Takes, TypeOK, PortTypes
<1>2. ProbeInv'
    BY DEF LinkInv, ProbeInv, TakeLatch, Takes
<1>3. CommandInv'
    BY DEF LinkInv, CommandInv, TakeLatch, Pending, Takes, PortInv
<1>4. LatchInv'
    BY DEF LinkInv, LatchInv, TakeLatch, Pending, Takes, PortInv
<1>5. FillInv'
    BY DEF LinkInv, FillInv, TakeLatch, Pending, Worked, Takes, PortInv
<1>6. DrainInv'
    BY DEF LinkInv, DrainInv, TakeLatch, Unanswered, Takes
<1>7. QED BY <1>1, <1>2, <1>3, <1>4, <1>5, <1>6 DEF LinkInv

LEMMA LinkTakeData ==
    ASSUME TypeOK, LinkInv, TakeData
    PROVE  LinkInv'
<1>1. PortInv'
    BY DEF LinkInv, PortInv, TakeData, Takes, TypeOK, PortTypes
<1>2. ProbeInv'
    BY DEF LinkInv, ProbeInv, TakeData, Takes
<1>3. CommandInv'
    BY DEF LinkInv, CommandInv, TakeData, Pending, Takes, PortInv
<1>4. LatchInv'
    BY DEF LinkInv, LatchInv, TakeData, Pending, Takes, PortInv
<1>5. FillInv'
    BY DEF LinkInv, FillInv, TakeData, Pending, Worked, Takes, PortInv,
       TypeOK, BufferTypes, HostTypes
<1>6. DrainInv'
    BY BufSizeAssumption DEF LinkInv, DrainInv, TakeData, Unanswered, Takes,
       PortInv, CommandInv, TypeOK, BufferTypes, HostTypes, NextIndex
<1>7. QED BY <1>1, <1>2, <1>3, <1>4, <1>5, <1>6 DEF LinkInv

LEMMA LinkPutData ==
    ASSUME TypeOK, LinkInv, PutData
    PROVE  LinkInv'
<1>1. PortInv'
    BY DEF LinkInv, PortInv, PutData, TypeOK, PortTypes
<1>2. ProbeInv'
    BY DEF LinkInv, ProbeInv, PutData
<1>3. CommandInv'
    BY DEF LinkInv, CommandInv, PutData, Pending
<1>4. LatchInv'
    BY DEF LinkInv, LatchInv, PutData, Pending
<1>5. FillInv'
    BY DEF LinkInv, FillInv, PutData, Pending, Worked, PortInv, DrainInv
<1>6. DrainInv'
    BY BufSizeAssumption DEF LinkInv, DrainInv, PutData, Unanswered, PortInv,
       CommandInv, TypeOK, BufferTypes, HostTypes, NextIndex
<1>7. QED BY <1>1, <1>2, <1>3, <1>4, <1>5, <1>6 DEF LinkInv

LEMMA LinkInitRead ==
    ASSUME TypeOK, LinkInv, InitRead
    PROVE  LinkInv'
<1>1. PortInv'
    BY DEF LinkInv, PortInv, InitRead, Dispatches, TypeOK, PortTypes
<1>2. ProbeInv'
    BY DEF LinkInv, ProbeInv, InitRead, Dispatches
<1>3. CommandInv'
    BY DEF LinkInv, CommandInv, InitRead, Pending, Dispatches, PortInv, Slow
<1>4. LatchInv'
    BY DEF LinkInv, LatchInv, InitRead, Pending, Dispatches
<1>5. FillInv'
    BY DEF LinkInv, FillInv, InitRead, Pending, Worked, Dispatches, PortInv,
       CommandInv, CMD_INIT_READ, CMD_INIT_WRITE, CMD_LOAD_PARAM
<1>6. DrainInv'
    <2>1. received = CMD_INIT_READ /\ hCmd[1] = CMD_INIT_READ /\ served = 0 /\ ~IBF
        BY DEF LinkInv, CommandInv, PortInv, InitRead, Dispatches
    <2>2. hmode = "drain" /\ hpc = "free" /\ hPos = 0
        BY <2>1 DEF LinkInv, DrainInv
    <2>3. LATD' = globalData[0] /\ globalIndex' = 1 /\ LatchedAddress' = READ_DATA_REG
          /\ globalData' = globalData /\ hPos' = hPos /\ hmode' = hmode
          /\ hCmd' = hCmd /\ hpc' = hpc /\ IBF' = IBF /\ served' = 1 /\ pc' = "clear"
        BY <2>1 DEF InitRead, Dispatches
    <2>4. NextIndex(0) = 1
        BY BufSizeAssumption DEF NextIndex
    <2>5. QED BY <2>1, <2>2, <2>3, <2>4 DEF DrainInv, Unanswered
<1>7. QED BY <1>1, <1>2, <1>3, <1>4, <1>5, <1>6 DEF LinkInv

LEMMA LinkInitWrite ==
    ASSUME TypeOK, LinkInv, InitWrite
    PROVE  LinkInv'
<1>1. PortInv'
    BY DEF LinkInv, PortInv, InitWrite, Dispatches, TypeOK, PortTypes
<1>2. ProbeInv'
    BY DEF LinkInv, ProbeInv, InitWrite, Dispatches
<1>3. CommandInv'
    BY DEF LinkInv, CommandInv, InitWrite, Pending, Dispatches, PortInv, Slow
<1>4. LatchInv'
    BY DEF LinkInv, LatchInv, InitWrite, Pending, Dispatches
<1>5. FillInv'
    BY DEF LinkInv, FillInv, InitWrite, Pending, Worked, Dispatches, PortInv,
       CommandInv, CMD_INIT_READ, CMD_INIT_WRITE, CMD_LOAD_PARAM
<1>6. DrainInv'
    BY DEF LinkInv, DrainInv, InitWrite, Unanswered, Dispatches, PortInv,
       CommandInv, CMD_INIT_READ, CMD_INIT_WRITE, CMD_LOAD_PARAM
<1>7. QED BY <1>1, <1>2, <1>3, <1>4, <1>5, <1>6 DEF LinkInv

LEMMA LinkLoadParam ==
    ASSUME TypeOK, LinkInv, LoadParam
    PROVE  LinkInv'
<1>1. PortInv'
    BY DEF LinkInv, PortInv, LoadParam, Dispatches, TypeOK, PortTypes
<1>2. ProbeInv'
    BY DEF LinkInv, ProbeInv, LoadParam, Dispatches
<1>3. CommandInv'
    BY DEF LinkInv, CommandInv, LoadParam, Pending, Dispatches, PortInv, Slow
<1>4. LatchInv'
    BY DEF LinkInv, LatchInv, LoadParam, Pending, Dispatches
<1>5. FillInv'
    BY DEF LinkInv, FillInv, LoadParam, Pending, Worked, Dispatches, PortInv,
       CommandInv, CMD_INIT_READ, CMD_INIT_WRITE, CMD_LOAD_PARAM
<1>6. DrainInv'
    BY DEF LinkInv, DrainInv, LoadParam, Unanswered, Dispatches, PortInv,
       CommandInv, CMD_INIT_READ, CMD_INIT_WRITE, CMD_LOAD_PARAM
<1>7. QED BY <1>1, <1>2, <1>3, <1>4, <1>5, <1>6 DEF LinkInv

LEMMA LinkGet ==
    ASSUME TypeOK, LinkInv, Get
    PROVE  LinkInv'
<1>1. PortInv'
    BY DEF LinkInv, PortInv, Get, Dispatches, TypeOK, PortTypes
<1>2. ProbeInv'
    BY DEF LinkInv, ProbeInv, Get, Dispatches
<1>3. CommandInv'
    BY DEF LinkInv, CommandInv, Get, Pending, Dispatches, PortInv, Slow
<1>4. LatchInv'
    BY DEF LinkInv, LatchInv, Get, Pending, Dispatches
<1>5. FillInv'
    BY DEF LinkInv, FillInv, Get, Pending, Worked, Dispatches, PortInv,
       CommandInv, WorkerCommands, SetCommands, GetCommands, BufferCommands,
       CMD_INIT_READ, CMD_INIT_WRITE, CMD_LOAD_PARAM, CMD_READ_BYTES,
       CMD_WRITE_BYTES, CMD_EXEC_PACKET, CMD_GET_CARD_TYPE, CMD_SET_PORT_DDR,
       CMD_WRITE_PORT, CMD_SET_CFG_BYTE, CMD_GET_PORT_DDR, CMD_READ_PORT,
       CMD_GET_FW_VER, CMD_GET_BL_VER, CMD_GET_CFG_BYTE, CMD_READ_AUX,
       CMD_GET_HEARTBEAT, CMD_GET_IMG_STATUS
<1>6. DrainInv'
    BY DEF LinkInv, DrainInv, Get, Unanswered, Dispatches, PortInv,
       CommandInv, WorkerCommands, SetCommands, GetCommands, BufferCommands,
       CMD_INIT_READ, CMD_INIT_WRITE, CMD_LOAD_PARAM, CMD_READ_BYTES,
       CMD_WRITE_BYTES, CMD_EXEC_PACKET, CMD_GET_CARD_TYPE, CMD_SET_PORT_DDR,
       CMD_WRITE_PORT, CMD_SET_CFG_BYTE, CMD_GET_PORT_DDR, CMD_READ_PORT,
       CMD_GET_FW_VER, CMD_GET_BL_VER, CMD_GET_CFG_BYTE, CMD_READ_AUX,
       CMD_GET_HEARTBEAT, CMD_GET_IMG_STATUS
<1>7. QED BY <1>1, <1>2, <1>3, <1>4, <1>5, <1>6 DEF LinkInv

LEMMA LinkSet ==
    ASSUME TypeOK, LinkInv, Set
    PROVE  LinkInv'
<1>1. PortInv'
    BY DEF LinkInv, PortInv, Set, Dispatches, TypeOK, PortTypes
<1>2. ProbeInv'
    BY DEF LinkInv, ProbeInv, Set, Dispatches
<1>3. CommandInv'
    BY DEF LinkInv, CommandInv, Set, Pending, Dispatches, PortInv, Slow,
       WorkerCommands, SetCommands, GetCommands, BufferCommands,
       CMD_INIT_READ, CMD_INIT_WRITE, CMD_LOAD_PARAM, CMD_READ_BYTES,
       CMD_WRITE_BYTES, CMD_EXEC_PACKET, CMD_GET_CARD_TYPE, CMD_SET_PORT_DDR,
       CMD_WRITE_PORT, CMD_SET_CFG_BYTE, CMD_GET_PORT_DDR, CMD_READ_PORT,
       CMD_GET_FW_VER, CMD_GET_BL_VER, CMD_GET_CFG_BYTE, CMD_READ_AUX,
       CMD_GET_HEARTBEAT, CMD_GET_IMG_STATUS
<1>4. LatchInv'
    BY DEF LinkInv, LatchInv, Set, Pending, Dispatches
<1>5. FillInv'
    BY DEF LinkInv, FillInv, Set, Pending, Worked, Dispatches, PortInv,
       CommandInv, WorkerCommands, SetCommands, GetCommands, BufferCommands,
       CMD_INIT_READ, CMD_INIT_WRITE, CMD_LOAD_PARAM, CMD_READ_BYTES,
       CMD_WRITE_BYTES, CMD_EXEC_PACKET, CMD_GET_CARD_TYPE, CMD_SET_PORT_DDR,
       CMD_WRITE_PORT, CMD_SET_CFG_BYTE, CMD_GET_PORT_DDR, CMD_READ_PORT,
       CMD_GET_FW_VER, CMD_GET_BL_VER, CMD_GET_CFG_BYTE, CMD_READ_AUX,
       CMD_GET_HEARTBEAT, CMD_GET_IMG_STATUS
<1>6. DrainInv'
    BY DEF LinkInv, DrainInv, Set, Unanswered, Dispatches, PortInv,
       CommandInv, WorkerCommands, SetCommands, GetCommands, BufferCommands,
       CMD_INIT_READ, CMD_INIT_WRITE, CMD_LOAD_PARAM, CMD_READ_BYTES,
       CMD_WRITE_BYTES, CMD_EXEC_PACKET, CMD_GET_CARD_TYPE, CMD_SET_PORT_DDR,
       CMD_WRITE_PORT, CMD_SET_CFG_BYTE, CMD_GET_PORT_DDR, CMD_READ_PORT,
       CMD_GET_FW_VER, CMD_GET_BL_VER, CMD_GET_CFG_BYTE, CMD_READ_AUX,
       CMD_GET_HEARTBEAT, CMD_GET_IMG_STATUS
<1>7. QED BY <1>1, <1>2, <1>3, <1>4, <1>5, <1>6 DEF LinkInv

LEMMA LinkStartWorker ==
    ASSUME TypeOK, LinkInv, StartWorker
    PROVE  LinkInv'
<1>1. PortInv'
    BY DEF LinkInv, PortInv, StartWorker, Dispatches, TypeOK, PortTypes
<1>2. ProbeInv'
    BY DEF LinkInv, ProbeInv, StartWorker, Dispatches
<1>3. CommandInv'
    BY DEF LinkInv, CommandInv, StartWorker, Pending, Dispatches, PortInv,
       Slow, WorkerCommands, SetCommands, GetCommands, BufferCommands,
       CMD_INIT_READ, CMD_INIT_WRITE, CMD_LOAD_PARAM, CMD_READ_BYTES,
       CMD_WRITE_BYTES, CMD_EXEC_PACKET, CMD_GET_CARD_TYPE, CMD_SET_PORT_DDR,
       CMD_WRITE_PORT, CMD_SET_CFG_BYTE, CMD_GET_PORT_DDR, CMD_READ_PORT,
       CMD_GET_FW_VER, CMD_GET_BL_VER, CMD_GET_CFG_BYTE, CMD_READ_AUX,
       CMD_GET_HEARTBEAT, CMD_GET_IMG_STATUS
<1>4. LatchInv'
    BY DEF LinkInv, LatchInv, StartWorker, Pending, Dispatches
<1>5. FillInv'
    BY DEF LinkInv, FillInv, StartWorker, Pending, Worked, Dispatches,
       PortInv, CommandInv, WorkerCommands, SetCommands, GetCommands,
       BufferCommands, CMD_INIT_READ, CMD_INIT_WRITE, CMD_LOAD_PARAM,
       CMD_READ_BYTES, CMD_WRITE_BYTES, CMD_EXEC_PACKET, CMD_GET_CARD_TYPE,
       CMD_SET_PORT_DDR, CMD_WRITE_PORT, CMD_SET_CFG_BYTE, CMD_GET_PORT_DDR,
       CMD_READ_PORT, CMD_GET_FW_VER, CMD_GET_BL_VER, CMD_GET_CFG_BYTE,
       CMD_READ_AUX, CMD_GET_HEARTBEAT, CMD_GET_IMG_STATUS
<1>6. DrainInv'
    BY DEF LinkInv, DrainInv, StartWorker, Unanswered, Dispatches, PortInv,
       CommandInv, WorkerCommands, SetCommands, GetCommands, BufferCommands,
       CMD_INIT_READ, CMD_INIT_WRITE, CMD_LOAD_PARAM, CMD_READ_BYTES,
       CMD_WRITE_BYTES, CMD_EXEC_PACKET, CMD_GET_CARD_TYPE, CMD_SET_PORT_DDR,
       CMD_WRITE_PORT, CMD_SET_CFG_BYTE, CMD_GET_PORT_DDR, CMD_READ_PORT,
       CMD_GET_FW_VER, CMD_GET_BL_VER, CMD_GET_CFG_BYTE, CMD_READ_AUX,
       CMD_GET_HEARTBEAT, CMD_GET_IMG_STATUS
<1>7. QED BY <1>1, <1>2, <1>3, <1>4, <1>5, <1>6 DEF LinkInv

LEMMA LinkIgnore ==
    ASSUME TypeOK, LinkInv, Ignore
    PROVE  LinkInv'
<1>1. PortInv'
    BY DEF LinkInv, PortInv, Ignore, Dispatches, TypeOK, PortTypes
<1>2. ProbeInv'
    BY DEF LinkInv, ProbeInv, Ignore, Dispatches
<1>3. CommandInv'
    BY DEF LinkInv, CommandInv, Ignore, Pending, Dispatches, PortInv, Slow
<1>4. LatchInv'
    BY DEF LinkInv, LatchInv, Ignore, Pending, Dispatches
<1>5. FillInv'
    BY DEF LinkInv, FillInv, Ignore, Pending, Worked, Dispatches, PortInv,
       CommandInv, WorkerCommands, SetCommands, GetCommands, BufferCommands,
       CMD_INIT_READ, CMD_INIT_WRITE, CMD_LOAD_PARAM, CMD_READ_BYTES,
       CMD_WRITE_BYTES, CMD_EXEC_PACKET, CMD_GET_CARD_TYPE, CMD_SET_PORT_DDR,
       CMD_WRITE_PORT, CMD_SET_CFG_BYTE, CMD_GET_PORT_DDR, CMD_READ_PORT,
       CMD_GET_FW_VER, CMD_GET_BL_VER, CMD_GET_CFG_BYTE, CMD_READ_AUX,
       CMD_GET_HEARTBEAT, CMD_GET_IMG_STATUS
<1>6. DrainInv'
    BY DEF LinkInv, DrainInv, Ignore, Unanswered, Dispatches, PortInv,
       CommandInv, WorkerCommands, SetCommands, GetCommands, BufferCommands,
       CMD_INIT_READ, CMD_INIT_WRITE, CMD_LOAD_PARAM, CMD_READ_BYTES,
       CMD_WRITE_BYTES, CMD_EXEC_PACKET, CMD_GET_CARD_TYPE, CMD_SET_PORT_DDR,
       CMD_WRITE_PORT, CMD_SET_CFG_BYTE, CMD_GET_PORT_DDR, CMD_READ_PORT,
       CMD_GET_FW_VER, CMD_GET_BL_VER, CMD_GET_CFG_BYTE, CMD_READ_AUX,
       CMD_GET_HEARTBEAT, CMD_GET_IMG_STATUS
<1>7. QED BY <1>1, <1>2, <1>3, <1>4, <1>5, <1>6 DEF LinkInv

LEMMA LinkWriteEEPROM ==
    ASSUME TypeOK, LinkInv, WriteEEPROM
    PROVE  LinkInv'
<1>1. PortInv'
    BY DEF LinkInv, PortInv, WriteEEPROM, TypeOK, PortTypes
<1>2. ProbeInv'
    BY DEF LinkInv, ProbeInv, WriteEEPROM
<1>3. CommandInv'
    BY DEF LinkInv, CommandInv, WriteEEPROM, Pending
<1>4. LatchInv'
    BY DEF LinkInv, LatchInv, WriteEEPROM, Pending
<1>5. FillInv'
    BY DEF LinkInv, FillInv, WriteEEPROM, Pending, Worked
<1>6. DrainInv'
    BY DEF LinkInv, DrainInv, WriteEEPROM, Unanswered, CommandInv, PortInv
<1>7. QED BY <1>1, <1>2, <1>3, <1>4, <1>5, <1>6 DEF LinkInv

LEMMA LinkWork ==
    ASSUME TypeOK, LinkInv, Work
    PROVE  LinkInv'
<1>1. PortInv'
    BY DEF LinkInv, PortInv, Work, TypeOK, PortTypes
<1>2. ProbeInv'
    BY DEF LinkInv, ProbeInv, Work
<1>3. CommandInv'
    BY DEF LinkInv, CommandInv, Work, Pending
<1>4. LatchInv'
    BY DEF LinkInv, LatchInv, Work, Pending
<1>5. FillInv'
    BY DEF LinkInv, FillInv, Work, Pending, Worked, CommandInv, PortInv,
       TypeOK, ControlTypes
<1>6. DrainInv'
    BY DEF LinkInv, DrainInv, Work, Unanswered, CommandInv, PortInv
<1>7. QED BY <1>1, <1>2, <1>3, <1>4, <1>5, <1>6 DEF LinkInv

LEMMA LinkRefusePacket ==
    ASSUME TypeOK, LinkInv, RefusePacket
    PROVE  LinkInv'
<1>1. PortInv'
    BY DEF LinkInv, PortInv, RefusePacket, Executes, TypeOK, PortTypes
<1>2. ProbeInv'
    BY DEF LinkInv, ProbeInv, RefusePacket, Executes
<1>3. CommandInv'
    BY DEF LinkInv, CommandInv, RefusePacket, Pending, Executes
<1>4. LatchInv'
    BY DEF LinkInv, LatchInv, RefusePacket, Pending, Executes
<1>5. FillInv'
    BY DEF LinkInv, FillInv, RefusePacket, Pending, Worked, Executes
<1>6. DrainInv'
    BY DEF LinkInv, DrainInv, RefusePacket, Unanswered, Executes, CommandInv,
       PortInv
<1>7. QED BY <1>1, <1>2, <1>3, <1>4, <1>5, <1>6 DEF LinkInv

LEMMA LinkIgnorePacket ==
    ASSUME TypeOK, LinkInv, IgnorePacket
    PROVE  LinkInv'
<1>1. PortInv'
    BY DEF LinkInv, PortInv, IgnorePacket, Executes, TypeOK, PortTypes
<1>2. ProbeInv'
    BY DEF LinkInv, ProbeInv, IgnorePacket, Executes
<1>3. CommandInv'
    BY DEF LinkInv, CommandInv, IgnorePacket, Pending, Executes
<1>4. LatchInv'
    BY DEF LinkInv, LatchInv, IgnorePacket, Pending, Executes
<1>5. FillInv'
    BY DEF LinkInv, FillInv, IgnorePacket, Pending, Worked, Executes
<1>6. DrainInv'
    BY DEF LinkInv, DrainInv, IgnorePacket, Unanswered, Executes
<1>7. QED BY <1>1, <1>2, <1>3, <1>4, <1>5, <1>6 DEF LinkInv

LEMMA LinkReadCells ==
    ASSUME TypeOK, LinkInv, ReadCells
    PROVE  LinkInv'
<1>1. PortInv'
    BY DEF LinkInv, PortInv, ReadCells, Executes, TypeOK, PortTypes
<1>2. ProbeInv'
    BY DEF LinkInv, ProbeInv, ReadCells, Executes
<1>3. CommandInv'
    BY DEF LinkInv, CommandInv, ReadCells, Pending, Executes
<1>4. LatchInv'
    BY DEF LinkInv, LatchInv, ReadCells, Pending, Executes
<1>5. FillInv'
    BY DEF LinkInv, FillInv, ReadCells, Pending, Worked, Executes, CommandInv,
       PortInv, TypeOK, ControlTypes, WorkerCommands
<1>6. DrainInv'
    BY DEF LinkInv, DrainInv, ReadCells, Unanswered, Executes, CommandInv,
       PortInv
<1>7. QED BY <1>1, <1>2, <1>3, <1>4, <1>5, <1>6 DEF LinkInv

LEMMA LinkWriteCells ==
    ASSUME TypeOK, LinkInv, WriteCells
    PROVE  LinkInv'
<1>1. PortInv'
    BY DEF LinkInv, PortInv, WriteCells, Executes, TypeOK, PortTypes
<1>2. ProbeInv'
    BY DEF LinkInv, ProbeInv, WriteCells, Executes
<1>3. CommandInv'
    BY DEF LinkInv, CommandInv, WriteCells, Pending, Executes
<1>4. LatchInv'
    BY DEF LinkInv, LatchInv, WriteCells, Pending, Executes
<1>5. FillInv'
    BY DEF LinkInv, FillInv, WriteCells, Pending, Worked, Executes
<1>6. DrainInv'
    BY DEF LinkInv, DrainInv, WriteCells, Unanswered, Executes, CommandInv,
       PortInv
<1>7. QED BY <1>1, <1>2, <1>3, <1>4, <1>5, <1>6 DEF LinkInv

LEMMA LinkHostCommand ==
    ASSUME NEW cmd \in Asked, Paced, TypeOK, LinkInv, HostCommand(cmd)
    PROVE  LinkInv'
<1>1. PortInv'
    BY QuietDone DEF LinkInv, PortInv, HostCommand, AtomWrites
<1>2. ProbeInv'
    BY QuietDone DEF LinkInv, ProbeInv, HostCommand, AtomWrites
<1>3. CommandInv'
    BY QuietDone DEF LinkInv, CommandInv, HostCommand, Pending, AtomWrites,
       Slow
<1>4. LatchInv'
    BY QuietDone DEF LinkInv, LatchInv, HostCommand, Pending, AtomWrites
<1>5. FillInv'
    BY QuietDone DEF LinkInv, FillInv, HostCommand, Pending, Worked,
       AtomWrites, HostMode, CMD_INIT_READ, CMD_INIT_WRITE, Slow,
       WorkerCommands, SetCommands, CMD_READ_BYTES, CMD_WRITE_BYTES,
       CMD_EXEC_PACKET, CMD_GET_CARD_TYPE, CMD_SET_PORT_DDR, CMD_WRITE_PORT,
       CMD_SET_CFG_BYTE
<1>6. DrainInv'
    BY QuietDone DEF LinkInv, DrainInv, HostCommand, Unanswered, AtomWrites,
       HostMode, CMD_INIT_READ, CMD_INIT_WRITE, Slow, WorkerCommands,
       SetCommands, CMD_READ_BYTES, CMD_WRITE_BYTES, CMD_EXEC_PACKET,
       CMD_GET_CARD_TYPE, CMD_SET_PORT_DDR, CMD_WRITE_PORT, CMD_SET_CFG_BYTE
<1>7. QED BY <1>1, <1>2, <1>3, <1>4, <1>5, <1>6 DEF LinkInv

LEMMA LinkHostLatch ==
    ASSUME NEW b \in 0..255, Paced, TypeOK, LinkInv, HostLatch(b)
    PROVE  LinkInv'
<1>1. PortInv'
    BY QuietDone DEF LinkInv, PortInv, HostLatch, AtomWrites
<1>2. ProbeInv'
    BY QuietDone DEF LinkInv, ProbeInv, HostLatch, AtomWrites
<1>3. CommandInv'
    BY QuietDone DEF LinkInv, CommandInv, HostLatch, Pending, AtomWrites
<1>4. LatchInv'
    BY QuietDone DEF LinkInv, LatchInv, HostLatch, Pending, AtomWrites
<1>5. FillInv'
    BY QuietDone DEF LinkInv, FillInv, HostLatch, Pending, Worked, AtomWrites
<1>6. DrainInv'
    BY QuietDone DEF LinkInv, DrainInv, HostLatch, Unanswered, AtomWrites
<1>7. QED BY <1>1, <1>2, <1>3, <1>4, <1>5, <1>6 DEF LinkInv

LEMMA LinkHostPut ==
    ASSUME NEW b \in 0..255, Paced, TypeOK, LinkInv, HostPut(b)
    PROVE  LinkInv'
<1>1. PortInv'
    BY QuietDone DEF LinkInv, PortInv, HostPut, AtomWrites
<1>2. ProbeInv'
    BY QuietDone DEF LinkInv, ProbeInv, HostPut, AtomWrites
<1>3. CommandInv'
    BY QuietDone DEF LinkInv, CommandInv, HostPut, Pending, AtomWrites
<1>4. LatchInv'
    BY QuietDone DEF LinkInv, LatchInv, HostPut, Pending, AtomWrites
<1>5. FillInv'
    BY QuietDone, ZenonT(60) DEF LinkInv, FillInv, HostPut, Pending, Worked, AtomWrites,
       TypeOK, HostTypes, BufferTypes, NextIndex
<1>6. DrainInv'
    BY QuietDone DEF LinkInv, DrainInv, HostPut, Unanswered, AtomWrites,
       PortInv, CommandInv, TypeOK, BufferTypes, HostTypes, NextIndex
<1>7. QED BY <1>1, <1>2, <1>3, <1>4, <1>5, <1>6 DEF LinkInv

LEMMA LinkHostRead ==
    ASSUME Paced, TypeOK, LinkInv, HostRead
    PROVE  LinkInv'
<1>1. PortInv'
    BY DEF LinkInv, PortInv, HostRead, AtomReads
<1>2. ProbeInv'
    BY DEF LinkInv, ProbeInv, HostRead, AtomReads
<1>3. CommandInv'
    BY DEF LinkInv, CommandInv, HostRead, Pending, AtomReads, PortInv,
       ProbeInv, Polling, Quiet
<1>4. LatchInv'
    BY DEF LinkInv, LatchInv, HostRead, Pending, AtomReads
<1>5. FillInv'
    <2>1. UNCHANGED <<IBF, PORTA, PORTD, pc, globalIndex, globalData, hmode, hCmd,
                      served>>
        BY DEF HostRead, AtomReads
    <2>2. hmode = "fill" => hpc' = "free" /\ hPos' = hPos /\ hBuf' = hBuf
        BY DEF HostRead, LinkInv, FillInv
    <2>3. hmode # "fill" => ~Pending(WRITE_DATA_REG)
        BY DEF LinkInv, FillInv
    <2>4. CASE hpc' = hpc /\ hBuf' = hBuf
        BY <2>1, <2>2, <2>3, <2>4 DEF LinkInv, FillInv, Pending, Worked
    <2>5. CASE hpc = "sent" /\ LATD < STATUS_BUSY
        <3>1. hmode # "fill"
            BY <2>5 DEF LinkInv, FillInv
        <3>2. hBuf' = IF hCmd[1] \in WorkerCommands THEN Fresh ELSE hBuf
            BY <2>5 DEF HostRead
        <3>3. \A i \in Index : Known(hBuf'[i]) => globalData[i] = hBuf'[i]
            BY <2>3, <3>1, <3>2 DEF LinkInv, FillInv, Worked, Fresh, Known
        <3>4. QED BY <2>1, <2>3, <3>1, <3>3 DEF FillInv, Pending
    <2>6. QED BY <2>4, <2>5 DEF HostRead
<1>6. DrainInv'
    BY DEF LinkInv, DrainInv, HostRead, Unanswered, AtomReads, PortInv,
       ProbeInv, CommandInv, Pending, Polling, Quiet
<1>7. QED BY <1>1, <1>2, <1>3, <1>4, <1>5, <1>6 DEF LinkInv

LEMMA LinkHostProbe ==
    ASSUME Paced, TypeOK, LinkInv, HostProbe
    PROVE  LinkInv'
<1>1. PortInv'
    BY DEF LinkInv, PortInv, HostProbe, AtomWrites, Probing, Quiet, ProbeInv
<1>2. ProbeInv'
    BY DEF LinkInv, ProbeInv, HostProbe, AtomWrites
<1>3. CommandInv'
    BY DEF LinkInv, CommandInv, HostProbe, Pending, AtomWrites, Probing,
       Quiet, ProbeInv, ByteOf, CMD_GET_HEARTBEAT, FileCommands, DataCommands,
       Slow, WorkerCommands, SetCommands, GetCommands, BufferCommands,
       CMD_INIT_READ, CMD_INIT_WRITE, CMD_LOAD_PARAM, CMD_READ_BYTES,
       CMD_WRITE_BYTES, CMD_EXEC_PACKET, CMD_GET_CARD_TYPE, CMD_SET_PORT_DDR,
       CMD_WRITE_PORT, CMD_SET_CFG_BYTE, CMD_GET_PORT_DDR, CMD_READ_PORT,
       CMD_GET_FW_VER, CMD_GET_BL_VER, CMD_GET_CFG_BYTE, CMD_READ_AUX,
       CMD_GET_IMG_STATUS
<1>4. LatchInv'
    BY DEF LinkInv, LatchInv, HostProbe, Pending, AtomWrites, ProbeInv
<1>5. FillInv'
    BY DEF LinkInv, FillInv, HostProbe, Pending, Worked, AtomWrites
<1>6. DrainInv'
    BY DEF LinkInv, DrainInv, HostProbe, Unanswered, AtomWrites, ProbeInv,
       CMD_INIT_READ, CMD_GET_HEARTBEAT
<1>7. QED BY <1>1, <1>2, <1>3, <1>4, <1>5, <1>6 DEF LinkInv

LEMMA LinkHostSeesHeartbeat ==
    ASSUME Paced, TypeOK, LinkInv, HostSeesHeartbeat
    PROVE  LinkInv'
<1>1. PortInv'
    BY DEF LinkInv, PortInv, HostSeesHeartbeat, AtomReads
<1>2. ProbeInv'
    BY DEF LinkInv, ProbeInv, HostSeesHeartbeat, AtomReads, Heartbeats
<1>3. CommandInv'
    BY DEF LinkInv, CommandInv, HostSeesHeartbeat, Pending, AtomReads
<1>4. LatchInv'
    BY DEF LinkInv, LatchInv, HostSeesHeartbeat, Pending, AtomReads
<1>5. FillInv'
    BY DEF LinkInv, FillInv, HostSeesHeartbeat, Pending, Worked, AtomReads
<1>6. DrainInv'
    BY DEF LinkInv, DrainInv, HostSeesHeartbeat, Unanswered, AtomReads
<1>7. QED BY <1>1, <1>2, <1>3, <1>4, <1>5, <1>6 DEF LinkInv

LEMMA LinkPowerCycle ==
    ASSUME TypeOK, LinkInv, PowerCycle PROVE LinkInv'
<1>1. PortInv'
    BY DEF PortInv, PowerCycle
<1>2. ProbeInv'
    BY DEF ProbeInv, PowerCycle
<1>3. CommandInv'
    BY DEF CommandInv, PowerCycle, Pending
<1>4. LatchInv'
    BY DEF LatchInv, PowerCycle, Pending, Known
<1>5. FillInv'
    BY DEF FillInv, PowerCycle, Pending, Known, Fresh
<1>6. DrainInv'
    BY DEF DrainInv, PowerCycle
<1>7. QED BY <1>1, <1>2, <1>3, <1>4, <1>5, <1>6 DEF LinkInv

LEMMA LinkStutter == ASSUME LinkInv, UNCHANGED vars PROVE LinkInv'
<1>1. PortInv'
    BY DEF LinkInv, PortInv, vars
<1>2. ProbeInv'
    BY DEF LinkInv, ProbeInv, vars
<1>3. CommandInv'
    BY DEF LinkInv, CommandInv, vars, Pending
<1>4. LatchInv'
    BY DEF LinkInv, LatchInv, vars, Pending
<1>5. FillInv'
    BY DEF LinkInv, FillInv, vars, Pending, Worked
<1>6. DrainInv'
    BY DEF LinkInv, DrainInv, vars, Unanswered
<1>7. QED BY <1>1, <1>2, <1>3, <1>4, <1>5, <1>6 DEF LinkInv

LEMMA LinkInit == Init => LinkInv
<1> SUFFICES ASSUME Init PROVE LinkInv
    OBVIOUS
<1>1. PortInv
    BY DEF PortInv, Init
<1>2. ProbeInv
    BY DEF ProbeInv, Init
<1>3. CommandInv
    BY DEF CommandInv, Init, Pending
<1>4. LatchInv
    BY DEF LatchInv, Init, Pending, Known
<1>5. FillInv
    BY DEF FillInv, Init, Pending, Known, Fresh
<1>6. DrainInv
    BY DEF DrainInv, Init
<1>7. QED BY <1>1, <1>2, <1>3, <1>4, <1>5, <1>6 DEF LinkInv

LEMMA LinkStep ==
    ASSUME Paced PROVE TypeOK /\ LinkInv /\ [Next]_vars => LinkInv'
<1> SUFFICES ASSUME TypeOK, LinkInv, [Next]_vars PROVE LinkInv'
    OBVIOUS
<1>1. CASE Firmware
    BY <1>1, LinkArm, LinkWake, LinkClear, LinkLatchAddressIn, LinkDecode,
       LinkTakeNothing, LinkTakeCommand, LinkTakeLatch, LinkTakeData,
       LinkPutData, LinkInitRead, LinkInitWrite, LinkLoadParam, LinkGet,
       LinkSet, LinkStartWorker, LinkIgnore, LinkWriteEEPROM, LinkWork,
       LinkRefusePacket, LinkIgnorePacket, LinkReadCells, LinkWriteCells
       DEF Firmware, ExecuteArbitrary
<1>2. CASE Host
    BY <1>2, CommandsAssumption, ByteAssumption, LinkHostCommand, LinkHostLatch,
       LinkHostPut, LinkHostRead, LinkHostProbe, LinkHostSeesHeartbeat DEF Host
<1>3. CASE PowerCycle
    BY <1>3, LinkPowerCycle
<1>4. CASE UNCHANGED vars
    BY <1>4, LinkStutter
<1>5. QED BY <1>1, <1>2, <1>3, <1>4 DEF Next

\* The strengthening holds of every host that keeps its pace.
LEMMA LinkInvariant == ASSUME Paced PROVE Spec => []LinkInv
BY LinkTypeOK, LinkInit, LinkStep, PTL DEF Spec

\* Whatever commands a paced host gives, each runs with the file number, the
\* latch and the buffer bytes the host has written for it.
THEOREM OperandsArriveForPaced == ASSUME Paced PROVE Spec => []OperandsArrive
<1>1. LinkInv => OperandsArrive
    BY DEF LinkInv, PortInv, CommandInv, LatchInv, FillInv, OperandsArrive,
       Pending, Worked
<1>2. QED BY <1>1, LinkInvariant, PTL

\* A paced host never takes an older status for the answer to its command.
THEOREM AnswerIsOwnForPaced == ASSUME Paced PROVE Spec => []AnswerIsOwn
<1>1. TypeOK /\ LinkInv => AnswerIsOwn
    BY DEF TypeOK, ControlTypes, LinkInv, PortInv, ProbeInv, CommandInv,
       AnswerIsOwn, Polling, Quiet, Pending
<1>2. QED BY <1>1, LinkTypeOK, LinkInvariant, PTL

\* A paced host reads the buffer byte by byte, in order, from its start.
THEOREM NextByteReadyForPaced == ASSUME Paced PROVE Spec => []NextByteReady
<1>1. LinkInv => NextByteReady
    BY QuietDone DEF LinkInv, DrainInv, NextByteReady, Unanswered
<1>2. QED BY <1>1, LinkInvariant, PTL

\* The firmware never sleeps with a byte of a paced host untaken.
THEOREM NoByteSleepsForPaced == ASSUME Paced PROVE Spec => []NoByteSleeps
<1>1. LinkInv => NoByteSleeps
    BY DEF LinkInv, PortInv, ProbeInv, NoByteSleeps, Quiet
<1>2. QED BY <1>1, LinkInvariant, PTL

----------------------------------------------------------------------------
(* The settings in the EEPROM *)

\* From the moment the host asks for a change of the setting until it has the
\* answer, nothing is acknowledged; afterwards cell and variable agree with it.
ConfigInv ==
    /\ hpc = "sent" => PORTA = CMD_REG
    /\ hCmd[1] \in {CMD_SET_CFG_BYTE, CMD_EXEC_PACKET}
          /\ (served = 0 \/ pc \in {"work", "eeprom"} \/ hpc = "sent")
          => hAcked[CMD_SET_CFG_BYTE] = Unknown
    /\ hCmd[1] = CMD_SET_CFG_BYTE /\ hpc = "sent" /\ served = 1
          => /\ configByte = byteValueLatch
             /\ pc # "eeprom" => ee[EE_SYSFLAGS] = byteValueLatch
    /\ Known(hAcked[CMD_SET_CFG_BYTE]) =>
          /\ ee[EE_SYSFLAGS] = hAcked[CMD_SET_CFG_BYTE]
          /\ pc # "init" => configByte = hAcked[CMD_SET_CFG_BYTE]

LEMMA ConfigInit == Init => ConfigInv
BY DEF Init, ConfigInv, Known, SetCommands, CMD_GET_HEARTBEAT, CMD_SET_CFG_BYTE,
   CMD_EXEC_PACKET

LEMMA ConfigArm ==
    ASSUME TypeOK, LinkInv, ConfigInv, Arm
    PROVE  ConfigInv'
BY DEF ConfigInv, Arm

LEMMA ConfigWake ==
    ASSUME TypeOK, LinkInv, ConfigInv, Wake
    PROVE  ConfigInv'
BY DEF ConfigInv, Wake

LEMMA ConfigClear ==
    ASSUME TypeOK, LinkInv, ConfigInv, Clear
    PROVE  ConfigInv'
BY DEF ConfigInv, Clear

LEMMA ConfigLatchAddressIn ==
    ASSUME TypeOK, LinkInv, ConfigInv, LatchAddressIn
    PROVE  ConfigInv'
BY DEF ConfigInv, LatchAddressIn

LEMMA ConfigDecode ==
    ASSUME TypeOK, LinkInv, ConfigInv, Decode
    PROVE  ConfigInv'
BY DEF ConfigInv, Decode

LEMMA ConfigTakeNothing ==
    ASSUME TypeOK, LinkInv, ConfigInv, TakeNothing
    PROVE  ConfigInv'
BY DEF ConfigInv, TakeNothing

LEMMA ConfigTakeCommand ==
    ASSUME TypeOK, LinkInv, ConfigInv, TakeCommand
    PROVE  ConfigInv'
BY DEF LinkInv, ConfigInv, TakeCommand, Takes, PortInv, CommandInv, Pending

LEMMA ConfigTakeLatch ==
    ASSUME TypeOK, LinkInv, ConfigInv, TakeLatch
    PROVE  ConfigInv'
BY DEF LinkInv, ConfigInv, TakeLatch, Takes, PortInv, Pending

LEMMA ConfigTakeData ==
    ASSUME TypeOK, LinkInv, ConfigInv, TakeData
    PROVE  ConfigInv'
BY DEF ConfigInv, TakeData, Takes

LEMMA ConfigPutData ==
    ASSUME TypeOK, LinkInv, ConfigInv, PutData
    PROVE  ConfigInv'
BY DEF ConfigInv, PutData

LEMMA ConfigInitRead ==
    ASSUME TypeOK, LinkInv, ConfigInv, InitRead
    PROVE  ConfigInv'
BY DEF LinkInv, ConfigInv, InitRead, Dispatches, CommandInv, PortInv, Known,
   CMD_INIT_READ, CMD_INIT_WRITE, CMD_LOAD_PARAM, CMD_SET_CFG_BYTE,
   CMD_EXEC_PACKET

LEMMA ConfigInitWrite ==
    ASSUME TypeOK, LinkInv, ConfigInv, InitWrite
    PROVE  ConfigInv'
BY DEF LinkInv, ConfigInv, InitWrite, Dispatches, CommandInv, PortInv, Known,
   CMD_INIT_READ, CMD_INIT_WRITE, CMD_LOAD_PARAM, CMD_SET_CFG_BYTE,
   CMD_EXEC_PACKET

LEMMA ConfigLoadParam ==
    ASSUME TypeOK, LinkInv, ConfigInv, LoadParam
    PROVE  ConfigInv'
BY DEF LinkInv, ConfigInv, LoadParam, Dispatches, CommandInv, PortInv, Known,
   CMD_INIT_READ, CMD_INIT_WRITE, CMD_LOAD_PARAM, CMD_SET_CFG_BYTE,
   CMD_EXEC_PACKET

LEMMA ConfigGet ==
    ASSUME TypeOK, LinkInv, ConfigInv, Get
    PROVE  ConfigInv'
BY DEF LinkInv, ConfigInv, Get, Dispatches, CommandInv, PortInv, GetCommands,
   WorkerCommands, SetCommands, BufferCommands, CMD_INIT_READ, CMD_INIT_WRITE,
   CMD_LOAD_PARAM, CMD_READ_BYTES, CMD_WRITE_BYTES, CMD_EXEC_PACKET,
   CMD_GET_CARD_TYPE, CMD_SET_PORT_DDR, CMD_WRITE_PORT, CMD_SET_CFG_BYTE,
   CMD_GET_PORT_DDR, CMD_READ_PORT, CMD_GET_FW_VER, CMD_GET_BL_VER,
   CMD_GET_CFG_BYTE, CMD_READ_AUX, CMD_GET_HEARTBEAT, CMD_GET_IMG_STATUS

LEMMA ConfigSet ==
    ASSUME TypeOK, LinkInv, ConfigInv, Set
    PROVE  ConfigInv'
BY DEF LinkInv, ConfigInv, Set, Dispatches, CommandInv, PortInv, Pending,
   Known

LEMMA ConfigStartWorker ==
    ASSUME TypeOK, LinkInv, ConfigInv, StartWorker
    PROVE  ConfigInv'
BY DEF LinkInv, ConfigInv, StartWorker, Dispatches, CommandInv, PortInv,
   WorkerCommands, SetCommands, GetCommands, BufferCommands, CMD_INIT_READ,
   CMD_INIT_WRITE, CMD_LOAD_PARAM, CMD_READ_BYTES, CMD_WRITE_BYTES,
   CMD_EXEC_PACKET, CMD_GET_CARD_TYPE, CMD_SET_PORT_DDR, CMD_WRITE_PORT,
   CMD_SET_CFG_BYTE, CMD_GET_PORT_DDR, CMD_READ_PORT, CMD_GET_FW_VER,
   CMD_GET_BL_VER, CMD_GET_CFG_BYTE, CMD_READ_AUX, CMD_GET_HEARTBEAT,
   CMD_GET_IMG_STATUS

LEMMA ConfigIgnore ==
    ASSUME TypeOK, LinkInv, ConfigInv, Ignore
    PROVE  ConfigInv'
BY DEF LinkInv, ConfigInv, Ignore, Dispatches, CommandInv, PortInv, Known,
   SetCommands

LEMMA ConfigWriteEEPROM ==
    ASSUME TypeOK, LinkInv, ConfigInv, WriteEEPROM
    PROVE  ConfigInv'
BY DEF LinkInv, ConfigInv, WriteEEPROM, CommandInv, PortInv, CellOf, Cells,
   TypeOK, BoardTypes, Pending, Known, EE_SYSFLAGS, EE_PORTBVALU, EE_PORTBTRIS

LEMMA ConfigWork ==
    ASSUME TypeOK, LinkInv, ConfigInv, Work
    PROVE  ConfigInv'
BY DEF LinkInv, ConfigInv, Work, CommandInv, PortInv, CMD_SET_CFG_BYTE,
   CMD_EXEC_PACKET

LEMMA ConfigRefusePacket ==
    ASSUME TypeOK, LinkInv, ConfigInv, RefusePacket
    PROVE  ConfigInv'
BY DEF LinkInv, ConfigInv, RefusePacket, Executes, CommandInv, PortInv,
   CMD_SET_CFG_BYTE, CMD_EXEC_PACKET

LEMMA ConfigIgnorePacket ==
    ASSUME TypeOK, LinkInv, ConfigInv, IgnorePacket
    PROVE  ConfigInv'
BY DEF LinkInv, ConfigInv, IgnorePacket, Executes, CommandInv, PortInv,
   CMD_SET_CFG_BYTE, CMD_EXEC_PACKET

LEMMA ConfigReadCells ==
    ASSUME TypeOK, LinkInv, ConfigInv, ReadCells
    PROVE  ConfigInv'
BY DEF LinkInv, ConfigInv, ReadCells, Executes, CommandInv, PortInv,
   CMD_SET_CFG_BYTE, CMD_EXEC_PACKET

LEMMA ConfigWriteCells ==
    ASSUME TypeOK, LinkInv, ConfigInv, WriteCells
    PROVE  ConfigInv'
BY DEF LinkInv, ConfigInv, WriteCells, Executes, CommandInv, PortInv, Known,
   Pending, CMD_SET_CFG_BYTE, CMD_EXEC_PACKET

LEMMA ConfigHostCommand ==
    ASSUME NEW cmd \in Asked, Paced, TypeOK, LinkInv, ConfigInv,
       HostCommand(cmd)
    PROVE  ConfigInv'
BY QuietDone DEF LinkInv, ConfigInv, HostCommand, AtomWrites, Slow,
   SetCommands, TypeOK, HostTypes, Known, CMD_SET_CFG_BYTE, CMD_EXEC_PACKET

LEMMA ConfigHostLatch ==
    ASSUME NEW b \in 0..255, Paced, TypeOK, LinkInv, ConfigInv, HostLatch(b)
    PROVE  ConfigInv'
BY QuietDone DEF LinkInv, ConfigInv, HostLatch, AtomWrites

LEMMA ConfigHostPut ==
    ASSUME NEW b \in 0..255, Paced, TypeOK, LinkInv, ConfigInv, HostPut(b)
    PROVE  ConfigInv'
BY QuietDone DEF LinkInv, ConfigInv, HostPut, AtomWrites

LEMMA ConfigHostRead ==
    ASSUME Paced, TypeOK, LinkInv, ConfigInv, HostRead
    PROVE  ConfigInv'
BY DEF LinkInv, ConfigInv, HostRead, AtomReads, LatchInv, PortInv, ProbeInv,
   CommandInv, Pending, Polling, Quiet, SetCommands, TypeOK, HostTypes,
   ControlTypes

LEMMA ConfigHostProbe ==
    ASSUME Paced, TypeOK, LinkInv, ConfigInv, HostProbe
    PROVE  ConfigInv'
BY DEF LinkInv, ConfigInv, HostProbe, AtomWrites, CMD_GET_HEARTBEAT,
   CMD_SET_CFG_BYTE, CMD_EXEC_PACKET

LEMMA ConfigHostSeesHeartbeat ==
    ASSUME Paced, TypeOK, LinkInv, ConfigInv, HostSeesHeartbeat
    PROVE  ConfigInv'
BY DEF ConfigInv, HostSeesHeartbeat, AtomReads

LEMMA ConfigPowerCycle ==
    ASSUME TypeOK, LinkInv, ConfigInv, PowerCycle
    PROVE  ConfigInv'
<1>1. hpc' # "sent" /\ served' = 1 /\ pc' = "init" /\ hAcked' = hAcked
    BY DEF PowerCycle
<1>2. Known(hAcked[CMD_SET_CFG_BYTE]) => ee'[EE_SYSFLAGS] = ee[EE_SYSFLAGS]
    <2>1. CASE pc = "eeprom"
        <3>1. Known(hAcked[CMD_SET_CFG_BYTE]) => received # CMD_SET_CFG_BYTE
            BY <2>1 DEF LinkInv, CommandInv, ConfigInv, Known
        <3>2. PICK b \in Byte : ee' = [ee EXCEPT ![CellOf(received)] = b]
            BY <2>1 DEF PowerCycle, CellsAfterCut
        <3>3. QED BY <3>1, <3>2 DEF CellOf, TypeOK, BoardTypes, Cells,
                 EE_SYSFLAGS, EE_PORTBVALU, EE_PORTBTRIS
    <2>2. CASE pc = "work" /\ received = CMD_EXEC_PACKET
        BY <2>2 DEF LinkInv, CommandInv, ConfigInv, Known
    <2>3. CASE pc # "eeprom" /\ ~(pc = "work" /\ received = CMD_EXEC_PACKET)
        BY <2>3 DEF PowerCycle, CellsAfterCut
    <2>4. QED BY <2>1, <2>2, <2>3
<1>3. QED BY <1>1, <1>2 DEF ConfigInv

LEMMA ConfigStutter == ASSUME ConfigInv, UNCHANGED vars PROVE ConfigInv'
BY DEF ConfigInv, vars

LEMMA ConfigStep ==
    ASSUME Paced
    PROVE  TypeOK /\ LinkInv /\ ConfigInv /\ [Next]_vars => ConfigInv'
<1> SUFFICES ASSUME TypeOK, LinkInv, ConfigInv, [Next]_vars PROVE ConfigInv'
    OBVIOUS
<1>1. CASE Firmware
    BY <1>1, ConfigArm, ConfigWake, ConfigClear, ConfigLatchAddressIn,
       ConfigDecode, ConfigTakeNothing, ConfigTakeCommand, ConfigTakeLatch,
       ConfigTakeData, ConfigPutData, ConfigInitRead, ConfigInitWrite,
       ConfigLoadParam, ConfigGet, ConfigSet, ConfigStartWorker, ConfigIgnore,
       ConfigWriteEEPROM, ConfigWork, ConfigRefusePacket, ConfigIgnorePacket,
       ConfigReadCells, ConfigWriteCells DEF Firmware, ExecuteArbitrary
<1>2. CASE Host
    BY <1>2, CommandsAssumption, ByteAssumption, ConfigHostCommand,
       ConfigHostLatch, ConfigHostPut, ConfigHostRead, ConfigHostProbe,
       ConfigHostSeesHeartbeat DEF Host
<1>3. CASE PowerCycle
    BY <1>3, ConfigPowerCycle
<1>4. CASE UNCHANGED vars
    BY <1>4, ConfigStutter
<1>5. QED BY <1>1, <1>2, <1>3, <1>4 DEF Next

\* The configuration byte of which a paced host has the acknowledgement is the
\* one in force, however often and whenever the power goes.
THEOREM ConfigKeptForPaced == ASSUME Paced PROVE Spec => []ConfigKept
<1>1. ConfigInv => ConfigKept
    BY DEF ConfigInv, ConfigKept, Known
<1>2. QED BY <1>1, ConfigInit, ConfigStep, LinkTypeOK, LinkInvariant, PTL DEF Spec

=============================================================================
