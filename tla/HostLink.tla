------------------------------ MODULE HostLink ------------------------------
(***************************************************************************)
(* The link between the Acorn Atom and the PIC: the parallel slave port,   *)
(* the loop of main() that serves it and the register protocol of          *)
(* at_process() (PicFirmware.c, atmmc2core.c, PIC build).                  *)
(*                                                                         *)
(* The Atom and the firmware run concurrently.  They share the port: the   *)
(* Atom's write leaves a byte in PORTD, the register in PORTA and sets IBF *)
(* and PSPIF; its read returns LATD and sets PSPIF.  PORTA is latched by   *)
(* writes only.  Every access the firmware makes to the port is a step of  *)
(* its own, so that an access of the Atom can come between any two.        *)
(*                                                                         *)
(* What the workers do is the subject of AtomWorkers: here one takes its   *)
(* time, leaves anything in the buffer and ends with some status.          *)
(*                                                                         *)
(* Paced says how the Atom keeps time.  A paced host gives the firmware    *)
(* the time to see each access before it makes the next, reads the port    *)
(* after a slow command until it no longer shows BUSY, and after power on  *)
(* asks for the heartbeat until it gets one.  Otherwise it makes any       *)
(* access at any time.                                                     *)
(***************************************************************************)
EXTENDS Integers

CONSTANTS
    Byte,        \* values of data, of the latch and of EEPROM cells
    Commands,    \* what the host asks for: <<command, file number>>
    Answers,     \* what workers put in the port
    BufSize,     \* GLOBUFFSIZE, also what the BYTE globalIndex wraps at
    Paced,
    MaxCuts      \* bound on power cuts

ASSUME ByteAssumption == Byte \subseteq 0..255 /\ 0 \in Byte
ASSUME AnswersAssumption == Answers \subseteq 0..127 /\ Answers # {}
ASSUME BufSizeAssumption == BufSize \in Nat /\ BufSize >= 2
ASSUME PacedAssumption == Paced \in BOOLEAN
ASSUME MaxCutsAssumption == MaxCuts \in Nat

Index == 0..(BufSize - 1)
NextIndex(i) == (i + 1) % BufSize          \* ++globalIndex, a BYTE

CMD_REG == 0
LATCH_REG == 1
READ_DATA_REG == 2
WRITE_DATA_REG == 3

CMD_FILE_OPEN_READ == 17
CMD_FILE_OPEN_WRITE == 19
CMD_FILE_OPEN_RAF == 23
CMD_INIT_READ == 32
CMD_INIT_WRITE == 33
CMD_READ_BYTES == 34
CMD_WRITE_BYTES == 35
CMD_EXEC_PACKET == 63
CMD_LOAD_PARAM == 64
CMD_GET_IMG_STATUS == 65
CMD_GET_CARD_TYPE == 128
CMD_GET_PORT_DDR == 160
CMD_SET_PORT_DDR == 161
CMD_READ_PORT == 162
CMD_WRITE_PORT == 163
CMD_GET_FW_VER == 224
CMD_GET_BL_VER == 225
CMD_GET_CFG_BYTE == 240
CMD_SET_CFG_BYTE == 241
CMD_READ_AUX == 253
CMD_GET_HEARTBEAT == 254

STATUS_OK == 63
STATUS_COMPLETE == 64
STATUS_BUSY == 128
ERROR_NO_DATA == 8

Heartbeats == {85, 170}                   \* 0x55 and 0xAA
ImgAttribs == {0, 1, 32, 255}             \* driveInfo[].attribs
FirmwareVersion == 45                     \* VSN_MAJ<<4|VSN_MIN, V2 board

EE_SYSFLAGS == 255
EE_PORTBVALU == 254
EE_PORTBTRIS == 254
Cells == {EE_SYSFLAGS, EE_PORTBVALU, EE_PORTBTRIS}

----------------------------------------------------------------------------
(* The command byte: some carry a file number *)

\* 0x10-0x17, 0x30-0x37, 0x50-0x57, 0x70-0x77: (received & 0x98) == 0x10
FileGroup(b) == b < 128 /\ (b \div 16) % 2 = 1 /\ (b \div 8) % 2 = 0
\* 0x20-0x2F: (received & 0xf0) == 0x20
DataGroup(b) == b \div 16 = 2

Numbered(b) == FileGroup(b) \/ DataGroup(b)

\* Bits 6 and 5 of the one, bits 3 and 2 of the other.
FileNumber(b) == IF FileGroup(b) THEN (b \div 32) % 4 ELSE (b \div 4) % 4

\* Mutant of Base: the mask for file commands keeps bit 6.
BaseKeepsBit6(b) ==
    IF FileGroup(b) THEN b - 32 * ((b \div 32) % 2)
    ELSE IF DataGroup(b) THEN b - 4 * ((b \div 4) % 4)
    ELSE b

\* received &= 0x9F and received &= 0xF3
Base(b) ==
    IF FileGroup(b) THEN b - 32 * ((b \div 32) % 4)
    ELSE IF DataGroup(b) THEN b - 4 * ((b \div 4) % 4)
    ELSE b

FileCommands == 16..23
DataCommands == 32..35
OtherCommands == 0..15 \cup 24..31 \cup {CMD_EXEC_PACKET} \cup 64..79 \cup 128..255

\* The byte the host sends for a command on a file.
ByteOf(cmd) == IF cmd[1] \in FileCommands THEN cmd[1] + 32 * cmd[2]
               ELSE IF cmd[1] \in DataCommands THEN cmd[1] + 4 * cmd[2]
               ELSE cmd[1]

Asked == (FileCommands \cup DataCommands \cup OtherCommands) \X (0..3)
ASSUME CommandsAssumption == Commands \subseteq Asked

WorkerCommands ==
    {0, 1, 2, 4, 5, 8} \cup 16..23 \cup {CMD_READ_BYTES, CMD_WRITE_BYTES,
     CMD_EXEC_PACKET} \cup 66..71 \cup {CMD_GET_CARD_TYPE}
FileOpens == {CMD_FILE_OPEN_READ, CMD_FILE_OPEN_WRITE, CMD_FILE_OPEN_RAF}
SetCommands == {CMD_SET_PORT_DDR, CMD_WRITE_PORT, CMD_SET_CFG_BYTE}
GetCommands == {CMD_GET_PORT_DDR, CMD_READ_PORT, CMD_GET_FW_VER, CMD_GET_BL_VER,
                CMD_GET_CFG_BYTE, CMD_READ_AUX, CMD_GET_HEARTBEAT,
                CMD_GET_IMG_STATUS}
BufferCommands == {CMD_INIT_READ, CMD_INIT_WRITE, CMD_LOAD_PARAM}

\* Commands whose answer the host waits for.
Slow(cmd) == cmd[1] \in WorkerCommands \cup SetCommands

\* Mutant of CellOf: one cell for all settings.
CellOfAll(cmd) == EE_PORTBVALU

\* The EEPROM cell a set command writes.
CellOf(cmd) == IF cmd = CMD_SET_CFG_BYTE THEN EE_SYSFLAGS
               ELSE IF cmd = CMD_WRITE_PORT THEN EE_PORTBVALU
               ELSE EE_PORTBTRIS

----------------------------------------------------------------------------
VARIABLES
    LATD, PORTD, PORTA, IBF, PSPIF,            \* the port
    pc,                                        \* where the firmware is
    LatchedAddress, LatchedAddressLast,
    received,                                  \* the command, without number
    filenum, byteValueLatch, globalAmount, globalDataPresent,
    globalIndex, globalData,
    params,                                    \* globalCurDrive, globalLBAOffset
    configByte, heartbeat, LATB, TRISB,
    ee,                                        \* the EEPROM
    cuts                                       \* power cuts so far

\* What the host does and has done.
VARIABLES
    hpc,       \* "probe", "probed": asking for the heartbeat; "sent": waiting
               \* for the answer to a slow command; "free" otherwise
    hmode,     \* "fill": putting bytes in the buffer, "drain": reading them
    hCmd,      \* its last command
    hLatch,    \* what it wrote to the latch last
    hBuf,      \* what it put in the buffer, Unknown where it did not
    hPos,      \* where its next byte goes, or comes from
    hAcked,    \* for each set command the value acknowledged
    served     \* how often the firmware has acted on hCmd, up to 2

vars == <<LATD, PORTD, PORTA, IBF, PSPIF, pc, LatchedAddress, LatchedAddressLast,
          received, filenum, byteValueLatch, globalAmount, globalDataPresent,
          globalIndex, globalData, params, configByte, heartbeat, LATB, TRISB,
          ee, cuts, hpc, hmode, hCmd, hLatch, hBuf, hPos, hAcked, served>>

port == <<LATD, PORTD, PORTA, IBF, PSPIF>>
decoder == <<LatchedAddress, LatchedAddressLast, received>>
buffer == <<globalDataPresent, globalIndex, globalData>>
operands == <<filenum, byteValueLatch, globalAmount, params>>
board == <<configByte, heartbeat, LATB, TRISB, ee>>
host == <<hpc, hmode, hCmd, hLatch, hBuf, hPos, hAcked>>
firmware == <<pc, decoder, buffer, operands, board, cuts>>

Unknown == -1
Known(b) == b # Unknown
Fresh == [i \in Index |-> Unknown]

----------------------------------------------------------------------------
(* The host *)

\* The firmware has dealt with every access and sleeps.
Quiet == pc \in {"first", "wait"} /\ ~PSPIF
Polling == Quiet \/ pc \in {"work", "eeprom"}
Probing == Quiet \/ pc = "init"

AtomWrites(reg, b) ==
    /\ PORTD' = b
    /\ PORTA' = reg
    /\ IBF' = TRUE
    /\ PSPIF' = TRUE
    /\ UNCHANGED <<LATD, firmware>>

AtomReads ==
    /\ PSPIF' = TRUE
    /\ UNCHANGED <<LATD, PORTD, PORTA, IBF, firmware>>

\* No account is kept of the buffer and the latch for a host that is not paced.
HostMode(cmd) ==
    IF ~Paced THEN "none"
    ELSE IF cmd[1] = CMD_INIT_WRITE THEN "fill"
    ELSE IF cmd[1] = CMD_INIT_READ THEN "drain"
    ELSE IF Slow(cmd) \/ hmode = "drain" THEN "none"
    ELSE hmode

HostCommand(cmd) ==
    /\ Paced => hpc = "free" /\ Quiet
    /\ AtomWrites(CMD_REG, ByteOf(cmd))
    /\ hCmd' = cmd
    /\ hpc' = IF Slow(cmd) THEN "sent" ELSE "free"
    /\ hmode' = HostMode(cmd)
    /\ hPos' = IF cmd[1] \in {CMD_INIT_READ, CMD_INIT_WRITE} THEN 0 ELSE hPos
    /\ hAcked' = [c \in SetCommands |->
                    IF cmd[1] \in {c, CMD_EXEC_PACKET} THEN Unknown
                    ELSE hAcked[c]]
    /\ served' = 0
    /\ UNCHANGED <<hLatch, hBuf>>

HostLatch(b) ==
    /\ Paced => hpc = "free" /\ Quiet
    /\ AtomWrites(LATCH_REG, b)
    /\ hLatch' = IF Paced THEN b ELSE Unknown
    /\ hmode' = IF hmode = "drain" THEN "none" ELSE hmode
    /\ UNCHANGED <<hpc, hCmd, hBuf, hPos, hAcked, served>>

HostPut(b) ==
    /\ Paced => hpc = "free" /\ Quiet /\ hmode = "fill"
    /\ AtomWrites(WRITE_DATA_REG, b)
    /\ IF Paced
       THEN hBuf' = [hBuf EXCEPT ![hPos] = b] /\ hPos' = NextIndex(hPos)
       ELSE UNCHANGED <<hBuf, hPos>>
    /\ UNCHANGED <<hpc, hmode, hCmd, hLatch, hAcked, served>>

\* A byte without BUSY answers the command the host is waiting for.
HostRead ==
    /\ hpc \in {"free", "sent"}
    /\ Paced => Polling
    /\ AtomReads
    /\ hPos' = IF hmode = "drain" THEN NextIndex(hPos) ELSE hPos
    /\ IF hpc = "sent" /\ LATD < STATUS_BUSY
       THEN /\ hpc' = "free"
            /\ hAcked' = [c \in SetCommands |->
                            IF hCmd[1] = c THEN hLatch ELSE hAcked[c]]
            /\ hBuf' = IF hCmd[1] \in WorkerCommands THEN Fresh ELSE hBuf
       ELSE UNCHANGED <<hpc, hAcked, hBuf>>
    /\ UNCHANGED <<hmode, hCmd, hLatch, served>>

HostProbe ==
    /\ hpc = "probe"
    /\ Paced => Probing
    /\ AtomWrites(CMD_REG, CMD_GET_HEARTBEAT)
    /\ hpc' = "probed"
    /\ hCmd' = <<CMD_GET_HEARTBEAT, 0>>
    /\ served' = 0
    /\ UNCHANGED <<hmode, hLatch, hBuf, hPos, hAcked>>

HostSeesHeartbeat ==
    /\ hpc = "probed"
    /\ Paced => Probing
    /\ AtomReads
    /\ hpc' = IF LATD \in Heartbeats THEN "free" ELSE "probe"
    /\ UNCHANGED <<hmode, hCmd, hLatch, hBuf, hPos, hAcked, served>>

Host ==
    \/ \E cmd \in Commands : HostCommand(cmd)
    \/ \E b \in Byte : HostLatch(b) \/ HostPut(b)
    \/ HostRead
    \/ HostProbe
    \/ HostSeesHeartbeat

----------------------------------------------------------------------------
(* The firmware: main() *)

\* Up to the loop: the port is enabled, the settings are read back; what the
\* host did meanwhile sets PSPIF, which is then cleared.
Arm ==
    /\ pc = "init"
    /\ configByte' = ee[EE_SYSFLAGS]
    /\ LATB' = ee[EE_PORTBVALU]
    /\ TRISB' = ee[EE_PORTBTRIS]
    /\ PSPIF' = FALSE
    /\ pc' = "first"
    /\ UNCHANGED <<LATD, PORTD, PORTA, IBF, decoder, buffer, operands,
                   heartbeat, ee, cuts, host, served>>

\* The first access also releases the IRQ line.
Wake ==
    /\ pc \in {"first", "wait"}
    /\ PSPIF
    /\ pc' = "latch"
    /\ UNCHANGED <<port, decoder, buffer, operands, board, cuts, host, served>>

\* at_process() is done.
Clear ==
    /\ pc = "clear"
    /\ PSPIF' = FALSE
    /\ pc' = "wait"
    /\ UNCHANGED <<LATD, PORTD, PORTA, IBF, decoder, buffer, operands, board,
                   cuts, host, served>>

----------------------------------------------------------------------------
(* at_process() *)

LatchAddressIn ==
    /\ pc = "latch"
    /\ LatchedAddressLast' = PORTA
    /\ pc' = "decode"
    /\ UNCHANGED <<port, LatchedAddress, received, buffer, operands, board,
                   cuts, host, served>>

\* Mutant of Decode: the address register is trusted after reads only.
DecodeKeepsOld ==
    /\ pc = "decode"
    /\ LatchedAddress' = IF IBF /\ LatchedAddress # READ_DATA_REG
                         THEN LatchedAddressLast ELSE LatchedAddress
    /\ pc' = "take"
    /\ UNCHANGED <<port, LatchedAddressLast, received, buffer, operands, board,
                   cuts, host, served>>

\* WASWRITE: PORTA tells the register only when a write came.
Decode ==
    /\ pc = "decode"
    /\ LatchedAddress' = IF IBF THEN LatchedAddressLast ELSE LatchedAddress
    /\ pc' = "take"
    /\ UNCHANGED <<port, LatchedAddressLast, received, buffer, operands, board,
                   cuts, host, served>>

TakeNothing ==
    /\ pc = "take"
    /\ LatchedAddress # READ_DATA_REG /\ ~IBF
    /\ pc' = "clear"
    /\ UNCHANGED <<port, decoder, buffer, operands, board, cuts, host, served>>

Takes(reg) ==
    /\ pc = "take"
    /\ LatchedAddress = reg
    /\ IBF
    /\ IBF' = FALSE
    /\ UNCHANGED <<PORTD, PORTA, PSPIF>>

\* Mutant of TakeCommand: the port is not set to BUSY.
TakeCommandSilently ==
    /\ Takes(CMD_REG)
    /\ received' = Base(PORTD)
    /\ filenum' = IF Numbered(PORTD) THEN FileNumber(PORTD) ELSE filenum
    /\ pc' = "dispatch"
    /\ UNCHANGED <<LATD, LatchedAddress, LatchedAddressLast, buffer,
                   byteValueLatch, globalAmount, params, board, cuts, host,
                   served>>

TakeCommand ==
    /\ Takes(CMD_REG)
    /\ received' = Base(PORTD)
    /\ filenum' = IF Numbered(PORTD) THEN FileNumber(PORTD) ELSE filenum
    /\ LATD' = STATUS_BUSY
    /\ pc' = "dispatch"
    /\ UNCHANGED <<LatchedAddress, LatchedAddressLast, buffer,
                   byteValueLatch, globalAmount, params, board, cuts, host,
                   served>>

TakeLatch ==
    /\ Takes(LATCH_REG)
    /\ byteValueLatch' = PORTD
    /\ LATD' = PORTD
    /\ pc' = "clear"
    /\ UNCHANGED <<decoder, buffer, filenum, globalAmount, params, board, cuts,
                   host, served>>

\* Mutant of TakeData: the index is advanced before the byte is stored.
TakeDataEarly ==
    /\ Takes(WRITE_DATA_REG)
    /\ globalData' = [globalData EXCEPT ![NextIndex(globalIndex)] = PORTD]
    /\ globalIndex' = NextIndex(globalIndex)
    /\ globalDataPresent' = 1
    /\ pc' = "clear"
    /\ UNCHANGED <<LATD, decoder, operands, board, cuts, host, served>>

\* Mutant of TakeData: the index is an int and does not wrap.
TakeDataUnwrapped ==
    /\ Takes(WRITE_DATA_REG)
    /\ globalData' = [globalData EXCEPT ![globalIndex] = PORTD]
    /\ globalIndex' = globalIndex + 1
    /\ globalDataPresent' = 1
    /\ pc' = "clear"
    /\ UNCHANGED <<LATD, decoder, operands, board, cuts, host, served>>

TakeData ==
    /\ Takes(WRITE_DATA_REG)
    /\ globalData' = [globalData EXCEPT ![globalIndex] = PORTD]
    /\ globalIndex' = NextIndex(globalIndex)
    /\ globalDataPresent' = 1
    /\ pc' = "clear"
    /\ UNCHANGED <<LATD, decoder, operands, board, cuts, host, served>>

\* Any access while READ_DATA_REG is the register in force: the byte after the
\* one the host has just read is put in the port.
PutData ==
    /\ pc = "take"
    /\ LatchedAddress = READ_DATA_REG
    /\ LATD' = globalData[globalIndex]
    /\ globalIndex' = NextIndex(globalIndex)
    /\ pc' = "clear"
    /\ UNCHANGED <<PORTD, PORTA, IBF, PSPIF, decoder, globalDataPresent,
                   globalData, operands, board, cuts, host, served>>

----------------------------------------------------------------------------
(* The commands *)

Dispatches(cmds) ==
    /\ pc = "dispatch"
    /\ received \in cmds
    /\ served' = IF served < 2 THEN served + 1 ELSE served
    /\ UNCHANGED <<PORTD, PORTA, IBF, PSPIF, LatchedAddressLast, received,
                   filenum, ee, cuts, host>>

\* Mutant of InitRead: the index stays at the byte already in the port.
InitReadAtZero ==
    /\ Dispatches({CMD_INIT_READ})
    /\ LATD' = globalData[0]
    /\ globalIndex' = 0
    /\ LatchedAddress' = READ_DATA_REG
    /\ pc' = "clear"
    /\ UNCHANGED <<globalDataPresent, globalData, byteValueLatch, globalAmount,
                   params, configByte, heartbeat, LATB, TRISB>>

InitRead ==
    /\ Dispatches({CMD_INIT_READ})
    /\ LATD' = globalData[0]
    /\ globalIndex' = 1
    /\ LatchedAddress' = READ_DATA_REG
    /\ pc' = "clear"
    /\ UNCHANGED <<globalDataPresent, globalData, byteValueLatch, globalAmount,
                   params, configByte, heartbeat, LATB, TRISB>>

\* The port keeps BUSY.
InitWrite ==
    /\ Dispatches({CMD_INIT_WRITE})
    /\ globalIndex' = 0
    /\ globalDataPresent' = 0
    /\ pc' = "clear"
    /\ UNCHANGED <<LATD, LatchedAddress, globalData, byteValueLatch,
                   globalAmount, params, configByte, heartbeat, LATB, TRISB>>

\* The port keeps BUSY.  The four bytes of the sector number count as one.
LoadParam ==
    /\ Dispatches({CMD_LOAD_PARAM})
    /\ params' = <<globalData[0] % 4, globalData[1]>>
    /\ pc' = "clear"
    /\ UNCHANGED <<LATD, LatchedAddress, buffer, byteValueLatch, globalAmount,
                   configByte, heartbeat, LATB, TRISB>>

\* What a command that only asks puts in the port.
Shown(cmd) ==
    CASE cmd = CMD_GET_PORT_DDR -> {TRISB}
      [] cmd = CMD_READ_PORT -> Byte                  \* the pins
      [] cmd = CMD_GET_BL_VER -> Byte                 \* from the boot block
      [] cmd = CMD_GET_FW_VER -> {FirmwareVersion}
      [] cmd = CMD_GET_CFG_BYTE -> {configByte}
      [] cmd = CMD_READ_AUX -> {LatchedAddress}
      [] cmd = CMD_GET_HEARTBEAT -> {heartbeat}
      [] cmd = CMD_GET_IMG_STATUS -> ImgAttribs

\* Mutant of Get: the heartbeat is toggled and not shown.
GetUnshown ==
    /\ Dispatches(GetCommands)
    /\ IF received = CMD_GET_HEARTBEAT
       THEN UNCHANGED LATD /\ heartbeat' = 255 - heartbeat
       ELSE LATD' \in Shown(received) /\ UNCHANGED heartbeat
    /\ pc' = "clear"
    /\ UNCHANGED <<LatchedAddress, buffer, byteValueLatch, globalAmount, params,
                   configByte, LATB, TRISB>>

Get ==
    /\ Dispatches(GetCommands)
    /\ LATD' \in Shown(received)
    /\ heartbeat' = IF received = CMD_GET_HEARTBEAT THEN 255 - heartbeat
                    ELSE heartbeat
    /\ pc' = "clear"
    /\ UNCHANGED <<LatchedAddress, buffer, byteValueLatch, globalAmount, params,
                   configByte, LATB, TRISB>>

\* The setting takes effect, then WriteEEPROM begins.
Set ==
    /\ Dispatches(SetCommands)
    /\ configByte' = IF received = CMD_SET_CFG_BYTE THEN byteValueLatch
                     ELSE configByte
    /\ LATB' = IF received = CMD_WRITE_PORT THEN byteValueLatch ELSE LATB
    /\ TRISB' = IF received = CMD_SET_PORT_DDR THEN byteValueLatch ELSE TRISB
    /\ pc' = "eeprom"
    /\ UNCHANGED <<LATD, LatchedAddress, buffer, byteValueLatch, globalAmount,
                   params, heartbeat>>

StartWorker ==
    /\ Dispatches(WorkerCommands)
    /\ globalAmount' = IF received \in {CMD_READ_BYTES, CMD_WRITE_BYTES}
                       THEN byteValueLatch ELSE globalAmount
    /\ pc' = "work"
    /\ UNCHANGED <<LATD, LatchedAddress, buffer, byteValueLatch, params,
                   configByte, heartbeat, LATB, TRISB>>

\* A byte that is no command leaves the port BUSY.
Ignore ==
    /\ Dispatches(0..255 \ (BufferCommands \cup GetCommands \cup SetCommands
                            \cup WorkerCommands))
    /\ pc' = "clear"
    /\ UNCHANGED <<LATD, LatchedAddress, buffer, byteValueLatch, globalAmount,
                   params, configByte, heartbeat, LATB, TRISB>>

\* Mutant of WriteEEPROM: the answer never comes.
WriteEEPROMSilently ==
    /\ pc = "eeprom"
    /\ ee' = [ee EXCEPT ![CellOf(received)] = byteValueLatch]
    /\ pc' = "clear"
    /\ UNCHANGED <<port, decoder, buffer, operands, configByte, heartbeat, LATB,
                   TRISB, cuts, host, served>>

\* The end of WriteEEPROM, and STATUS_OK.
WriteEEPROM ==
    /\ pc = "eeprom"
    /\ ee' = [ee EXCEPT ![CellOf(received)] = byteValueLatch]
    /\ LATD' = STATUS_OK
    /\ pc' = "clear"
    /\ UNCHANGED <<PORTD, PORTA, IBF, PSPIF, decoder, buffer, operands,
                   configByte, heartbeat, LATB, TRISB, cuts, host, served>>

\* A worker ends: see AtomWorkers for what it does to files and drives.
Work ==
    /\ pc = "work"
    /\ received # CMD_EXEC_PACKET
    /\ globalData' \in [Index -> Byte]
    /\ filenum' \in IF received \in FileOpens THEN {filenum} \cup 0..3
                    ELSE {filenum}
    /\ LATD' \in Answers
    /\ pc' = "clear"
    /\ UNCHANGED <<PORTD, PORTA, IBF, PSPIF, decoder, globalDataPresent,
                   globalIndex, byteValueLatch, globalAmount, params, board,
                   cuts, host, served>>

\* wfnExecuteArbitrary, on the packet in the buffer.
HasPacket == globalAmount # 0 \/ globalDataPresent # 0

Executes ==
    /\ pc = "work"
    /\ received = CMD_EXEC_PACKET
    /\ pc' = "clear"
    /\ UNCHANGED <<PORTD, PORTA, IBF, PSPIF, decoder, globalDataPresent,
                   globalIndex, operands, configByte, heartbeat, LATB, TRISB,
                   cuts, host, served>>

RefusePacket ==
    /\ Executes
    /\ ~HasPacket
    /\ LATD' = STATUS_COMPLETE + ERROR_NO_DATA
    /\ UNCHANGED <<globalData, ee>>

\* The two letters at its start name no operation: the port keeps BUSY.
IgnorePacket ==
    /\ Executes
    /\ HasPacket
    /\ UNCHANGED <<LATD, globalData, ee>>

ReadCells ==
    /\ Executes
    /\ HasPacket
    /\ LATD' = STATUS_OK
    /\ globalData' \in [Index -> Byte]
    /\ UNCHANGED ee

WriteCells ==
    /\ Executes
    /\ HasPacket
    /\ LATD' = STATUS_OK
    /\ ee' \in [Cells -> Byte]
    /\ UNCHANGED globalData

ExecuteArbitrary == RefusePacket \/ IgnorePacket \/ ReadCells \/ WriteCells

Firmware ==
    \/ Arm \/ Wake \/ Clear
    \/ LatchAddressIn \/ Decode
    \/ TakeNothing \/ TakeCommand \/ TakeLatch \/ TakeData \/ PutData
    \/ InitRead \/ InitWrite \/ LoadParam \/ Get \/ Set \/ StartWorker \/ Ignore
    \/ WriteEEPROM \/ Work \/ ExecuteArbitrary

----------------------------------------------------------------------------
(* Power *)

\* main() has put 0xff in the port; the data segment is zero but for the
\* initialised variables, and for the boot loader's version in the buffer.
VersionBytes == {d \in [Index -> Byte] : \A i \in Index : i > 1 => d[i] = 0}

Init ==
    /\ LATD = 255 /\ PORTD = 0 /\ PORTA = 0 /\ IBF = FALSE /\ PSPIF = FALSE
    /\ pc = "init"
    /\ LatchedAddress = 0 /\ LatchedAddressLast = 0 /\ received = 0
    /\ filenum = -1 /\ byteValueLatch = 0
    /\ globalAmount = 0 /\ globalDataPresent = 0 /\ globalIndex = 0
    /\ globalData \in VersionBytes
    /\ params = <<0, 0>>
    /\ configByte = 0 /\ heartbeat = 85 /\ LATB = 0 /\ TRISB = 255
    /\ hpc = "probe" /\ hmode = "none" /\ hCmd = <<CMD_GET_HEARTBEAT, 0>>
    /\ hLatch = Unknown /\ hBuf = Fresh /\ hPos = 0
    /\ served = 1
    /\ ee \in [Cells -> Byte]
    /\ cuts = 0
    /\ hAcked = [c \in SetCommands |-> Unknown]

\* A cell being written, or that the packet may be writing, holds anything.
CellsAfterCut ==
    IF pc = "eeprom" THEN {[ee EXCEPT ![CellOf(received)] = b] : b \in Byte}
    ELSE IF pc = "work" /\ received = CMD_EXEC_PACKET /\ HasPacket
         THEN [Cells -> Byte]
    ELSE {ee}

PowerCycle ==
    /\ cuts < MaxCuts
    /\ cuts' = cuts + 1
    /\ LATD' = 255 /\ PORTD' = 0 /\ PORTA' = 0 /\ IBF' = FALSE /\ PSPIF' = FALSE
    /\ pc' = "init"
    /\ LatchedAddress' = 0 /\ LatchedAddressLast' = 0 /\ received' = 0
    /\ filenum' = -1 /\ byteValueLatch' = 0
    /\ globalAmount' = 0 /\ globalDataPresent' = 0 /\ globalIndex' = 0
    /\ globalData' \in VersionBytes
    /\ params' = <<0, 0>>
    /\ configByte' = 0 /\ heartbeat' = 85 /\ LATB' = 0 /\ TRISB' = 255
    /\ hpc' = "probe" /\ hmode' = "none" /\ hCmd' = <<CMD_GET_HEARTBEAT, 0>>
    /\ hLatch' = Unknown /\ hBuf' = Fresh /\ hPos' = 0
    /\ served' = 1
    /\ ee' \in CellsAfterCut
    /\ UNCHANGED hAcked

Next == Firmware \/ Host \/ PowerCycle

Spec == Init /\ [][Next]_vars

\* The PIC goes on, and the host keeps asking: it probes, looks, and polls.
FairSpec ==
    /\ Spec
    /\ WF_vars(Firmware)
    /\ WF_vars(HostProbe) /\ WF_vars(HostSeesHeartbeat) /\ WF_vars(HostRead)

----------------------------------------------------------------------------
(* Properties *)

PortTypes ==
    /\ LATD \in 0..255
    /\ PORTD \in 0..255
    /\ PORTA \in 0..3
    /\ IBF \in BOOLEAN
    /\ PSPIF \in BOOLEAN

ControlTypes ==
    /\ pc \in {"init", "first", "wait", "latch", "decode", "take", "dispatch",
               "work", "eeprom", "clear"}
    /\ LatchedAddress \in 0..3
    /\ LatchedAddressLast \in 0..3
    /\ received \in 0..255
    /\ filenum \in -1..3
    /\ served \in 0..2
    /\ cuts \in 0..MaxCuts

BufferTypes ==
    /\ byteValueLatch \in 0..255
    /\ globalAmount \in 0..255
    /\ globalDataPresent \in 0..1
    /\ globalIndex \in Index
    /\ globalData \in [Index -> 0..255]
    /\ params \in (0..3) \X (0..255)

BoardTypes ==
    /\ configByte \in 0..255
    /\ heartbeat \in Heartbeats
    /\ LATB \in 0..255
    /\ TRISB \in 0..255
    /\ ee \in [Cells -> 0..255]

HostTypes ==
    /\ hpc \in {"probe", "probed", "sent", "free"}
    /\ hmode \in {"none", "fill", "drain"}
    /\ hCmd \in Asked
    /\ hLatch \in 0..255 \cup {Unknown}
    /\ hBuf \in [Index -> 0..255 \cup {Unknown}]
    /\ hPos \in Index
    /\ hAcked \in [SetCommands -> 0..255 \cup {Unknown}]

\* Every variable keeps its type; the buffer is never indexed outside.
TypeOK == PortTypes /\ ControlTypes /\ BufferTypes /\ BoardTypes /\ HostTypes

\* A command runs with what the host gave it: the command itself, the file
\* number in it, the latch and every byte put in the buffer are the host's.
OperandsArrive ==
    pc = "dispatch" =>
        /\ received = hCmd[1]
        /\ hCmd[1] \in FileCommands \cup DataCommands => filenum = hCmd[2]
        /\ Known(hLatch) => byteValueLatch = hLatch
        /\ \A i \in Index : Known(hBuf[i]) => globalData[i] = hBuf[i]

\* A port without BUSY, seen by a host that waits for an answer, is the answer
\* to its last command, on which the firmware has acted once.
AnswerIsOwn ==
    hpc = "sent" /\ Polling /\ LATD < STATUS_BUSY => served = 1 /\ Quiet

\* While the host reads the buffer, the port holds the next byte of it.
NextByteReady ==
    hmode = "drain" /\ hpc = "free" /\ Quiet => LATD = globalData[hPos]

\* The firmware does not sleep with a byte of the host untaken, once the host
\* has seen it alive.
NoByteSleeps == hpc \in {"free", "sent"} /\ Quiet => ~IBF

\* An acknowledged setting survives the power going at any moment.
ConfigKept ==
    hAcked[CMD_SET_CFG_BYTE] # Unknown /\ pc # "init" =>
        configByte = hAcked[CMD_SET_CFG_BYTE]

\* The same for the direction register of the user port.
PortDirectionKept ==
    hAcked[CMD_SET_PORT_DDR] # Unknown /\ pc # "init" =>
        TRISB = hAcked[CMD_SET_PORT_DDR]

\* Every slow command is answered, whatever the host polls in the meantime.
EveryCommandAnswered == hpc = "sent" ~> hpc # "sent"

\* After power on the host finds the firmware alive, although what it writes
\* before the loop of main() is forgotten.
HeartbeatFound == hpc = "probe" ~> hpc = "free"

\* Every byte written is taken in the end, one that main() missed too: a write
\* whose PSPIF was cleared before the loop is found with the next access.
EveryByteTaken == IBF ~> ~IBF
=============================================================================
