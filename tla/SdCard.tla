------------------------------- MODULE SdCard -------------------------------
(***************************************************************************)
(* The SD card driver (mmcio.c behind diskio.c) and its two copies, in the *)
(* boot loader and in the boot updater, with what sits right above it: the *)
(* mount check of ff.c and CMD_GET_CARD_TYPE.  The card in the socket is   *)
(* external: it may be pulled out, changed, stay busy, or miss a command,  *)
(* or its answer may come too late to be seen, at any time.  One command   *)
(* packet with its answer is one step; a data block arrives whole or not   *)
(* at all (the driver skips the CRC, bit errors are not modelled).         *)
(***************************************************************************)
EXTENDS Integers, FiniteSets

CONSTANTS
    Cards,         \* the cards there are
    Kind,          \* Kind[c] is what sort of card c is
    Lba,           \* the sectors callers ask for
    LastSector,    \* every card has sectors 0..LastSector
    BlockLen,      \* 512
    Patience       \* Patience[b][m]: how often build b repeats ACMD41/CMD1
                   \* in loop m before it gives up (tmr)

Kinds == {"MMC", "SD1", "SD2", "HC"}
Builds == {"loader", "firmware", "updater"}
NoCard == "no card"

ASSUME CardsAssumption == Kind \in [Cards -> Kinds] /\ NoCard \notin Cards
ASSUME SizesAssumption ==
    /\ LastSector \in Nat /\ Lba \subseteq 0..LastSector
    /\ BlockLen \in Nat /\ BlockLen > 1
ASSUME PatienceAssumption ==
    Patience \in [Builds -> [{"acmd41", "wait"} -> Nat \ {0}]]

\* CardType: 0, CT_MMC, CT_SD1, CT_SD2 or CT_SD2 | CT_BLOCK
NoType == "0"
Types == {NoType, "MMC", "SD1", "SD2", "SD2|BLOCK"}

Ops == {"type", "read", "write"}
InitPhases == {"cmd0", "cmd8", "acmd41", "cmd58", "probe", "wait", "cmd16"}
Phases == InitPhases \cup {"idle", "check", "access", "token", "data", "busy"}

VARIABLES
    card,       \* the card in the socket: which one, its state, is it busy
    build,      \* the program that runs
    CardType,
    fs,         \* the volume: mounted (fs_type), and the card its fields are of
    job,        \* the call in progress or last made: operation and sector
    pc,         \* where in the driver
    tmr, ty,    \* the locals of the initialisation
    did,        \* the sectors of cards the last access has touched
    res,        \* what the last call returned
    retyped     \* has the card been initialised since the volume was mounted?

vars == <<card, build, CardType, fs, job, pc, tmr, ty, did, res, retyped>>

----------------------------------------------------------------------------
(* The card *)

Empty == [id |-> NoCard, state |-> "native", busy |-> FALSE]
Inserted(c) == [id |-> c, state |-> "native", busy |-> FALSE]

Present == card.id # NoCard
KindOf(k) == IF k.id = NoCard THEN "none" ELSE Kind[k.id]
SpeaksSd(k) == KindOf(k) \in {"SD1", "SD2", "HC"}

\* R1 answers: 0 ready, 1 idle, Refused for any error bit, Silent for 0xff.
Refused == 4
Silent == 255

\* The sector a card takes an address for; it refuses one that is no sector.
SectorAt(k, arg) ==
    IF KindOf(k) = "HC" THEN arg
    ELSE IF arg % BlockLen = 0 THEN arg \div BlockLen ELSE LastSector + 1

In(k, s) == [k EXCEPT !.state = s]
Answer(k) == IF k.state = "ready" THEN 0 ELSE 1

\* A card asked to leave the idle state does so when it is ready for it.
Leaving(k) == IF k.state = "ready" THEN {<<k, 0>>}
              ELSE {<<k, 1>>, <<In(k, "ready"), 0>>}

\* What card k does when command cmd with argument arg reaches it: the set of
\* <<card, answer>>.  A card that was just plugged in knows only CMD0; a busy
\* card holds the line low, which reads as 0, and takes no command.
Execute(k, cmd, arg) ==
    CASE k.id = NoCard -> {<<k, Silent>>}
      [] k.id # NoCard /\ k.busy -> {<<k, 0>>}
      [] k.id # NoCard /\ ~k.busy /\ cmd = "CMD0" -> {<<In(k, "idle"), 1>>}
      [] k.id # NoCard /\ ~k.busy /\ cmd # "CMD0" /\ k.state = "native" -> {<<k, Silent>>}
      [] OTHER ->
           CASE cmd = "CMD8" -> {<<k, IF KindOf(k) \in {"SD2", "HC"} THEN Answer(k) ELSE Refused>>}
             [] cmd = "CMD55" -> {<<k, IF SpeaksSd(k) THEN Answer(k) ELSE Refused>>}
             [] cmd = "CMD41" -> IF KindOf(k) = "HC" /\ arg = "0"      \* no HCS bit
                                 THEN {<<k, Answer(k)>>} ELSE Leaving(k)
             [] cmd = "CMD1" -> IF KindOf(k) = "HC" THEN {<<k, Answer(k)>>} ELSE Leaving(k)
             [] cmd \in {"CMD58", "CMD16"} -> {<<k, Answer(k)>>}
             [] cmd \in {"CMD17", "CMD24"} ->
                  {<<k, IF k.state = "ready" /\ SectorAt(k, arg) <= LastSector
                        THEN 0 ELSE Refused>>}

\* A command packet: it may not arrive, or its answer may come after the ten
\* bytes the driver waits, and then DESELECT drops it.
Packet(k, cmd, arg) ==
    {<<k, Silent>>} \cup Execute(k, cmd, arg)
        \cup {<<e[1], Silent>> : e \in Execute(k, cmd, arg)}

\* send_cmd: an ACMD is CMD55 and then the command, unless CMD55 is refused.
send_cmd(cmd, arg) ==
    IF cmd # "ACMD41" THEN Packet(card, cmd, arg)
    ELSE UNION {IF p[2] > 1 THEN {p} ELSE Packet(p[1], "CMD41", arg) :
                   p \in Packet(card, "CMD55", "0")}

----------------------------------------------------------------------------
(* Initialisation: the same in the three programs but for the loops *)

KeepCaller == UNCHANGED <<build, job, did, retyped>>

Return(r) == pc' = "idle" /\ res' = r

\* CardType is set whatever came of it; chk_mounted looks at the result,
\* CMD_GET_CARD_TYPE only passes CardType on.
Finish(type) ==
    /\ CardType' = type
    /\ UNCHANGED fs
    /\ IF job.op = "type" THEN Return("OK")
       ELSE IF type = NoType THEN Return("NOT_READY")
       ELSE pc' = "check" /\ UNCHANGED res

GoIdleState ==
    /\ pc = "cmd0"
    /\ \E p \in send_cmd("CMD0", "0") :
          /\ card' = p[1]
          /\ IF p[2] = 1 THEN pc' = "cmd8" /\ UNCHANGED <<CardType, fs, res>>
             ELSE Finish(NoType)
    /\ KeepCaller /\ UNCHANGED <<tmr, ty>>

\* An SD card of version 2 repeats the check pattern, if it runs at this voltage.
SendIfCond ==
    /\ pc = "cmd8"
    /\ \E p \in send_cmd("CMD8", "1AA") :
          /\ card' = p[1]
          /\ IF p[2] # 1
             THEN pc' = "probe" /\ UNCHANGED <<CardType, fs, res, tmr>>
             ELSE \/ /\ pc' = "acmd41"
                     /\ tmr' = Patience[build]["acmd41"]
                     /\ UNCHANGED <<CardType, fs, res>>
                  \/ Finish(NoType) /\ UNCHANGED tmr
    /\ KeepCaller /\ UNCHANGED ty

\* Mutant of Repeat: the last try is followed by one more.
RepeatOnceMore(cmd, arg, next) ==
    /\ \E p \in send_cmd(cmd, arg) :
          /\ card' = p[1]
          /\ IF p[2] = 0 THEN pc' = next /\ UNCHANGED <<CardType, fs, res, tmr>>
             ELSE /\ tmr' = tmr - 1
                  /\ IF tmr >= 0 THEN UNCHANGED <<pc, CardType, fs, res>>
                     ELSE Finish(NoType)
    /\ KeepCaller /\ UNCHANGED ty

\* One round of a loop that repeats a command until it answers 0 or tmr is used up.
Repeat(cmd, arg, next) ==
    /\ \E p \in send_cmd(cmd, arg) :
          /\ card' = p[1]
          /\ IF p[2] = 0 THEN pc' = next /\ UNCHANGED <<CardType, fs, res, tmr>>
             ELSE /\ tmr' = tmr - 1
                  /\ IF tmr > 1 THEN UNCHANGED <<pc, CardType, fs, res>>
                     ELSE Finish(NoType)
    /\ KeepCaller /\ UNCHANGED ty

\* Mutant of LeaveIdleState: the wait has no end.
LeaveIdleStateForEver ==
    /\ pc = "acmd41"
    /\ \E p \in send_cmd("ACMD41", "HCS") :
          /\ card' = p[1]
          /\ pc' = IF p[2] = 0 THEN "cmd58" ELSE "acmd41"
    /\ UNCHANGED <<CardType, fs, job, tmr, ty, did, res, retyped, build>>

LeaveIdleState == pc = "acmd41" /\ Repeat("ACMD41", "HCS", "cmd58")

\* The capacity bit of the OCR tells block from byte addressing.
ReadOcr ==
    /\ pc = "cmd58"
    /\ \E p \in send_cmd("CMD58", "0") :
          /\ card' = p[1]
          /\ Finish(IF p[2] # 0 THEN NoType
                    ELSE IF KindOf(card) = "HC" THEN "SD2|BLOCK" ELSE "SD2")
    /\ KeepCaller /\ UNCHANGED <<tmr, ty>>

\* Mutant of SdOrMmc: the probe offers to take a high capacity card.
SdOrMmcWithHcs ==
    /\ pc = "probe"
    /\ \E p \in send_cmd("ACMD41", "HCS") :
          /\ card' = p[1]
          /\ ty' = IF p[2] <= 1 THEN "SD1" ELSE "MMC"
    /\ pc' = "wait"
    /\ tmr' = Patience[build]["wait"]
    /\ KeepCaller /\ UNCHANGED <<CardType, fs, res>>

SdOrMmc ==
    /\ pc = "probe"
    /\ \E p \in send_cmd("ACMD41", "0") :
          /\ card' = p[1]
          /\ ty' = IF p[2] <= 1 THEN "SD1" ELSE "MMC"
    /\ pc' = "wait"
    /\ tmr' = Patience[build]["wait"]
    /\ KeepCaller /\ UNCHANGED <<CardType, fs, res>>

WaitReady ==
    /\ pc = "wait"
    /\ Repeat(IF ty = "SD1" THEN "ACMD41" ELSE "CMD1", "0", "cmd16")

SetBlockLen ==
    /\ pc = "cmd16"
    /\ \E p \in send_cmd("CMD16", BlockLen) :
          /\ card' = p[1]
          /\ Finish(IF p[2] = 0 THEN ty ELSE NoType)
    /\ KeepCaller /\ UNCHANGED <<tmr, ty>>

Initialise ==
    \/ GoIdleState \/ SendIfCond \/ LeaveIdleState \/ ReadOcr
    \/ SdOrMmc \/ WaitReady \/ SetBlockLen

mmc_initialize == build = "firmware" /\ Initialise
LoaderInitialise == build = "loader" /\ Initialise
UpdaterInitialise == build = "updater" /\ Initialise

----------------------------------------------------------------------------
(* Sectors *)

\* Byte address unless the card is known to want block addresses.
Address(lba) == IF CardType = "SD2|BLOCK" THEN lba ELSE lba * BlockLen

Takes == card.id # NoCard /\ ~card.busy /\ card.state = "ready"
Addressed(lba) ==
    IF Takes THEN {<<card.id, SectorAt(card, Address(lba))>>} ELSE {}

\* CMD17 or CMD24
SendAccess ==
    /\ pc = "access"
    /\ \E p \in send_cmd(IF job.op = "read" THEN "CMD17" ELSE "CMD24", Address(job.lba)) :
          /\ card' = p[1]
          /\ IF p[2] = 0
             THEN /\ did' = Addressed(job.lba)
                  /\ pc' = IF job.op = "read" THEN "token" ELSE "data"
                  /\ UNCHANGED res
             ELSE Return("ERROR") /\ UNCHANGED did
    /\ UNCHANGED <<build, CardType, fs, job, tmr, ty, retyped>>

\* The data packet arrives within 30000 bytes, or another byte or none does.
ReadBlock ==
    /\ pc = "token"
    /\ \/ did # {} /\ Return("OK") /\ UNCHANGED did
       \/ did' = {} /\ Return("ERROR")
    /\ UNCHANGED <<card, build, CardType, fs, job, tmr, ty, retyped>>

mmc_readsector == build = "firmware" /\ (SendAccess \/ ReadBlock)
LoaderReadSector == build = "loader" /\ (SendAccess \/ ReadBlock)
UpdaterReadPart == build = "updater" /\ (SendAccess \/ ReadBlock)

\* The card takes the block and starts to program it, or it does not; when
\* its data response is lost the driver gives up on a block that was taken.
SendBlock ==
    /\ pc = "data"
    /\ \/ /\ did # {}
          /\ card' = [card EXCEPT !.busy = TRUE]
          /\ (pc' = "busy" /\ UNCHANGED res) \/ Return("ERROR")
          /\ UNCHANGED did
       \/ /\ did' = {}
          /\ Return("ERROR")
          /\ UNCHANGED card
    /\ UNCHANGED <<build, CardType, fs, job, tmr, ty, retyped>>

\* 65000 bytes later the card has released the line, or it has not.
Programmed ==
    /\ pc = "busy"
    /\ Return(IF card.busy THEN "ERROR" ELSE "OK")
    /\ UNCHANGED <<card, build, CardType, fs, job, tmr, ty, did, retyped>>

mmc_writesector == SendBlock \/ Programmed

----------------------------------------------------------------------------
(* Callers *)

mmc_status == IF CardType = NoType THEN {"NODISK"} ELSE {}

Unmounted == [mounted |-> FALSE, card |-> NoCard]

Begin(j, phase) ==
    /\ pc = "idle"
    /\ job' = j
    /\ pc' = phase
    /\ did' = {}
    /\ res' = "pending"
    /\ UNCHANGED <<card, build, CardType, tmr, ty>>

\* f_read, f_write and the rest: a mounted volume is used as it is unless the
\* driver says STA_NOINIT, else the card is initialised and mounted first.
chk_mounted(op, lba) ==
    /\ build = "firmware"
    /\ LET valid == fs.mounted /\ "NOINIT" \notin mmc_status IN
       /\ Begin([op |-> op, lba |-> lba], IF valid THEN "access" ELSE "cmd0")
       /\ fs' = IF valid THEN fs ELSE Unmounted
    /\ UNCHANGED retyped

\* Mutant of Mount: check_fs does not look at the result of its read, and takes
\* the fields from whatever the window held.
MountUnread ==
    /\ pc = "check"
    /\ \E p \in send_cmd("CMD17", Address(0)) :
          /\ card' = p[1]
          /\ fs' = [mounted |-> TRUE, card |-> IF p[2] = 0 /\ Takes THEN card.id ELSE NoCard]
    /\ retyped' = FALSE
    /\ pc' = "access"
    /\ UNCHANGED <<build, CardType, job, tmr, ty, did, res>>

\* check_fs reads sector 0, and the volume found there is mounted.
Mount ==
    /\ pc = "check"
    /\ \E p \in send_cmd("CMD17", Address(0)) :
          /\ card' = p[1]
          /\ \/ /\ p[2] = 0 /\ Takes
                /\ fs' = [mounted |-> TRUE, card |-> card.id]
                /\ retyped' = FALSE
                /\ pc' = "access"
                /\ UNCHANGED res
             \/ Return("ERROR") /\ UNCHANGED <<fs, retyped>>
    /\ UNCHANGED <<build, CardType, job, tmr, ty, did>>

\* CMD_GET_CARD_TYPE initialises the card and leaves the volume as it is.
GetCardType ==
    /\ build = "firmware"
    /\ Begin([op |-> "type", lba |-> 0], "cmd0")
    /\ retyped' = TRUE
    /\ UNCHANGED fs

\* The boot loader and the boot updater initialise the card until there is a
\* volume; from then on sectors are only read.
BootRead(lba) ==
    /\ Begin([op |-> "read", lba |-> lba], IF fs.mounted THEN "access" ELSE "cmd0")
    /\ UNCHANGED <<fs, retyped>>

LoaderRead(lba) == build = "loader" /\ BootRead(lba)
UpdaterRead(lba) == build = "updater" /\ BootRead(lba)

\* ENTERFIRMWARE: the program in the flash is the firmware or the updater.
EnterFirmware ==
    /\ build = "loader" /\ pc = "idle"
    /\ build' \in {"firmware", "updater"}
    /\ CardType' = NoType
    /\ fs' = Unmounted
    /\ res' = "none"
    /\ did' = {}
    /\ UNCHANGED <<card, job, pc, tmr, ty, retyped>>

----------------------------------------------------------------------------
(* What happens to the card *)

\* A transfer under way is cut; a card being programmed keeps what it took.
Disturb(k) ==
    /\ card' = k
    /\ did' = IF pc \in {"token", "data"} THEN {} ELSE did
    /\ UNCHANGED <<build, CardType, fs, job, pc, tmr, ty, res, retyped>>

PullOut == Present /\ Disturb(Empty)
PlugIn(c) == ~Present /\ Disturb(Inserted(c))

ProgramDone ==
    /\ card.busy
    /\ card' = [card EXCEPT !.busy = FALSE]
    /\ UNCHANGED <<build, CardType, fs, job, pc, tmr, ty, did, res, retyped>>

PowerOn ==
    /\ build = "loader"
    /\ CardType = NoType
    /\ fs = Unmounted
    /\ job = [op |-> "type", lba |-> 0]
    /\ pc = "idle"
    /\ tmr = 0 /\ ty = NoType
    /\ did = {} /\ res = "none" /\ retyped = FALSE

Init == card \in {Empty} \cup {Inserted(c) : c \in Cards} /\ PowerOn

Driver ==
    \/ mmc_initialize \/ LoaderInitialise \/ UpdaterInitialise
    \/ Mount
    \/ mmc_readsector \/ LoaderReadSector \/ UpdaterReadPart \/ mmc_writesector

Next ==
    \/ Driver
    \/ \E op \in {"read", "write"}, lba \in Lba : chk_mounted(op, lba)
    \/ GetCardType
    \/ \E lba \in Lba : LoaderRead(lba) \/ UpdaterRead(lba)
    \/ EnterFirmware
    \/ PullOut
    \/ \E c \in Cards : PlugIn(c)
    \/ ProgramDone

Spec == Init /\ [][Next]_vars
\* The driver runs to the end of a call, whatever the card does.
FairSpec == Spec /\ WF_vars(Driver)

----------------------------------------------------------------------------
(* Properties *)

\* Every variable keeps its type.
TypeOK ==
    /\ card \in [id : Cards \cup {NoCard}, state : {"native", "idle", "ready"},
                 busy : BOOLEAN]
    /\ build \in Builds
    /\ CardType \in Types
    /\ fs \in [mounted : BOOLEAN, card : Cards \cup {NoCard}]
    /\ job \in [op : Ops, lba : 0..LastSector]
    /\ pc \in Phases
    /\ tmr \in Nat
    /\ ty \in Types
    /\ did \subseteq Cards \X (0..LastSector)
    /\ res \in {"none", "pending", "OK", "ERROR", "NOT_READY"}
    /\ retyped \in BOOLEAN

IsAccess == job.op \in {"read", "write"}

\* As long as the driver has a card type, an access touches the sector it was
\* asked for and no other, even one that is then reported as failed, and one
\* that is reported as done has touched it, whatever cards come and go and
\* whichever answers are lost.
TouchesAskedSector ==
    IsAccess /\ CardType # NoType =>
        /\ \A t \in did : t[2] = job.lba
        /\ pc = "idle" /\ res = "OK" => did # {}

\* A card that takes the place of the mounted one answers no access, so the
\* window and the tables of the first card never reach it; CMD_GET_CARD_TYPE
\* undoes this.
MountedCardOnly ==
    IsAccess /\ fs.mounted /\ ~retyped => \A t \in did : t[1] = fs.card

\* No card can keep the driver from returning to its caller.
CallsReturn == pc # "idle" ~> pc = "idle"
=============================================================================
