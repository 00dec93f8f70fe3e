---------------------------- MODULE SdCardProofs ----------------------------
(***************************************************************************)
(* Proofs about SdCard: type correctness, and that no access touches a     *)
(* sector or a card it should not, for any cards, sectors and patience.    *)
(***************************************************************************)
EXTENDS SdCard, TLAPS

USE CardsAssumption, SizesAssumption, PatienceAssumption

CardStates == [id : Cards \cup {NoCard}, state : {"native", "idle", "ready"}, busy : BOOLEAN]
Waiting == {"acmd41", "wait"}
Before == InitPhases \cup {"check", "access"}

\* The loops have tries left; an empty socket has no state, and what is busy
\* was made ready; the initialisation is done with one card that is not busy.
Going ==
    /\ pc \in Waiting => tmr > 0
    /\ card.id = NoCard => card.state = "native"
    /\ card.busy => card.state = "ready"
    /\ pc \in InitPhases \ {"cmd0"} => ~card.busy

\* A high capacity card gets ready only if it is initialised as one, so a card
\* that is ready takes addresses the way CardType says.
Fit ==
    /\ pc = "cmd8" => card.state # "ready"
    /\ pc \in {"probe", "wait", "cmd16"} /\ KindOf(card) = "HC" => card.state # "ready"
    /\ pc \in {"wait", "cmd16"} => ty \in {"SD1", "MMC"}
    /\ pc \notin InitPhases /\ card.state = "ready" /\ CardType # NoType =>
          (CardType = "SD2|BLOCK" <=> KindOf(card) = "HC")

\* Nothing was touched before the access, and a block in programming was.
Touched ==
    /\ pc \in Before => did = {}
    /\ pc = "busy" => did # {}
    /\ pc \in {"token", "data"} /\ did # {} => card.state = "ready"
    /\ pc \in {"check", "access", "token", "data", "busy"} => IsAccess

\* A card that is ready is the mounted one.
Own ==
    fs.mounted /\ ~retyped =>
        /\ pc \notin InitPhases \cup {"check"}
        /\ card.state = "ready" => card.id = fs.card

IInv == TypeOK /\ Going /\ Fit /\ Touched /\ Own /\ TouchesAskedSector /\ MountedCardOnly

-----------------------------------------------------------------------------
(* What a command can do to a card *)

LEMMA SectorOfAddress ==
    ASSUME NEW n \in Nat, NEW B \in Nat, B > 1
    PROVE  (n * B) % B = 0 /\ (n * B) \div B = n
  OBVIOUS

\* Commands that leave the card as it is.
LEMMA PlainPacket ==
    ASSUME NEW k \in CardStates, NEW arg,
           NEW cmd \in {"CMD8", "CMD58", "CMD16", "CMD17", "CMD24"},
           NEW p \in Packet(k, cmd, arg)
    PROVE  /\ p[1] = k
           /\ p[2] = 0 /\ ~k.busy => k.state = "ready"
           /\ p[2] = 0 /\ ~k.busy /\ cmd \in {"CMD17", "CMD24"} => SectorAt(k, arg) <= LastSector
  <1>1. \A e \in Execute(k, cmd, arg) :
          /\ e[1] = k
          /\ e[2] = 0 /\ ~k.busy => k.state = "ready"
          /\ e[2] = 0 /\ ~k.busy /\ cmd \in {"CMD17", "CMD24"} => SectorAt(k, arg) <= LastSector
    BY DEF Execute, CardStates, Answer, Silent, Refused
  <1> QED  BY <1>1 DEF Packet, Silent

\* CMD0 answers 1 only if it has made the card idle.
LEMMA ResetPacket ==
    ASSUME NEW k \in CardStates, NEW p \in Packet(k, "CMD0", "0")
    PROVE  /\ p[1] = k \/ (~k.busy /\ k.id # NoCard /\ p[1] = In(k, "idle"))
           /\ p[2] = 1 => ~k.busy /\ p[1] = In(k, "idle")
  BY DEF Packet, Execute, CardStates, Silent

\* Commands that ask the card to leave the idle state.
LEMMA LeavingPacket ==
    ASSUME NEW k \in CardStates, NEW arg, NEW cmd \in {"CMD41", "CMD1"},
           NEW p \in Packet(k, cmd, arg)
    PROVE  /\ p[1] = k \/ (~k.busy /\ k.id # NoCard /\ p[1] = In(k, "ready"))
           /\ KindOf(k) = "HC" /\ (cmd = "CMD1" \/ arg = "0") => p[1] = k
  BY DEF Packet, Execute, Leaving, CardStates, Silent

LEMMA AppPacket ==
    ASSUME NEW k \in CardStates, NEW p \in Packet(k, "CMD55", "0")
    PROVE  p[1] = k
  BY DEF Packet, Execute, CardStates, Silent

LEMMA AppCommand ==
    ASSUME card \in CardStates, NEW arg, NEW p \in send_cmd("ACMD41", arg)
    PROVE  /\ p[1] = card \/ (~card.busy /\ card.id # NoCard /\ p[1] = In(card, "ready"))
           /\ KindOf(card) = "HC" /\ arg = "0" => p[1] = card
  <1>1. PICK q \in Packet(card, "CMD55", "0") :
          p \in (IF q[2] > 1 THEN {q} ELSE Packet(q[1], "CMD41", arg))
    BY DEF send_cmd
  <1>2. q[1] = card
    BY AppPacket
  <1>3. CASE p = q
    BY <1>2, <1>3
  <1>4. CASE p \in Packet(card, "CMD41", arg)
    BY <1>4, LeavingPacket
  <1> QED  BY <1>1, <1>2, <1>3, <1>4

\* A card made ready or idle is the same card.
LEMMA SameCard ==
    ASSUME NEW k \in CardStates, NEW st \in {"native", "idle", "ready"}
    PROVE  /\ In(k, st) \in CardStates
           /\ In(k, st).id = k.id /\ In(k, st).busy = k.busy /\ In(k, st).state = st
           /\ KindOf(In(k, st)) = KindOf(k)
  BY DEF CardStates, In, KindOf

-----------------------------------------------------------------------------
(* Every step keeps the invariant *)

LEMMA StepGoIdleState ==
    ASSUME IInv, GoIdleState
    PROVE  IInv'
  <1> USE DEF IInv, GoIdleState, KeepCaller, Finish, Return, InitPhases, Waiting
  <1>1. card \in CardStates
    BY DEF TypeOK, CardStates
  <1>2. send_cmd("CMD0", "0") = Packet(card, "CMD0", "0")
    BY DEF send_cmd
  <1>4. TypeOK'
    BY <1>1, <1>2, ResetPacket, SameCard DEF TypeOK, CardStates, Phases, Types
  <1>5. Going'
    BY <1>1, <1>2, ResetPacket, SameCard DEF TypeOK, CardStates, Going
  <1>6. Fit'
    BY <1>1, <1>2, ResetPacket, SameCard DEF TypeOK, CardStates, Going, Fit, KindOf
  <1>7. Touched'
    BY DEF TypeOK, Touched, Before, IsAccess, Ops
  <1>8. Own'
    BY DEF TypeOK, Own
  <1>9. TouchesAskedSector' /\ MountedCardOnly'
    BY DEF TypeOK, Touched, Before, TouchesAskedSector, MountedCardOnly, IsAccess
  <1> QED  BY <1>4, <1>5, <1>6, <1>7, <1>8, <1>9

LEMMA StepSendIfCond ==
    ASSUME IInv, SendIfCond
    PROVE  IInv'
  <1> USE DEF IInv, SendIfCond, KeepCaller, Finish, Return, InitPhases, Waiting
  <1>1. card \in CardStates
    BY DEF TypeOK, CardStates
  <1>2. send_cmd("CMD8", "1AA") = Packet(card, "CMD8", "1AA")
    BY DEF send_cmd
  <1>4. TypeOK'
    BY <1>1, <1>2, PlainPacket, SameCard DEF TypeOK, CardStates, Phases, Types
  <1>5. Going'
    BY <1>1, <1>2, PlainPacket, SameCard DEF TypeOK, CardStates, Going
  <1>6. Fit'
    BY <1>1, <1>2, PlainPacket, SameCard DEF TypeOK, CardStates, Going, Fit, KindOf
  <1>7. Touched'
    BY DEF TypeOK, Touched, Before, IsAccess, Ops
  <1>8. Own'
    BY DEF TypeOK, Own
  <1>9. TouchesAskedSector' /\ MountedCardOnly'
    BY DEF TypeOK, Touched, Before, TouchesAskedSector, MountedCardOnly, IsAccess
  <1> QED  BY <1>4, <1>5, <1>6, <1>7, <1>8, <1>9

LEMMA StepReadOcr ==
    ASSUME IInv, ReadOcr
    PROVE  IInv'
  <1> USE DEF IInv, ReadOcr, KeepCaller, Finish, Return, InitPhases, Waiting
  <1>1. card \in CardStates
    BY DEF TypeOK, CardStates
  <1>2. send_cmd("CMD58", "0") = Packet(card, "CMD58", "0")
    BY DEF send_cmd
  <1>4. TypeOK'
    BY <1>1, <1>2, PlainPacket, SameCard DEF TypeOK, CardStates, Phases, Types
  <1>5. Going'
    BY <1>1, <1>2, PlainPacket, SameCard DEF TypeOK, CardStates, Going
  <1>6. Fit'
    BY <1>1, <1>2, PlainPacket, SameCard DEF TypeOK, CardStates, Going, Fit, KindOf
  <1>7. Touched'
    BY DEF TypeOK, Touched, Before, IsAccess, Ops
  <1>8. Own'
    BY DEF TypeOK, Own
  <1>9. TouchesAskedSector' /\ MountedCardOnly'
    BY DEF TypeOK, Touched, Before, TouchesAskedSector, MountedCardOnly, IsAccess
  <1> QED  BY <1>4, <1>5, <1>6, <1>7, <1>8, <1>9

LEMMA StepSdOrMmc ==
    ASSUME IInv, SdOrMmc
    PROVE  IInv'
  <1> USE DEF IInv, SdOrMmc, KeepCaller, Finish, Return, InitPhases, Waiting
  <1>1. card \in CardStates
    BY DEF TypeOK, CardStates
  <1>4. TypeOK'
    BY <1>1, AppCommand, SameCard DEF TypeOK, CardStates, Phases, Types
  <1>5. Going'
    BY <1>1, AppCommand, SameCard DEF TypeOK, CardStates, Going
  <1>6. Fit'
    BY <1>1, AppCommand, SameCard DEF TypeOK, CardStates, Going, Fit, KindOf
  <1>7. Touched'
    BY DEF TypeOK, Touched, Before, IsAccess, Ops
  <1>8. Own'
    BY DEF TypeOK, Own
  <1>9. TouchesAskedSector' /\ MountedCardOnly'
    BY DEF TypeOK, Touched, Before, TouchesAskedSector, MountedCardOnly, IsAccess
  <1> QED  BY <1>4, <1>5, <1>6, <1>7, <1>8, <1>9

LEMMA StepSetBlockLen ==
    ASSUME IInv, SetBlockLen
    PROVE  IInv'
  <1> USE DEF IInv, SetBlockLen, KeepCaller, Finish, Return, InitPhases, Waiting
  <1>1. card \in CardStates
    BY DEF TypeOK, CardStates
  <1>2. send_cmd("CMD16", BlockLen) = Packet(card, "CMD16", BlockLen)
    BY DEF send_cmd
  <1>4. TypeOK'
    BY <1>1, <1>2, PlainPacket, SameCard DEF TypeOK, CardStates, Phases, Types
  <1>5. Going'
    BY <1>1, <1>2, PlainPacket, SameCard DEF TypeOK, CardStates, Going
  <1>6. Fit'
    BY <1>1, <1>2, PlainPacket, SameCard DEF TypeOK, CardStates, Going, Fit, KindOf
  <1>7. Touched'
    BY DEF TypeOK, Touched, Before, IsAccess, Ops
  <1>8. Own'
    BY DEF TypeOK, Own
  <1>9. TouchesAskedSector' /\ MountedCardOnly'
    BY DEF TypeOK, Touched, Before, TouchesAskedSector, MountedCardOnly, IsAccess
  <1> QED  BY <1>4, <1>5, <1>6, <1>7, <1>8, <1>9

LEMMA StepLeaveIdleState ==
    ASSUME IInv, LeaveIdleState
    PROVE  IInv'
  <1> USE DEF IInv, LeaveIdleState, Repeat, KeepCaller, Finish, Return, InitPhases, Waiting
  <1>1. card \in CardStates
    BY DEF TypeOK, CardStates
  <1>2. card' = card \/ (~card.busy /\ card.id # NoCard /\ card' = In(card, "ready"))
    BY <1>1, AppCommand
  <1>3. card' \in CardStates /\ card'.id = card.id /\ card'.busy = card.busy
    BY <1>1, <1>2, SameCard
  <1>4. TypeOK'
    <2>1. tmr' \in Nat
      BY DEF TypeOK, Going
    <2> QED  BY <1>3, <2>1 DEF TypeOK, CardStates, Phases, Types
  <1>5. Going'
    BY <1>1, <1>2, <1>3, SameCard DEF TypeOK, CardStates, Going
  <1>6. Fit'
    BY DEF TypeOK, Fit
  <1>7. Touched'
    BY DEF TypeOK, Touched, Before, IsAccess, Ops
  <1>8. Own'
    BY DEF TypeOK, Own
  <1>9. TouchesAskedSector' /\ MountedCardOnly'
    BY DEF TypeOK, Touched, Before, TouchesAskedSector, MountedCardOnly, IsAccess
  <1> QED  BY <1>4, <1>5, <1>6, <1>7, <1>8, <1>9

LEMMA StepWaitReady ==
    ASSUME IInv, WaitReady
    PROVE  IInv'
  <1> USE DEF IInv, WaitReady, Repeat, KeepCaller, Finish, Return, InitPhases, Waiting
  <1>1. card \in CardStates
    BY DEF TypeOK, CardStates
  <1>2. /\ card' = card \/ (~card.busy /\ card.id # NoCard /\ card' = In(card, "ready"))
        /\ KindOf(card) = "HC" => card' = card
    <2>1. CASE ty = "SD1"
      BY <1>1, <2>1, AppCommand
    <2>2. CASE ty # "SD1"
      <3>1. send_cmd("CMD1", "0") = Packet(card, "CMD1", "0")
        BY DEF send_cmd
      <3> QED  BY <1>1, <2>2, <3>1, LeavingPacket
    <2> QED  BY <2>1, <2>2
  <1>3. card' \in CardStates /\ card'.id = card.id /\ card'.busy = card.busy /\ KindOf(card') = KindOf(card)
    BY <1>1, <1>2, SameCard
  <1>4. TypeOK'
    <2>1. tmr' \in Nat
      BY DEF TypeOK, Going
    <2> QED  BY <1>3, <2>1 DEF TypeOK, CardStates, Phases, Types
  <1>5. Going'
    BY <1>1, <1>2, <1>3, SameCard DEF TypeOK, CardStates, Going
  <1>6. Fit'
    BY <1>2, <1>3 DEF TypeOK, Fit
  <1>7. Touched'
    BY DEF TypeOK, Touched, Before, IsAccess, Ops
  <1>8. Own'
    BY DEF TypeOK, Own
  <1>9. TouchesAskedSector' /\ MountedCardOnly'
    BY DEF TypeOK, Touched, Before, TouchesAskedSector, MountedCardOnly, IsAccess
  <1> QED  BY <1>4, <1>5, <1>6, <1>7, <1>8, <1>9

\* The block a card that is ready takes an access for is the one asked for.
LEMMA AddressedSector ==
    ASSUME TypeOK, Fit, pc = "access", CardType # NoType, NEW lba \in 0..LastSector, Takes
    PROVE  SectorAt(card, Address(lba)) = lba
  <1>1. (lba * BlockLen) % BlockLen = 0 /\ (lba * BlockLen) \div BlockLen = lba
    BY SectorOfAddress
  <1> QED  BY <1>1 DEF Fit, Takes, SectorAt, Address, KindOf, InitPhases

LEMMA SectorInRange ==
    ASSUME TypeOK, NEW arg \in Nat, Takes
    PROVE  SectorAt(card, arg) \in Nat
  <1>1. arg \div BlockLen \in Nat
    OBVIOUS
  <1> QED  BY <1>1 DEF SectorAt

LEMMA StepSendAccess ==
    ASSUME IInv, SendAccess
    PROVE  IInv'
  <1> USE DEF IInv, SendAccess, Return
  <1>1. card \in CardStates /\ job.lba \in 0..LastSector
    BY DEF TypeOK, CardStates
  <1> DEFINE cmd == IF job.op = "read" THEN "CMD17" ELSE "CMD24"
  <1>2. send_cmd(cmd, Address(job.lba)) = Packet(card, cmd, Address(job.lba))
    BY DEF send_cmd
  <1>3. PICK p \in send_cmd(cmd, Address(job.lba)) :
          /\ card' = p[1]
          /\ IF p[2] = 0
             THEN /\ did' = Addressed(job.lba)
                  /\ pc' = IF job.op = "read" THEN "token" ELSE "data"
                  /\ UNCHANGED res
             ELSE Return("ERROR") /\ UNCHANGED did
    OBVIOUS
  <1>4. card' = card /\ (p[2] = 0 /\ ~card.busy => SectorAt(card, Address(job.lba)) <= LastSector)
    BY <1>1, <1>2, <1>3, PlainPacket
  <1>5. UNCHANGED <<build, CardType, fs, job, tmr, ty, retyped>>
    OBVIOUS
  <1> HIDE DEF SendAccess
  <1>6. Address(job.lba) \in Nat
    BY <1>1 DEF Address
  <1>7. did' # {} => Takes /\ p[2] = 0 /\ did' = {<<card.id, SectorAt(card, Address(job.lba))>>}
    BY <1>3 DEF Addressed, Touched, Before, SendAccess
  <1>8. did' \subseteq Cards \X (0..LastSector)
    <2>1. CASE did' = {}
      BY <2>1
    <2>2. CASE did' # {}
      <3>1. card.id \in Cards
        BY <1>1, <1>7, <2>2 DEF Takes, CardStates
      <3>2. SectorAt(card, Address(job.lba)) \in 0..LastSector
        BY <1>4, <1>6, <1>7, <2>2, SectorInRange DEF Takes
      <3> QED  BY <1>7, <2>2, <3>1, <3>2
    <2> QED  BY <2>1, <2>2
  <1>9. pc = "access" /\ pc' \in {"token", "data", "idle"} /\ (pc' # "idle" => UNCHANGED res)
        /\ (pc' = "idle" => res' = "ERROR")
    BY <1>3 DEF SendAccess
  <1>10. TypeOK'
    BY <1>4, <1>5, <1>8, <1>9 DEF TypeOK, Phases
  <1>11. Going'
    BY <1>4, <1>5, <1>9 DEF Going, Waiting, InitPhases
  <1>12. Fit'
    BY <1>4, <1>5, <1>9 DEF Fit, InitPhases, KindOf
  <1>13. Touched'
    BY <1>4, <1>5, <1>7, <1>9 DEF Touched, Before, InitPhases, IsAccess, Takes
  <1>14. Own'
    BY <1>4, <1>5, <1>9 DEF Own, InitPhases
  <1>15. TouchesAskedSector'
    BY <1>1, <1>5, <1>7, <1>9, AddressedSector DEF TouchesAskedSector, IsAccess
  <1>16. MountedCardOnly'
    BY <1>5, <1>7, <1>9 DEF MountedCardOnly, Own, Takes, IsAccess
  <1> QED  BY <1>10, <1>11, <1>12, <1>13, <1>14, <1>15, <1>16

LEMMA StepMount ==
    ASSUME IInv, Mount
    PROVE  IInv'
  <1> USE DEF IInv, Mount, Return
  <1>1. card \in CardStates
    BY DEF TypeOK, CardStates
  <1>2. send_cmd("CMD17", Address(0)) = Packet(card, "CMD17", Address(0))
    BY DEF send_cmd
  <1>3. card' = card
    BY <1>1, <1>2, PlainPacket
  <1>4. /\ pc = "check" /\ UNCHANGED <<build, CardType, job, tmr, ty, did>>
        /\ \/ /\ Takes /\ fs' = [mounted |-> TRUE, card |-> card.id]
              /\ retyped' = FALSE /\ pc' = "access" /\ UNCHANGED res
           \/ pc' = "idle" /\ res' = "ERROR" /\ UNCHANGED <<fs, retyped>>
    OBVIOUS
  <1> HIDE DEF Mount
  <1>5. TypeOK'
    <2>1. [mounted |-> TRUE, card |-> card.id] \in [mounted : BOOLEAN, card : Cards \cup {NoCard}]
      BY <1>1 DEF CardStates
    <2>2. fs' \in [mounted : BOOLEAN, card : Cards \cup {NoCard}]
      BY <1>4, <2>1, Zenon DEF TypeOK
    <2>3. retyped' \in BOOLEAN
      BY <1>4, Zenon DEF TypeOK
    <2> QED  BY <1>3, <1>4, <2>2, <2>3 DEF TypeOK, Phases
  <1>6. Going'
    BY <1>3, <1>4 DEF Going, Waiting, InitPhases
  <1>7. Fit'
    BY <1>3, <1>4 DEF Fit, InitPhases, KindOf
  <1>8. Touched'
    BY <1>3, <1>4 DEF Touched, Before, InitPhases, IsAccess
  <1>9. Own'
    BY <1>3, <1>4 DEF Own, InitPhases
  <1>10. TouchesAskedSector' /\ MountedCardOnly'
    BY <1>3, <1>4 DEF TouchesAskedSector, MountedCardOnly, Touched, Before, IsAccess
  <1> QED  BY <1>5, <1>6, <1>7, <1>8, <1>9, <1>10

LEMMA StepReadBlock ==
    ASSUME IInv, ReadBlock
    PROVE  IInv'
  <1> USE DEF IInv, ReadBlock, Return
  <1>1. TypeOK'
    BY DEF TypeOK, Phases, InitPhases, Ops, Types, Builds, Touched
  <1>2. Going'
    BY DEF TypeOK, Going, Waiting, InitPhases, Touched
  <1>3. Fit'
    BY DEF TypeOK, Fit, InitPhases, KindOf
  <1>4. Touched'
    BY DEF TypeOK, Touched, Before, InitPhases, IsAccess, Ops
  <1>5. Own'
    BY DEF TypeOK, Own, Touched, InitPhases
  <1>6. TouchesAskedSector'
    BY DEF TypeOK, TouchesAskedSector, Touched, IsAccess
  <1>7. MountedCardOnly'
    BY DEF TypeOK, MountedCardOnly, Touched, IsAccess
  <1> QED  BY <1>1, <1>2, <1>3, <1>4, <1>5, <1>6, <1>7

LEMMA StepSendBlock ==
    ASSUME IInv, SendBlock
    PROVE  IInv'
  <1> USE DEF IInv, SendBlock, Return
  <1>1. TypeOK'
    <2>1. card' \in CardStates
      BY DEF TypeOK, CardStates
    <2> QED  BY <2>1 DEF TypeOK, CardStates, Phases, InitPhases
  <1>2. Going'
    BY DEF TypeOK, Going, Waiting, InitPhases, Touched
  <1>3. Fit'
    BY DEF TypeOK, Fit, InitPhases, KindOf
  <1>4. Touched'
    BY DEF TypeOK, Touched, Before, InitPhases, IsAccess, Ops
  <1>5. Own'
    BY DEF TypeOK, Own, Touched, InitPhases
  <1>6. TouchesAskedSector'
    BY DEF TypeOK, TouchesAskedSector, Touched, IsAccess
  <1>7. MountedCardOnly'
    BY DEF TypeOK, MountedCardOnly, Touched, IsAccess
  <1> QED  BY <1>1, <1>2, <1>3, <1>4, <1>5, <1>6, <1>7

LEMMA StepProgrammed ==
    ASSUME IInv, Programmed
    PROVE  IInv'
  <1> USE DEF IInv, Programmed, Return
  <1>1. TypeOK'
    BY DEF TypeOK, Phases, InitPhases, Ops, Types, Builds, Touched
  <1>2. Going'
    BY DEF TypeOK, Going, Waiting, InitPhases, Touched
  <1>3. Fit'
    BY DEF TypeOK, Fit, InitPhases, KindOf
  <1>4. Touched'
    BY DEF TypeOK, Touched, Before, InitPhases, IsAccess, Ops
  <1>5. Own'
    BY DEF TypeOK, Own, Touched, InitPhases
  <1>6. TouchesAskedSector'
    BY DEF TypeOK, TouchesAskedSector, Touched, IsAccess
  <1>7. MountedCardOnly'
    BY DEF TypeOK, MountedCardOnly, Touched, IsAccess
  <1> QED  BY <1>1, <1>2, <1>3, <1>4, <1>5, <1>6, <1>7

LEMMA StepAccess ==
    ASSUME IInv, NEW op \in {"read", "write"}, NEW lba \in Lba, chk_mounted(op, lba)
    PROVE  IInv'
  <1> USE DEF IInv, chk_mounted, Begin, Unmounted
  <1>1. TypeOK'
    BY DEF TypeOK, Phases, InitPhases, Ops, Types, Builds, Touched
  <1>2. Going'
    BY DEF TypeOK, Going, Waiting, InitPhases, Touched
  <1>3. Fit'
    BY DEF TypeOK, Fit, InitPhases, KindOf
  <1>4. Touched'
    BY DEF TypeOK, Touched, Before, InitPhases, IsAccess, Ops
  <1>5. Own'
    BY DEF TypeOK, Own, Touched, InitPhases
  <1>6. TouchesAskedSector'
    BY DEF TypeOK, TouchesAskedSector, Touched, IsAccess
  <1>7. MountedCardOnly'
    BY DEF TypeOK, MountedCardOnly, Touched, IsAccess
  <1> QED  BY <1>1, <1>2, <1>3, <1>4, <1>5, <1>6, <1>7

LEMMA StepGetCardType ==
    ASSUME IInv, GetCardType
    PROVE  IInv'
  <1> USE DEF IInv, GetCardType, Begin
  <1>1. TypeOK'
    BY DEF TypeOK, Phases, InitPhases, Ops, Types, Builds, Touched
  <1>2. Going'
    BY DEF TypeOK, Going, Waiting, InitPhases, Touched
  <1>3. Fit'
    BY DEF TypeOK, Fit, InitPhases, KindOf
  <1>4. Touched'
    BY DEF TypeOK, Touched, Before, InitPhases, IsAccess, Ops
  <1>5. Own'
    BY DEF TypeOK, Own, Touched, InitPhases
  <1>6. TouchesAskedSector'
    BY DEF TypeOK, TouchesAskedSector, Touched, IsAccess
  <1>7. MountedCardOnly'
    BY DEF TypeOK, MountedCardOnly, Touched, IsAccess
  <1> QED  BY <1>1, <1>2, <1>3, <1>4, <1>5, <1>6, <1>7

LEMMA StepBootRead ==
    ASSUME IInv, NEW lba \in Lba, BootRead(lba)
    PROVE  IInv'
  <1> USE DEF IInv, BootRead, Begin
  <1>1. TypeOK'
    BY DEF TypeOK, Phases, InitPhases, Ops, Types, Builds, Touched
  <1>2. Going'
    BY DEF TypeOK, Going, Waiting, InitPhases, Touched
  <1>3. Fit'
    BY DEF TypeOK, Fit, InitPhases, KindOf
  <1>4. Touched'
    BY DEF TypeOK, Touched, Before, InitPhases, IsAccess, Ops
  <1>5. Own'
    BY DEF TypeOK, Own, Touched, InitPhases
  <1>6. TouchesAskedSector'
    BY DEF TypeOK, TouchesAskedSector, Touched, IsAccess
  <1>7. MountedCardOnly'
    BY DEF TypeOK, MountedCardOnly, Touched, IsAccess
  <1> QED  BY <1>1, <1>2, <1>3, <1>4, <1>5, <1>6, <1>7

LEMMA StepEnterFirmware ==
    ASSUME IInv, EnterFirmware
    PROVE  IInv'
  <1> USE DEF IInv, EnterFirmware, Unmounted
  <1>1. TypeOK'
    BY DEF TypeOK, Phases, InitPhases, Ops, Types, Builds, Touched
  <1>2. Going'
    BY DEF TypeOK, Going, Waiting, InitPhases, Touched
  <1>3. Fit'
    BY DEF TypeOK, Fit, InitPhases, KindOf
  <1>4. Touched'
    BY DEF TypeOK, Touched, Before, InitPhases, IsAccess, Ops
  <1>5. Own'
    BY DEF TypeOK, Own, Touched, InitPhases
  <1>6. TouchesAskedSector'
    BY DEF TypeOK, TouchesAskedSector, Touched, IsAccess
  <1>7. MountedCardOnly'
    BY DEF TypeOK, MountedCardOnly, Touched, IsAccess
  <1> QED  BY <1>1, <1>2, <1>3, <1>4, <1>5, <1>6, <1>7

LEMMA StepPullOut ==
    ASSUME IInv, PullOut
    PROVE  IInv'
  <1> USE DEF IInv, PullOut, Disturb, Empty
  <1>1. TypeOK'
    BY DEF TypeOK, Phases, InitPhases, Ops, Types, Builds, Touched
  <1>2. Going'
    BY DEF TypeOK, Going, Waiting, InitPhases, Touched
  <1>3. Fit'
    BY DEF TypeOK, Fit, InitPhases, KindOf
  <1>4. Touched'
    BY DEF TypeOK, Touched, Before, InitPhases, IsAccess, Ops
  <1>5. Own'
    BY DEF TypeOK, Own, Touched, InitPhases
  <1>6. TouchesAskedSector'
    BY DEF TypeOK, TouchesAskedSector, Touched, IsAccess
  <1>7. MountedCardOnly'
    BY DEF TypeOK, MountedCardOnly, Touched, IsAccess
  <1> QED  BY <1>1, <1>2, <1>3, <1>4, <1>5, <1>6, <1>7

LEMMA StepPlugIn ==
    ASSUME IInv, NEW c \in Cards, PlugIn(c)
    PROVE  IInv'
  <1> USE DEF IInv, PlugIn, Disturb, Inserted, Present
  <1>1. TypeOK'
    BY DEF TypeOK, Phases, InitPhases, Ops, Types, Builds, Touched
  <1>2. Going'
    BY DEF TypeOK, Going, Waiting, InitPhases, Touched
  <1>3. Fit'
    BY DEF TypeOK, Fit, InitPhases, KindOf
  <1>4. Touched'
    BY DEF TypeOK, Touched, Before, InitPhases, IsAccess, Ops
  <1>5. Own'
    BY DEF TypeOK, Own, Touched, InitPhases
  <1>6. TouchesAskedSector'
    BY DEF TypeOK, TouchesAskedSector, Touched, IsAccess
  <1>7. MountedCardOnly'
    BY DEF TypeOK, MountedCardOnly, Touched, IsAccess
  <1> QED  BY <1>1, <1>2, <1>3, <1>4, <1>5, <1>6, <1>7

LEMMA StepProgramDone ==
    ASSUME IInv, ProgramDone
    PROVE  IInv'
  <1> USE DEF IInv, ProgramDone
  <1>1. TypeOK'
    <2>1. card' \in CardStates
      BY DEF TypeOK, CardStates
    <2> QED  BY <2>1 DEF TypeOK, CardStates, Phases, InitPhases
  <1>2. Going'
    BY DEF TypeOK, Going, Waiting, InitPhases, Touched
  <1>3. Fit'
    BY DEF TypeOK, Fit, InitPhases, KindOf
  <1>4. Touched'
    BY DEF TypeOK, Touched, Before, InitPhases, IsAccess, Ops
  <1>5. Own'
    BY DEF TypeOK, Own, Touched, InitPhases
  <1>6. TouchesAskedSector'
    BY DEF TypeOK, TouchesAskedSector, Touched, IsAccess
  <1>7. MountedCardOnly'
    BY DEF TypeOK, MountedCardOnly, Touched, IsAccess
  <1> QED  BY <1>1, <1>2, <1>3, <1>4, <1>5, <1>6, <1>7

LEMMA StepDriver ==
    ASSUME IInv, Driver
    PROVE  IInv'
  <1>1. CASE Initialise
    BY <1>1, StepGoIdleState, StepSendIfCond, StepLeaveIdleState, StepReadOcr,
       StepSdOrMmc, StepWaitReady, StepSetBlockLen DEF Initialise
  <1>2. CASE Mount
    BY <1>2, StepMount
  <1>3. CASE SendAccess \/ ReadBlock
    BY <1>3, StepSendAccess, StepReadBlock
  <1>4. CASE mmc_writesector
    BY <1>4, StepSendBlock, StepProgrammed DEF mmc_writesector
  <1> QED  BY <1>1, <1>2, <1>3, <1>4 DEF Driver, mmc_initialize, LoaderInitialise,
       UpdaterInitialise, mmc_readsector, LoaderReadSector, UpdaterReadPart

LEMMA Step ==
    ASSUME IInv, [Next]_vars
    PROVE  IInv'
  <1>1. CASE Driver
    BY <1>1, StepDriver
  <1>2. CASE \E op \in {"read", "write"}, lba \in Lba : chk_mounted(op, lba)
    BY <1>2, StepAccess
  <1>3. CASE GetCardType
    BY <1>3, StepGetCardType
  <1>4. CASE \E lba \in Lba : LoaderRead(lba) \/ UpdaterRead(lba)
    BY <1>4, StepBootRead DEF LoaderRead, UpdaterRead
  <1>5. CASE EnterFirmware
    BY <1>5, StepEnterFirmware
  <1>6. CASE PullOut
    BY <1>6, StepPullOut
  <1>7. CASE \E c \in Cards : PlugIn(c)
    BY <1>7, StepPlugIn
  <1>8. CASE ProgramDone
    BY <1>8, StepProgramDone
  <1>9. CASE UNCHANGED vars
    BY <1>9 DEF vars, IInv, TypeOK, Going, Fit, Touched, Own, TouchesAskedSector,
       MountedCardOnly, IsAccess, KindOf
  <1> QED  BY <1>1, <1>2, <1>3, <1>4, <1>5, <1>6, <1>7, <1>8, <1>9 DEF Next

LEMMA Start ==
    ASSUME Init
    PROVE  IInv
  <1> USE DEF Init, PowerOn, Empty, Inserted, Unmounted
  <1>1. TypeOK
    <2>1. card \in CardStates
      <3>1. PICK k \in Cards \cup {NoCard} : card = [id |-> k, state |-> "native", busy |-> FALSE]
        OBVIOUS
      <3> QED  BY <3>1 DEF CardStates
    <2>2. fs \in [mounted : BOOLEAN, card : Cards \cup {NoCard}] /\ retyped \in BOOLEAN
      OBVIOUS
    <2>3. job \in [op : Ops, lba : 0..LastSector]
      BY DEF Ops
    <2> QED  BY <2>1, <2>2, <2>3 DEF TypeOK, CardStates, Phases, Builds, Types
  <1>2. Going /\ Fit /\ Touched /\ Own
    BY DEF Going, Fit, Touched, Own, Waiting, InitPhases, Before, IsAccess
  <1>3. TouchesAskedSector /\ MountedCardOnly
    BY DEF TouchesAskedSector, MountedCardOnly
  <1> QED  BY <1>1, <1>2, <1>3 DEF IInv

-----------------------------------------------------------------------------
(* Theorems *)

LEMMA Invariant == Spec => []IInv
  <1>1. Init => IInv
    BY Start
  <1>2. IInv /\ [Next]_vars => IInv'
    BY Step
  <1> QED  BY <1>1, <1>2, PTL DEF Spec

\* Every variable of the driver and of the card keeps its type: no loop runs
\* past its count, and no sector behind the last is touched (send_cmd, tmr).
THEOREM DriverTypeOK == Spec => []TypeOK
  <1>1. IInv => TypeOK
    BY DEF IInv
  <1> QED  BY <1>1, Invariant, PTL

\* With any cards coming and going and any answers lost, an access touches the
\* sector it was asked for and no other, and says so only if it did
\* (mmc_readsector, mmc_writesector and their copies, with mmc_initialize).
THEOREM OnlyAskedSector == Spec => []TouchesAskedSector
  <1>1. IInv => TouchesAskedSector
    BY DEF IInv
  <1> QED  BY <1>1, Invariant, PTL

\* Without a CMD_GET_CARD_TYPE in between, no card but the mounted one is
\* touched under the mounted volume (chk_mounted, which does not ask the card).
THEOREM OnlyMountedCard == Spec => []MountedCardOnly
  <1>1. IInv => MountedCardOnly
    BY DEF IInv
  <1> QED  BY <1>1, Invariant, PTL
=============================================================================
