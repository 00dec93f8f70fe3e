---------------------------- MODULE FloppyDrives ----------------------------
(***************************************************************************)
(* What the SDDOS commands promise a host that treats the card as a stack  *)
(* of floppies: four drives, each empty or holding one image; a sector     *)
(* written to a drive changes that sector of its image and nothing else; a *)
(* sector read from a drive is what was last written there.                *)
(*                                                                         *)
(* Which file handle the firmware reads through, which drive is selected,  *)
(* when images are opened and closed and what is buffered do not exist at  *)
(* this level.                                                             *)
(***************************************************************************)
EXTENDS Naturals

CONSTANTS
    Drive, Image, Sector,
    Content, Unwritten,   \* Unwritten is one of Content
    Payload,              \* what the host writes, of Content
    Empty,                \* no Image
    Nothing               \* not of Content

VARIABLES
    disk,      \* the image in each drive, or Empty
    image,     \* the content of every image, sector by sector
    asked,     \* drive and sector of the next transfer
    answer     \* the sector the last read returned, Nothing otherwise

avars == <<disk, image, asked, answer>>

Quiet == answer' = Nothing

\* The disk the next transfer goes to, and the sector of it.
Disk == disk[asked[1]]
Place == asked[2]

AInit ==
    /\ disk = [d \in Drive |-> Empty]
    /\ image \in [Image -> [Sector -> Content]]
    /\ asked \in Drive \X Sector
    /\ answer = Nothing

\* A drive's disk is changed, or taken out.
Insert(d, i) ==
    disk' = [disk EXCEPT ![d] = i] /\ UNCHANGED <<image, asked>> /\ Quiet
Eject(d) ==
    disk' = [disk EXCEPT ![d] = Empty] /\ UNCHANGED <<image, asked>> /\ Quiet

\* The stored table is loaded: all drives change.
Reload ==
    /\ disk' \in [Drive -> Image \cup {Empty}]
    /\ UNCHANGED <<image, asked>>
    /\ Quiet

\* Power off and on: the drives are empty, the images are as they were.
PowerUp ==
    /\ disk' = [d \in Drive |-> Empty]
    /\ asked' \in Drive \X Sector
    /\ UNCHANGED image
    /\ Quiet

Ask(d, s) == asked' = <<d, s>> /\ UNCHANGED <<disk, image>> /\ Quiet

Write(v) ==
    /\ Disk # Empty
    /\ image' = [image EXCEPT ![Disk][Place] = v]
    /\ UNCHANGED <<disk, asked>>
    /\ Quiet

\* A sector never written may hold anything.
Read ==
    /\ Disk # Empty
    /\ answer' \in Content \cup {Nothing}
    /\ image[Disk][Place] # Unwritten => answer' = image[Disk][Place]
    /\ UNCHANGED <<disk, image, asked>>

\* An image file that no drive is reading is deleted.
Erase(i) ==
    /\ image' = [image EXCEPT ![i] = [s \in Sector |-> Unwritten]]
    /\ UNCHANGED <<disk, asked>>
    /\ Quiet

\* A command that does not concern the disks, or that is refused.
Other == UNCHANGED <<disk, image, asked>> /\ Quiet

ANext ==
    \/ \E d \in Drive, i \in Image : Insert(d, i)
    \/ \E d \in Drive : Eject(d)
    \/ Reload
    \/ PowerUp
    \/ \E d \in Drive, s \in Sector : Ask(d, s)
    \/ \E v \in Payload : Write(v)
    \/ Read
    \/ \E i \in Image : Erase(i)
    \/ Other

ASpec == AInit /\ [][ANext]_avars
=============================================================================
