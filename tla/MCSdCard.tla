------------------------------ MODULE MCSdCard ------------------------------
(***************************************************************************)
(* Instances of SdCard for TLC.                                            *)
(***************************************************************************)
EXTENDS SdCard

OneOfEach == {"a", "b", "c", "d"}
EachKind == [c \in OneOfEach |->
    CASE c = "a" -> "HC" [] c = "b" -> "SD2" [] c = "c" -> "SD1" [] c = "d" -> "MMC"]

\* The loops of the three programs differ in length only.
TwoTries == [b \in Builds |-> [loop \in {"acmd41", "wait"} |-> IF b = "loader" THEN 1 ELSE 2]]
=============================================================================
