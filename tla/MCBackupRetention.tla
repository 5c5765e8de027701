------------------------- MODULE MCBackupRetention -------------------------
(***************************************************************************)
(* Instances of BackupRetention for TLC.                                   *)
(***************************************************************************)
EXTENDS BackupRetention

OneBlock == {1}
TwoBlocks == {1, 2}
OneOther == {3}
KeepTwo == [b \in Blocks |-> 2]
KeepTwoOne == [b \in Blocks |-> IF b = 2 THEN 1 ELSE 2]
SendTwo == [b \in AllBlocks |-> 2]
SendTwoThree == [b \in AllBlocks |-> IF b = 2 THEN 3 ELSE 2]
OneFolder == [b \in AllBlocks |-> "name"]
=============================================================================
