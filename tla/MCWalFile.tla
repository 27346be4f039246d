------------------------------- MODULE MCWalFile ------------------------------
(* Instances of WalFile for TLC. *)
EXTENDS WalFile

File(version, records) == [version |-> version, records |-> records]

\* No file, files of two older versions, one of this version and one of the next.
AllStarts == {File(NoFile, 0), File(0, 1), File(1, 1), File(2, 1), File(3, 1)}
===============================================================================
