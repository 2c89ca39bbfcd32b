------------------------------ MODULE MCLocalSharing ------------------------------
(* An instance of LocalSharing for TLC. Folders differ by their names alone, so   *)
(* the wishes below are all choices of three requests up to renaming of folders.  *)
EXTENDS LocalSharing

CONSTANTS t1, t2, t3, s1, s2, s3

UpToRenaming ==
    [t \in Task |-> CASE t = t1 -> {s1} [] t = t2 -> {s1, s2} [] OTHER -> Source]
================================================================================
