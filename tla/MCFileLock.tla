----------------------------- MODULE MCFileLock -----------------------------
(* Three processes.  They may crash anywhere but between moving a fresh    *)
(* lock away by mistake and giving it back.                                *)
EXTENDS FileLock

CONSTANTS p1, p2, p3

ThreeProcesses == {p1, p2, p3}
EightFiles == 1 .. 8
AlmostAnywhere == Places \ {"giveBack"}
=============================================================================
