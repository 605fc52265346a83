-------------------------- MODULE MCGameDirectory --------------------------
(* GameDirectory for TLC: ckit.exe and a file of the disks, HEIRS and a module. *)
EXTENDS GameDirectory

CONSTANTS CkitExe, f1, heirs, hos1

MCDiskFiles == {f1}
MCDesigns   == {heirs, hos1}
MCBundled   == {hos1}

\* HEIRS has a version of the file, HOS1 patches ckit.exe and has its own version.
MCReplaces == [d \in MCDesigns |-> IF d = heirs THEN {f1} ELSE {CkitExe, f1}]
=============================================================================
