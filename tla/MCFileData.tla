----------------------------- MODULE MCFileData -----------------------------
(* FileData on two bytes and NUL. *)
EXTENDS FileData
CONSTANTS x, y

MCChar == {x, y}
MCSymmetry == Permutations(MCChar)
=============================================================================
