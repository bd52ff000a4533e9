----------------------------- MODULE MCDirStream -----------------------------
(* DirStream on three names, all of them in the root. *)
EXTENDS DirStream
CONSTANTS a, b, c

MCName == {a, b, c}
MCPaths == {<<"">>, <<a>>, <<b>>, <<c>>}
MCSymmetry == Permutations(MCName)
=============================================================================
