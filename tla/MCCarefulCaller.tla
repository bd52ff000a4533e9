--------------------------- MODULE MCCarefulCaller ---------------------------
(* CarefulCaller on two names, down to a third level, the root, and paths  *)
(* that go through a directory and up again.                               *)
EXTENDS Lister
CONSTANTS a, b

MCName == {a, b}
MCPaths == {<<"">>, <<a>>, <<b>>, <<a, b>>, <<b, a>>, <<a, b, a>>, <<b, a, b>>,
            <<a, "..", a>>, <<a, "..", b>>, <<b, "..", a>>, <<b, "..", b>>}
MCSymmetry == Permutations(MCName)
=============================================================================
