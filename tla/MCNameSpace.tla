----------------------------- MODULE MCNameSpace -----------------------------
(* NameSpace on two names: each in the root and under the other; and on one
   name with every odd way to write a path that ends at it or at the root. *)
EXTENDS NameSpace
CONSTANTS a, b

MCName == {a, b}
MCPaths == {<<a>>, <<b>>, <<a, b>>, <<b, a>>}
MCOddPaths == {<<a>>, <<a, "..">>, <<a, "">>, <<a, ".">>}
MCSymmetry == Permutations(MCName)
=============================================================================
