---------------------------- MODULE MCDocumented ----------------------------
(* Documented on two names: each in the root and under the other. *)
EXTENDS Documented
CONSTANTS a, b

MCName == {a, b}
MCPaths == {<<a>>, <<b>>, <<a, b>>, <<b, a>>}
=============================================================================
