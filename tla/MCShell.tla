------------------------------- MODULE MCShell -------------------------------
(* Shell with one file, one number and one word that is none. *)
EXTENDS Shell
=============================================================================
