------------------------------- MODULE MCBBFS -------------------------------
(* BBFS on two threads, two names and two descriptors. *)
EXTENDS BBFS, TLC
CONSTANTS t1, t2, a, b, h1, h2, r, d, s

MCThread == {t1, t2}
MCName == {a, b}
MCHandle == {h1, h2}
MCSymmetry ==
  {p @@ q @@ r0 : p \in Permutations(MCThread), q \in Permutations(MCName),
                  r0 \in Permutations(MCHandle)}
=============================================================================
