------------------------------ MODULE MCChannel ------------------------------
EXTENDS Channel, TLC

CONSTANTS s1, s2

MCStamps == {s1, s2}

(* Stamp slots are interchangeable: the TagAllocator may hand out any free *)
(* one and nothing else tells them apart.                                  *)
StampSymmetry == Permutations(MCStamps)
=============================================================================
