------------------------------ MODULE MCIdentity ------------------------------
(* Instances of Identity for TLC.                                          *)
EXTENDS Identity, TLC

Symmetry == {p @@ q @@ r : p \in Permutations(Handlers), q \in Permutations(Subs), r \in Permutations(Mails)}
===============================================================================
