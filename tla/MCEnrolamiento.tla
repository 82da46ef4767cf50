-------------------------- MODULE MCEnrolamiento ----------------------------
(* One gateway and one row of configuration, which is the installer's      *)
(* address, the release and the only value delivered, all at once.         *)
EXTENDS Enrolamiento, TLC

CONSTANTS g1, c1, k1, p1, p2, t1, t2, t3

Simetria == Permutations({p1, p2}) \cup Permutations({t1, t2, t3})
=============================================================================
