---------------------------- MODULE MCLifecycle ----------------------------
(* Instances of Lifecycle for TLC. *)
EXTENDS Lifecycle, TLC

CONSTANTS c1, c2, t1, t2, s1, s2

TwoChains == {c1, c2}
TwoTicks == {t1, t2}
OneTick == {t1}
TwoSockets == {s1, s2}
OneSocket == {s1}

Symmetry == Permutations(Chain) \cup Permutations(Tick) \cup Permutations(Socket)
=============================================================================
