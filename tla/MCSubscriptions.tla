-------------------------- MODULE MCSubscriptions --------------------------
(* Instances of Subscriptions for TLC: s1 is a socket whose messages may carry
   the id of s2, which is also written and removed through GraphQL.          *)
EXTENDS Subscriptions, TLC

CONSTANTS s1, s2, d1, d2, d3, p1, p2

TwoSubs == {s1, s2}
ThreeDocs == {d1, d2, d3}
TwoProcs == {p1, p2}

Everything ==
    [s \in TwoSubs |-> IF s = s1 THEN {"connect", "reconnect", "disconnect", "get"}
                                 ELSE {"connect", "put", "remove", "list"}]
ConnectAndList == [s \in TwoSubs |-> {"connect", "disconnect", "list"}]

NoId == {}
JustS2 == {s2}

Symmetry == Permutations(Doc) \cup Permutations(Proc)
=============================================================================
