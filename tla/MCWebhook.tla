----------------------------- MODULE MCWebhook -----------------------------
(* Instances of Webhook for TLC. *)
EXTENDS Webhook, TLC

CONSTANTS h1, h2, h3, p1, p2

TwoHooks == {h1, h2}
ThreeHooks == {h1, h2, h3}
JustH2 == {h2}
TwoPulls == {p1, p2}

PullSymmetry == Permutations(Pull)
=============================================================================
