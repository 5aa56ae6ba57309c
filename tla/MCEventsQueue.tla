--------------------------- MODULE MCEventsQueue ---------------------------
(* Instances of EventsQueue for TLC. *)
EXTENDS EventsQueue, TLC

CONSTANTS c1, c2, m1, m2, m3

TwoConsumers == {c1, c2}
OneConsumer == {c1}
TwoMessages == {m1, m2}
ThreeMessages == {m1, m2, m3}
JustM1 == {m1}
JustM2 == {m2}
M2M3 == {m2, m3}
Nobody == {}

ConsumerSymmetry == Permutations(Consumer)
=============================================================================
