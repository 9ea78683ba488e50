----------------------------- MODULE MCSqlPool -----------------------------
(* SqlPool on small instances: two workers, two enqueueing threads. *)
EXTENDS SqlPool

CONSTANTS w1, w2, game, aux, s1, d1, d2

TwoWorkers == {w1, w2}
TwoProducers == {game, aux}
OneProducer == {game}
MixedTasks == {s1, d1, d2}
TwoTasks == {s1, d1}
OneSelect == {s1}
NoSelects == {}
=============================================================================
