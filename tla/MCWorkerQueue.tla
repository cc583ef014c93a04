---- MODULE MCWorkerQueue ----
(* Workers and wake-ups of one run. *)
EXTENDS WorkerQueue

CONSTANTS w1, w2, k1, k2

TwoWorkers == {w1, w2}
OneWorker == {w1}
TwoWakeups == {k1, k2}
OneWakeup == {k1}
====
