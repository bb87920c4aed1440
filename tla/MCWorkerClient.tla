---------------------------- MODULE MCWorkerClient ----------------------------
(* TLC instance of WorkerClient. *)
EXTENDS WorkerClient

CONSTANTS p1, p2, q1, t1, t2

(* One endpoint, or one for each client. *)
OneTarget  == [c \in Client |-> t1]
OwnTargets == [c \in Client |-> IF c = p1 THEN t1 ELSE t2]
=============================================================================
