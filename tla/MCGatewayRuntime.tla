-------------------------- MODULE MCGatewayRuntime --------------------------
EXTENDS GatewayRuntime, TLC

CONSTANTS i1, i2, c1, c2, c3, c4, c5

AllOps == {"install", "start", "stop", "restart", "dispose"}

(* Every call on the one instance; one call on each of two. *)
OneInst == [c \in Call |-> i1]
TwoInst == [c \in Call |-> IF c = c1 THEN i1 ELSE i2]

(* Calls are interchangeable: no definition tells one from another. *)
CallSymmetry == Permutations(Call)
=============================================================================
