---------------------------- MODULE MCDeviceLogin ----------------------------
(* TLC instance of DeviceLogin: a few start calls, a few chunks of output. *)
EXTENDS DeviceLogin

CONSTANTS c1, c2, c3

(* The verdicts other than success are treated alike: one stands for them. *)
SomeLines == Fields \cup {"success", "denied", "other", "invalid"}
=============================================================================
