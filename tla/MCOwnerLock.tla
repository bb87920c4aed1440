----------------------------- MODULE MCOwnerLock -----------------------------
(* TLC instance of OwnerLock: every call to the file system may fail. *)
EXTENDS OwnerLock

AllFaults == {"open", "write", "close", "read", "rename", "unlink", "remove"}
=============================================================================
