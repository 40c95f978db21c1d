------------------------------ MODULE MCProcess -------------------------------
(* Small instances of Process: the bounds are in the configurations.       *)
EXTENDS Process
=============================================================================
