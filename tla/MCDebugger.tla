------------------------------ MODULE MCDebugger ------------------------------
(* A file of three lines, the second of which has no code.                   *)
EXTENDS Debugger

MCCode == 1 :> 1 @@ 2 :> 3 @@ 3 :> 3
===============================================================================
