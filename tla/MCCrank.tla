------------------------------ MODULE MCCrank ------------------------------
(* Small instances of Crank: two exits with a position each, or one exit   *)
(* with two.                                                               *)
EXTENDS Crank, TLC

CONSTANTS exit1, exit2, pos1, pos2, none

ExitEach == (pos1 :> exit1) @@ (pos2 :> exit2)
OneExit == (pos1 :> exit1)
=============================================================================
