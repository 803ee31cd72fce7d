-------------------------- MODULE MC_ProcessRunner --------------------------
(* A child and two descendants; room for two units of output, of which a     *)
(* failed stdin write takes one.                                             *)
EXTENDS ProcessRunner
CONSTANTS h1, h2
MCHeir == {h1, h2}
=============================================================================
