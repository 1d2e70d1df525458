---------------------------- MODULE MCDeployment ----------------------------
(***************************************************************************)
(* Two app containers, two workers and an operator.                        *)
(***************************************************************************)
EXTENDS Deployment

CONSTANTS a1, a2, w1, w2
=============================================================================
