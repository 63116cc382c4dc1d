---------------------------- MODULE MCDeployment ----------------------------
(***************************************************************************)
(* Bounds and options for checking Deployment.                             *)
(***************************************************************************)
EXTENDS Deployment

CONSTANTS plain, renamed

MCOptions == {plain, renamed}
MCOneOption == {plain}
=============================================================================
