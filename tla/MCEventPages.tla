---------------------------- MODULE MCEventPages ----------------------------
(***************************************************************************)
(* Events and pages for checking EventPages.                               *)
(***************************************************************************)
EXTENDS EventPages

CONSTANTS first, second, other, proposal

MCEvents == {first, second, other, proposal}
MCKind == [e \in MCEvents |->
  CASE e = first -> "currency0" [] e = second -> "currency1"
    [] e = other -> "neither" [] e = proposal -> "proposal"]
MCSaved == {second}
=============================================================================
