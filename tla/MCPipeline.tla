------------------------------- MODULE MCPipeline -------------------------------
(***************************************************************************)
(* The instances of MCCore with the pipeline beside them.                  *)
(***************************************************************************)
EXTENDS MCCore, Pipeline

\* Branches behind an addition and behind the read of a counter.
CsrPrograms == [1 .. 3 -> {1, 8, 9, 10}]

=============================================================================
