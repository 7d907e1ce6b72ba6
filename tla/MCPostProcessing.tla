------------------------- MODULE MCPostProcessing --------------------------
(* A quantity and a check; the second content of a result meets no contract *)
(* but the second.                                                          *)
EXTENDS PostProcessing
CONSTANTS b1, b2, k1, k2
MCPassing == {<<b1, k1>>, <<b1, k2>>, <<b2, k2>>}
MCFirstPlan == [a \in Analyses |-> k1]
=============================================================================
