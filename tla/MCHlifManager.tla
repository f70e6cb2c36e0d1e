--------------------------- MODULE MCHlifManager ---------------------------
(* A manager with a handful of configs for TLC.                            *)
EXTENDS HlifManager, TLC

CONSTANTS c1, c2, c3, b1, b2

MCConfigs     == {c1, c2, c3}
MCCompBuffers == {b1, b2}
MCSymmetry    == Permutations(MCConfigs) \cup Permutations(MCCompBuffers)
=============================================================================
