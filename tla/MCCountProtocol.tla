--------------------------- MODULE MCCountProtocol ---------------------------
(* CountProtocol with several nodes, which no definition tells apart.      *)
EXTENDS CountProtocol, TLC

NodeSymmetry == Permutations(Node)

=============================================================================
