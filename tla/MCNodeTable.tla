----------------------------- MODULE MCNodeTable -----------------------------
(* NodeTable with serial numbers and clients that no definition tells      *)
(* apart.                                                                  *)
EXTENDS NodeTable

Interchangeable == Permutations(Address) \cup Permutations(Client)

=============================================================================
