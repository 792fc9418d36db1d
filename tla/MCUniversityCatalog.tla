------------------------ MODULE MCUniversityCatalog ------------------------
(* UniversityCatalog on one university and interchangeable requests.           *)
EXTENDS UniversityCatalog, TLC

Symmetry == Permutations(Requests)
=============================================================================
