----------------------------- MODULE MCSessions -----------------------------
(* The symmetry of the requests, which no action tells apart.              *)
EXTENDS Sessions, TLC

AnyOrderOfRequests == Permutations(Requests)
=============================================================================
