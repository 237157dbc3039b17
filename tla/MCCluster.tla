------------------------------ MODULE MCCluster ------------------------------
(***************************************************************************)
(* TLC instance of Cluster: the servers, the order a client tries them in, *)
(* and the clients that are interchangeable (the servers are not: their    *)
(* order in Candidates tells them apart).                                  *)
(***************************************************************************)
EXTENDS Cluster, TLC

CONSTANTS a, b, c1, c2

CandidatesAB == <<a, b>>

ClientSymmetry == Permutations({c1, c2})
=============================================================================
