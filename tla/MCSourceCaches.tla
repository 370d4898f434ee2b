--------------------------- MODULE MCSourceCaches ---------------------------
(* Two directories, the second one under discovery's eye, two goroutines     *)
(* that ask and two that report.                                             *)
EXTENDS SourceCaches, TLC

Interchangeable == Permutations(Queries) \cup Permutations(Reporters)
                     \cup Permutations(Resolvers)
==============================================================================
