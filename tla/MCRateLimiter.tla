--------------------------- MODULE MCRateLimiter ---------------------------
(* RateLimiter for TLC. *)
EXTENDS RateLimiter, TLC
MCLimit == [s \in Scopes |-> IF s = "general" THEN 2 ELSE 1]
Symmetry == Permutations(Procs)
=============================================================================
