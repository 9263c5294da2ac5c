--------------------------- MODULE MCAuthSessions ---------------------------
(* AuthSessions for TLC: two calls in one tab, one in another. *)
EXTENDS AuthSessions, TLC
CONSTANTS t1, t2, c1, c2, c3
MCTabOf == (c1 :> t1) @@ (c2 :> t1) @@ (c3 :> t2)
Symmetry == Permutations({c1, c2})
=============================================================================
