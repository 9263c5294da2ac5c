----------------------------- MODULE MCChatTurn -----------------------------
(* ChatTurn for TLC: two workspaces that share a collection, one document
   each, and a user for each of them. *)
EXTENDS ChatTurn, TLC
CONSTANTS t1, t2, u1, u2, w1, w2, d1, d2
MCAccess == (u1 :> {w1}) @@ (u2 :> {w2})
MCDocWs == (d1 :> w1) @@ (d2 :> w2)
MCCollection == [w \in Workspaces |-> "shared"]
Symmetry == Permutations(Turns) \cup Permutations(Convs)
=============================================================================
