---------------------------- MODULE MCMembership ----------------------------
(* Instances of Membership for TLC: the constants' values are in the cfgs.  *)
EXTENDS Membership, TLC

MailFaults == {"smtp"}

Symmetry == Permutations(Requests) \cup Permutations(Invites)
              \cup Permutations(Users \ {Founder})
=============================================================================
