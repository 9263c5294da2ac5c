--------------------------- MODULE MCWorkflowRuns ---------------------------
(* Instances of WorkflowRuns for TLC: the constants' values are in the cfgs. *)
EXTENDS WorkflowRuns, TLC

NoFaults == {}
AllFaults == FaultKinds
DeliveryFaults == {"redeliver", "publish"}

Symmetry == Permutations(Workers) \cup Permutations(Deciders) \cup Permutations(Runs)

(* No guard reads the workflow's status, what a session saw of it, the      *)
(* audit log or the notifications, and these enter nothing but themselves:  *)
(* two states that differ only there go on alike.  The faults run is about  *)
(* none of them but whether an audit row is there.                          *)
GuardsAndGates ==
    <<wf.template, wf.deleted, run, queue, redelivered,
      [r \in Runs |-> trigger[r].pc],
      [r \in Runs |-> {k \in AuditKind : audit[r][k] > 0}],
      [w \in Workers |-> [worker[w] EXCEPT !.wfSeen = "NONE"]],
      [d \in Deciders |-> [decider[d] EXCEPT !.wfSeen = "DRAFT"]]>>
=============================================================================
