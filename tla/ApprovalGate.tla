---------------------------- MODULE ApprovalGate ----------------------------
(***************************************************************************)
(* What a workflow promises about its runs, with no database, broker or    *)
(* handler in it: a run works until it ends or pauses; only a pause can be *)
(* approved or rejected, once; a verdict row is written exactly when the   *)
(* run passes or is approved.                                              *)
(***************************************************************************)
EXTENDS Naturals

CONSTANT Runs

VARIABLES
    phase,   \* where each run is
    rows     \* verdict rows of each run in the audit log

Phases == {"absent", "working", "passed", "finished", "failed",
           "paused", "approved", "rejected"}

Init ==
    /\ phase = [r \in Runs |-> "absent"]
    /\ rows = [r \in Runs |-> 0]

Move(r, from, to) ==
    /\ phase[r] = from
    /\ phase' = [phase EXCEPT ![r] = to]

Silently(r, from, to) == Move(r, from, to) /\ UNCHANGED rows
WithVerdict(r, from, to) == Move(r, from, to) /\ rows' = [rows EXCEPT ![r] = @ + 1]

Submit(r) == Silently(r, "absent", "working")
Finish(r) == Silently(r, "working", "finished")
Fail(r) == Silently(r, "working", "failed")
Pause(r) == Silently(r, "working", "paused")
Reject(r) == Silently(r, "paused", "rejected")
Pass(r) == WithVerdict(r, "working", "passed")
Approve(r) == WithVerdict(r, "paused", "approved")

Next == \E r \in Runs :
    \/ Submit(r) \/ Finish(r) \/ Fail(r) \/ Pause(r)
    \/ Reject(r) \/ Pass(r) \/ Approve(r)

Spec == Init /\ [][Next]_<<phase, rows>>
=============================================================================
