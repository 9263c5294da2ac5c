---------------------------- MODULE WorkflowRuns ----------------------------
(***************************************************************************)
(* Runs of one workflow: the trigger, approve and reject handlers of       *)
(* apps/api/routes/workflows.py, the Celery task and executor of           *)
(* apps/worker, the broker between them, and the audit trail they leave.   *)
(*                                                                         *)
(* One action is one database transaction (or one broker operation).  A    *)
(* handler or task that commits several times is several actions, and what *)
(* it read in an earlier transaction is kept in its own record: the        *)
(* sessions take no row locks and the tables carry no version column.      *)
(***************************************************************************)
EXTENDS Naturals, FiniteSets

CONSTANTS
    Runs,             \* runs that may be triggered
    Workers,          \* Celery worker processes
    Deciders,         \* admins, each with at most one decision in flight
    NoRun, NoAdmin,   \* "none" values
    Faults,           \* which of FaultKinds may happen
    MaxRetries,       \* max_retries of the Celery task
    MaxRedeliveries   \* bound on broker redeliveries, to keep TLC finite

(* publish:   .delay raises although the broker took the message            *)
(* redeliver: an unacknowledged message is handed out again                 *)
(* kill:      a worker's child process is killed; the message is then acked *)
(* db:        a commit or query of the worker fails                         *)
(* api:       the API process dies inside a handler                         *)
FaultKinds == {"publish", "redeliver", "kill", "db", "api"}

ASSUME NoneAreFresh == NoRun \notin Runs /\ NoAdmin \notin Deciders
ASSUME FaultsKnown == Faults \subseteq FaultKinds
ASSUME BoundsAreNat == MaxRetries \in Nat /\ MaxRedeliveries \in Nat

VARIABLES
    wf,           \* the workflows row: template_id, status, deleted_at set?
    run,          \* the workflow_runs rows
    audit,        \* audit_logs rows of each run, counted by kind
    notified,     \* runs with a notifications row "approval needed"
    trigger,      \* the run_workflow handler that created each run
    queue,        \* broker: queued messages of each run, by retry count
    worker,       \* Celery workers and the message each one holds
    decider,      \* approve_run / reject_run handlers
    redelivered   \* redeliveries so far (bounded)

dbVars == <<wf, run, audit, notified>>
vars == <<wf, run, audit, notified, trigger, queue, worker, decider, redelivered>>

-----------------------------------------------------------------------------
Templates == {"doc-ingest-rag", "compliance-audit", "support-router"}

RunStatus == {"NONE", "PENDING", "RUNNING", "AWAITING_APPROVAL",
              "COMPLETED", "FAILED", "REJECTED"}
WorkflowStatus == (RunStatus \ {"NONE"}) \cup {"DRAFT"}
Terminal == {"COMPLETED", "FAILED", "REJECTED"}
Verdicts == {"APPROVED", "REJECTED"}

(* A row of workflow_runs.  steps is kept as the status of the approval     *)
(* step s3 (gate) and whether a completed step s4 is listed (dispatched).   *)
Row == [status : RunStatus,
        approval : {"NULL", "PENDING"} \cup Verdicts,
        approver : Deciders \cup {NoAdmin},
        completed : BOOLEAN,
        error : BOOLEAN,
        gate : {"none", "passed", "pending_approval", "approved", "rejected"},
        dispatched : BOOLEAN]

(* Audit rows: the compliance verdict (PASSED by the worker, APPROVED by    *)
(* the API) and the log of the decisions themselves.                        *)
AuditKind == {"PASSED", "APPROVED", "workflow.approve", "workflow.reject"}

NoRow == [status |-> "NONE", approval |-> "NULL", approver |-> NoAdmin,
          completed |-> FALSE, error |-> FALSE, gate |-> "none",
          dispatched |-> FALSE]

IdleWorker == [pc |-> "idle", run |-> NoRun, retries |-> 0, wfSeen |-> "NONE"]
IdleDecider == [pc |-> "idle", run |-> NoRun, verdict |-> "APPROVED",
                wfSeen |-> "DRAFT"]

WorkflowRow == [template : Templates, status : WorkflowStatus, deleted : BOOLEAN]
TriggerState == [pc : {"none", "created", "marked", "unpublished", "done"},
                 wfSeen : WorkflowStatus]
WorkerState == [pc : {"idle", "received", "loaded", "started", "executing",
                      "dispatched", "audited", "finished"},
                run : Runs \cup {NoRun}, retries : 0..MaxRetries,
                wfSeen : WorkflowStatus \cup {"NONE"}]   \* NONE: not loaded
DeciderState == [pc : {"idle", "opened", "loaded", "dispatched", "decided"},
                 run : Runs \cup {NoRun}, verdict : Verdicts, wfSeen : WorkflowStatus]

(* Every variable has its type; each column holds what models/workflow.py    *)
(* says.                                                                    *)
TypeOK ==
    /\ wf \in WorkflowRow
    /\ run \in [Runs -> Row]
    /\ audit \in [Runs -> [AuditKind -> Nat]]
    /\ notified \subseteq Runs
    /\ trigger \in [Runs -> TriggerState]
    /\ queue \in [Runs -> [0..MaxRetries -> Nat]]
    /\ worker \in [Workers -> WorkerState]
    /\ decider \in [Deciders -> DeciderState]
    /\ \A w \in Workers : worker[w].pc # "idle" => worker[w].run \in Runs
    /\ \A d \in Deciders :
          decider[d].pc \notin {"idle", "opened"} => decider[d].run \in Runs
    /\ redelivered \in Nat

Init ==
    /\ wf \in [template : Templates, status : {"DRAFT"}, deleted : {FALSE}]
    /\ run = [r \in Runs |-> NoRow]
    /\ audit = [r \in Runs |-> [k \in AuditKind |-> 0]]
    /\ notified = {}
    /\ trigger = [r \in Runs |-> [pc |-> "none", wfSeen |-> "DRAFT"]]
    /\ queue = [r \in Runs |-> [k \in 0..MaxRetries |-> 0]]
    /\ worker = [w \in Workers |-> IdleWorker]
    /\ decider = [d \in Deciders |-> IdleDecider]
    /\ redelivered = 0

-----------------------------------------------------------------------------
(* Writes to the workflows row.  A session only writes a column that        *)
(* differs from the value it loaded: an API session keeps that value across *)
(* its commits, a worker's session loads the row again after each of its    *)
(* own.  A column that is not loaded is always written.                     *)

SetStatus(s) == wf' = [wf EXCEPT !.status = s]
SetStatusUnlessSeen(s, seen) ==
    wf' = [wf EXCEPT !.status = IF seen = s THEN @ ELSE s]

Enqueue(r, k) == queue' = [queue EXCEPT ![r][k] = @ + 1]
AddAudit(r, kind) == audit' = [audit EXCEPT ![r][kind] = @ + 1]

(* What each writer assigns to the run row.  An operator with a suffix is a *)
(* mutation: a bug the properties must catch, used by no action.            *)

UnpublishedRow_KeepsStatus(row) == [row EXCEPT !.error = TRUE, !.completed = TRUE]
UnpublishedRow(row) ==
    [row EXCEPT !.status = "FAILED", !.error = TRUE, !.completed = TRUE]

FailedRow(row) == [UnpublishedRow(row) EXCEPT !.gate = "none", !.dispatched = FALSE]

CompletedRow_KeepsStatus(row, gate) ==
    [row EXCEPT !.completed = TRUE, !.gate = gate, !.dispatched = TRUE]
CompletedRow(row, gate) ==
    [row EXCEPT !.status = "COMPLETED", !.completed = TRUE,
                !.gate = gate, !.dispatched = TRUE]

PausedRow_KeepsApprover(row) ==
    [row EXCEPT !.status = "AWAITING_APPROVAL", !.approval = "PENDING",
                !.gate = "pending_approval", !.dispatched = FALSE]
PausedRow_WrongColumn(row) ==
    [row EXCEPT !.approval = "AWAITING_APPROVAL", !.approver = NoAdmin,
                !.gate = "pending_approval", !.dispatched = FALSE]
PausedRow(row) ==
    [row EXCEPT !.status = "AWAITING_APPROVAL", !.approval = "PENDING",
                !.approver = NoAdmin, !.gate = "pending_approval",
                !.dispatched = FALSE]

(* The decision columns, without the run's status.                          *)
DecidedRow(row, d, v, gate) ==
    [row EXCEPT !.approval = v, !.approver = d, !.gate = gate, !.dispatched = FALSE]

RejectedRow(row, d) ==
    [DecidedRow(row, d, "REJECTED", "rejected") EXCEPT !.status = "REJECTED",
                                                       !.completed = TRUE]

-----------------------------------------------------------------------------
(* The trigger handler, run_workflow of the API.                            *)

(* The run row is committed PENDING before anything else.  The handler read *)
(* the workflow a little earlier; nobody can see the new run in between.    *)
CreateRun(r) ==
    /\ ~wf.deleted
    /\ trigger[r].pc = "none"
    /\ trigger' = [trigger EXCEPT ![r] = [pc |-> "created", wfSeen |-> wf.status]]
    /\ run' = [run EXCEPT ![r].status = "PENDING"]
    /\ UNCHANGED <<wf, audit, notified, queue, worker, decider, redelivered>>

(* Second commit of the handler: the workflow row, and the workflow.run     *)
(* audit row, which nothing reads.                                          *)
MarkWorkflowPending(r) ==
    /\ trigger[r].pc = "created"
    /\ trigger' = [trigger EXCEPT ![r].pc = "marked"]
    /\ SetStatusUnlessSeen("PENDING", trigger[r].wfSeen)
    /\ UNCHANGED <<run, audit, notified, queue, worker, decider, redelivered>>

(* .delay reached the broker.                                               *)
Publish(r) ==
    /\ trigger[r].pc = "marked"
    /\ trigger' = [trigger EXCEPT ![r].pc = "done"]
    /\ Enqueue(r, 0)
    /\ UNCHANGED <<dbVars, worker, decider, redelivered>>

(* .delay raised; with the publish fault the broker may have the message.   *)
PublishRaises(r) ==
    /\ trigger[r].pc = "marked"
    /\ trigger' = [trigger EXCEPT ![r].pc = "unpublished"]
    /\ \/ UNCHANGED queue
       \/ "publish" \in Faults /\ Enqueue(r, 0)
    /\ UNCHANGED <<dbVars, worker, decider, redelivered>>

(* The handler's except branch.                                             *)
FailUnpublished(r) ==
    /\ trigger[r].pc = "unpublished"
    /\ trigger' = [trigger EXCEPT ![r].pc = "done"]
    /\ run' = [run EXCEPT ![r] = UnpublishedRow(@)]
    /\ SetStatus("FAILED")
    /\ UNCHANGED <<audit, notified, queue, worker, decider, redelivered>>

TriggerCrash(r) ==
    /\ "api" \in Faults
    /\ trigger[r].pc \in {"created", "marked", "unpublished"}
    /\ trigger' = [trigger EXCEPT ![r].pc = "done"]
    /\ UNCHANGED <<dbVars, queue, worker, decider, redelivered>>

(* Soft delete: the row stays, so do its runs, messages and workers.        *)
DeleteWorkflow ==
    /\ ~wf.deleted
    /\ wf' = [wf EXCEPT !.deleted = TRUE]
    /\ UNCHANGED <<run, audit, notified, trigger, queue, worker, decider, redelivered>>

-----------------------------------------------------------------------------
(* The Celery task and _run_workflow_core.                                  *)

Receive(w, r, k) ==
    /\ worker[w].pc = "idle"
    /\ queue[r][k] > 0
    /\ queue' = [queue EXCEPT ![r][k] = @ - 1]
    /\ worker' = [worker EXCEPT ![w] = [pc |-> "received", run |-> r, retries |-> k,
                                        wfSeen |-> "NONE"]]
    /\ UNCHANGED <<dbVars, trigger, decider, redelivered>>

(* A worker goes from one point to the next, its session holding seen.      *)
Advance(w, from, to, seen) ==
    /\ worker[w].pc = from
    /\ worker' = [worker EXCEPT ![w] = [@ EXCEPT !.pc = to, !.wfSeen = seen]]
    /\ UNCHANGED <<trigger, queue, decider, redelivered>>

LoadRun(w) ==
    /\ Advance(w, "received", "loaded", wf.status)
    /\ UNCHANGED dbVars

(* Whatever the run's status is, it becomes RUNNING: the task does not look *)
(* at the status, the decision or the workflow's deleted_at.  (A second     *)
(* delivery that loaded it RUNNING keeps what was written since.)           *)
StartRun(w) ==
    LET r == worker[w].run IN
    /\ Advance(w, "loaded", "started", "NONE")
    /\ \/ run' = [run EXCEPT ![r].status = "RUNNING"]
       \/ "redeliver" \in Faults /\ UNCHANGED run
    /\ SetStatusUnlessSeen("RUNNING", worker[w].wfSeen)
    /\ UNCHANGED <<audit, notified>>

(* The commit expired the workflow: wf.template_id loads it again, here, in *)
(* the ingest executor after each document, and after the PASSED row.       *)
Reload(w) ==
    /\ \/ Advance(w, "started", "executing", wf.status)
       \/ wf.template = "doc-ingest-rag" /\ Advance(w, "executing", "executing", wf.status)
       \/ Advance(w, "dispatched", "audited", wf.status)
    /\ UNCHANGED dbVars

(* _exec_compliance found nothing: step s4 commits the PASSED audit row     *)
(* before the run itself is updated.                                        *)
DispatchPassed(w) ==
    LET r == worker[w].run IN
    /\ wf.template = "compliance-audit"
    /\ Advance(w, "executing", "dispatched", "NONE")
    /\ AddAudit(r, "PASSED")
    /\ UNCHANGED <<wf, run, notified>>

(* The core's last commit: the run, and the workflow's status unless its    *)
(* session loaded that status.                                              *)
Finish(w, from, row) ==
    /\ Advance(w, from, "finished", "NONE")
    /\ run' = [run EXCEPT ![worker[w].run] = row]
    /\ SetStatusUnlessSeen(row.status, worker[w].wfSeen)

CompletePassed(w) ==
    /\ Finish(w, "audited", CompletedRow(run[worker[w].run], "passed"))
    /\ UNCHANGED <<audit, notified>>

(* The executors without an approval step.                                  *)
CompleteOther(w) ==
    /\ wf.template # "compliance-audit"
    /\ Finish(w, "executing", CompletedRow(run[worker[w].run], "none"))
    /\ UNCHANGED <<audit, notified>>

Pause_FallsThrough(w) ==
    LET r == worker[w].run IN
    /\ wf.template = "compliance-audit"
    /\ Finish(w, "executing", PausedRow(run[r]))
    /\ AddAudit(r, "PASSED")
    /\ UNCHANGED notified

(* Findings: the pause and its notification are one transaction, because    *)
(* notify_sync commits the session that holds the pause.  The notification  *)
(* is best effort.                                                          *)
Pause(w) ==
    LET r == worker[w].run IN
    /\ wf.template = "compliance-audit"
    /\ Finish(w, "executing", PausedRow(run[r]))
    /\ \/ notified' = notified \cup {r}
       \/ UNCHANGED notified
    /\ UNCHANGED audit

(* The executor reported an error or raised one that the core caught.  Only *)
(* a database error can come after the PASSED row was committed.            *)
FailRun(w) ==
    /\ \E from \in {"executing"} \cup
                    (IF "db" \in Faults THEN {"dispatched", "audited"} ELSE {}) :
          Finish(w, from, FailedRow(run[worker[w].run]))
    /\ UNCHANGED <<audit, notified>>

Ack(w) ==
    /\ worker[w].pc = "finished"
    /\ worker' = [worker EXCEPT ![w] = IdleWorker]
    /\ UNCHANGED <<dbVars, trigger, queue, decider, redelivered>>

(* The child process is killed (task_reject_on_worker_lost is not set).      *)
ChildKilled(w) ==
    /\ "kill" \in Faults
    /\ worker[w].pc # "idle"
    /\ worker' = [worker EXCEPT ![w] = IdleWorker]
    /\ UNCHANGED <<dbVars, trigger, queue, decider, redelivered>>

(* An exception leaves the core (before or after a commit took effect): the *)
(* task is published again with one more retry, or given up.                *)
Retry(w) ==
    LET k == worker[w].retries IN
    /\ "db" \in Faults
    /\ worker[w].pc # "idle"
    /\ worker' = [worker EXCEPT ![w] = IdleWorker]
    /\ IF k < MaxRetries THEN Enqueue(worker[w].run, k + 1) ELSE UNCHANGED queue
    /\ UNCHANGED <<dbVars, trigger, decider, redelivered>>

(* task_acks_late: an unacknowledged message goes back to the queue, either *)
(* because its worker died or because the visibility timeout ran out while  *)
(* the worker still runs it.                                                *)
Redeliver(w) ==
    /\ "redeliver" \in Faults
    /\ redelivered < MaxRedeliveries
    /\ worker[w].pc # "idle"
    /\ redelivered' = redelivered + 1
    /\ Enqueue(worker[w].run, worker[w].retries)
    /\ \/ worker' = [worker EXCEPT ![w] = IdleWorker]
       \/ UNCHANGED worker
    /\ UNCHANGED <<dbVars, trigger, decider>>

-----------------------------------------------------------------------------
(* approve_run and reject_run.                                              *)

Decidable(r) == run[r].status = "AWAITING_APPROVAL" /\ run[r].approval = "PENDING"

(* _load_active_workflow.  The session keeps this copy of the workflow      *)
(* while _assert_admin_org awaits its queries.                              *)
OpenWorkflow(d) ==
    /\ decider[d].pc = "idle"
    /\ ~wf.deleted
    /\ decider' = [decider EXCEPT ![d] = [IdleDecider EXCEPT !.pc = "opened",
                                                            !.wfSeen = wf.status]]
    /\ UNCHANGED <<dbVars, trigger, queue, worker, redelivered>>

(* _load_pending_run reads the run later, in a statement of its own.        *)
LoadPendingRun(d, r, v) ==
    /\ decider[d].pc = "opened"
    /\ Decidable(r)
    /\ decider' = [decider EXCEPT ![d] = [pc |-> "loaded", run |-> r, verdict |-> v,
                                          wfSeen |-> @.wfSeen]]
    /\ UNCHANGED <<dbVars, trigger, queue, worker, redelivered>>

(* The 403, 404 and 409 answers.                                            *)
Refuse(d) ==
    /\ decider[d].pc = "opened"
    /\ decider' = [decider EXCEPT ![d] = IdleDecider]
    /\ UNCHANGED <<dbVars, trigger, queue, worker, redelivered>>

Step(d, v, from, to) ==
    /\ decider[d].pc = from
    /\ decider[d].verdict = v
    /\ decider' = [decider EXCEPT ![d].pc = to]
    /\ UNCHANGED <<trigger, queue, worker, redelivered>>

CommitApproval_WithoutAudit(d) ==
    LET r == decider[d].run IN
    /\ Step(d, "APPROVED", "loaded", "dispatched")
    /\ run' = [run EXCEPT ![r] = DecidedRow(@, d, "APPROVED", "approved")]
    /\ UNCHANGED <<wf, audit, notified>>

(* _dispatch_audit_step: the audit service commits the session, and with it *)
(* the decision, while the run is still AWAITING_APPROVAL.                  *)
CommitApproval(d) ==
    LET r == decider[d].run IN
    /\ Step(d, "APPROVED", "loaded", "dispatched")
    /\ run' = [run EXCEPT ![r] = DecidedRow(@, d, "APPROVED", "approved")]
    /\ AddAudit(r, "APPROVED")
    /\ UNCHANGED <<wf, notified>>

(* The handler's own commit: step s4 and the terminal status.               *)
CompleteApproved(d) ==
    LET r == decider[d].run IN
    /\ Step(d, "APPROVED", "dispatched", "decided")
    /\ run' = [run EXCEPT ![r] = CompletedRow(@, "approved")]
    /\ SetStatusUnlessSeen("COMPLETED", decider[d].wfSeen)
    /\ UNCHANGED <<audit, notified>>

CommitRejection_Dispatches(d) ==
    LET r == decider[d].run IN
    /\ Step(d, "REJECTED", "loaded", "decided")
    /\ run' = [run EXCEPT ![r] = RejectedRow(@, d)]
    /\ AddAudit(r, "APPROVED")
    /\ SetStatusUnlessSeen("REJECTED", decider[d].wfSeen)
    /\ UNCHANGED notified

CommitRejection_KeepsWorkflow(d) ==
    LET r == decider[d].run IN
    /\ Step(d, "REJECTED", "loaded", "decided")
    /\ run' = [run EXCEPT ![r] = RejectedRow(@, d)]
    /\ UNCHANGED <<wf, audit, notified>>

CommitRejection(d) ==
    LET r == decider[d].run IN
    /\ Step(d, "REJECTED", "loaded", "decided")
    /\ run' = [run EXCEPT ![r] = RejectedRow(@, d)]
    /\ SetStatusUnlessSeen("REJECTED", decider[d].wfSeen)
    /\ UNCHANGED <<audit, notified>>

LogDecision_AlwaysApprove(d) ==
    /\ decider[d].pc = "decided"
    /\ decider' = [decider EXCEPT ![d] = IdleDecider]
    /\ AddAudit(decider[d].run, "workflow.approve")
    /\ UNCHANGED <<wf, run, notified, trigger, queue, worker, redelivered>>

(* The audit row of the decision itself, after which the handler answers.   *)
LogDecision(d) ==
    /\ decider[d].pc = "decided"
    /\ decider' = [decider EXCEPT ![d] = IdleDecider]
    /\ AddAudit(decider[d].run,
                IF decider[d].verdict = "APPROVED" THEN "workflow.approve"
                                                   ELSE "workflow.reject")
    /\ UNCHANGED <<wf, run, notified, trigger, queue, worker, redelivered>>

DecisionCrash(d) ==
    /\ "api" \in Faults
    /\ decider[d].pc # "idle"
    /\ decider' = [decider EXCEPT ![d] = IdleDecider]
    /\ UNCHANGED <<dbVars, trigger, queue, worker, redelivered>>

-----------------------------------------------------------------------------
Trigger(r) ==
    \/ MarkWorkflowPending(r)
    \/ Publish(r)
    \/ PublishRaises(r)
    \/ FailUnpublished(r)

Execute(w) ==
    \/ LoadRun(w)
    \/ StartRun(w)
    \/ Reload(w)
    \/ DispatchPassed(w)
    \/ CompletePassed(w)
    \/ CompleteOther(w)
    \/ Pause(w)
    \/ FailRun(w)
    \/ Ack(w)

Decide(d) ==
    \/ CommitApproval(d)
    \/ CompleteApproved(d)
    \/ CommitRejection(d)
    \/ LogDecision(d)

Next ==
    \/ \E r \in Runs : CreateRun(r) \/ Trigger(r) \/ TriggerCrash(r)
    \/ DeleteWorkflow
    \/ \E w \in Workers, r \in Runs, k \in 0..MaxRetries : Receive(w, r, k)
    \/ \E w \in Workers : Execute(w) \/ Retry(w) \/ ChildKilled(w) \/ Redeliver(w)
    \/ \E d \in Deciders, r \in Runs, v \in Verdicts : LoadPendingRun(d, r, v)
    \/ \E d \in Deciders : OpenWorkflow(d) \/ Refuse(d) \/ Decide(d) \/ DecisionCrash(d)

Spec == Init /\ [][Next]_vars

(* The processes run: a handler that has begun goes on, an idle worker      *)
(* takes a queued message, a worker goes on with its task.  Nobody has to   *)
(* trigger or decide, and no fault has to happen.                           *)
Fairness ==
    /\ \A r \in Runs : WF_vars(Trigger(r))
    /\ \A w \in Workers : WF_vars(Execute(w))
    /\ \A w \in Workers, r \in Runs : WF_vars(\E k \in 0..MaxRetries : Receive(w, r, k))
    /\ \A d \in Deciders : WF_vars(Decide(d))

FairSpec == Spec /\ Fairness

-----------------------------------------------------------------------------
(* Properties that hold whatever fails and whoever decides concurrently.    *)

(* A run that the API would accept a decision on shows an undecided gate,   *)
(* nothing past it, and no approver (approve_run, reject_run, the executor).*)
GateClosed ==
    \A r \in Runs : Decidable(r) =>
        /\ run[r].gate = "pending_approval"
        /\ ~run[r].dispatched
        /\ run[r].approver = NoAdmin

(* Whatever a run shows as done is in the audit log: a passed or approved   *)
(* gate has its verdict row, a decision that reads APPROVED has one, and so *)
(* has every workflow.approve entry (_dispatch_audit_step, _exec_compliance)*)
DispatchAudited ==
    \A r \in Runs :
        /\ run[r].gate = "passed" => audit[r]["PASSED"] > 0
        /\ run[r].gate = "approved" => audit[r]["APPROVED"] > 0
        /\ run[r].approval = "APPROVED" => audit[r]["APPROVED"] > 0
        /\ audit[r]["workflow.approve"] > 0 => audit[r]["APPROVED"] > 0
        /\ (run[r].dispatched /\ wf.template = "compliance-audit") =>
              run[r].gate \in {"passed", "approved"}

(* approved_by is set exactly while approval_status is a decision           *)
(* (models/workflow.py: it carries whoever approved or rejected).           *)
ApproverRecorded ==
    \A r \in Runs : (run[r].approver # NoAdmin) <=> (run[r].approval \in Verdicts)

(* Nobody is told that a run awaits approval unless that run has been       *)
(* committed as gated: the notification shares the transaction of the pause *)
(* (_notify_approval_needed, notify_sync).                                  *)
NotifiedMeansGated ==
    \A r \in notified : run[r].approval # "NULL"

-----------------------------------------------------------------------------
(* Properties that hold when messages are delivered once, no process dies   *)
(* and decisions on the workflow are taken one at a time.                   *)

VerdictRows(r) == audit[r]["PASSED"] + audit[r]["APPROVED"]

(* A run leaves at most one compliance verdict in the audit log, and a      *)
(* completed compliance run exactly one, the one its own row shows.         *)
OneVerdict ==
    \A r \in Runs :
        /\ VerdictRows(r) <= 1
        /\ (run[r].status = "COMPLETED" /\ wf.template = "compliance-audit") =>
              \/ /\ run[r].approval = "NULL" /\ run[r].gate = "passed"
                 /\ audit[r]["PASSED"] = 1 /\ run[r].dispatched /\ ~run[r].error
              \/ /\ run[r].approval = "APPROVED" /\ run[r].gate = "approved"
                 /\ audit[r]["APPROVED"] = 1 /\ run[r].dispatched /\ ~run[r].error

(* A rejected run never reached the audit dispatch step: no verdict row, no *)
(* step s4 (tests/test_phase5.py, test_reject_terminates_run).              *)
RejectedNotDispatched ==
    \A r \in Runs : run[r].status = "REJECTED" =>
        /\ VerdictRows(r) = 0
        /\ ~run[r].dispatched
        /\ run[r].approval = "REJECTED"

(* What is in the audit log fits what the runs show: one verdict for a run   *)
(* that got through the gate, none for one that was turned away.            *)
VerdictsFit == OneVerdict /\ RejectedNotDispatched

(* A run that is PENDING or RUNNING has somebody working on it: the handler *)
(* that created it, a message or a worker.                                  *)
Attended(r) ==
    \/ trigger[r].pc \in {"created", "marked", "unpublished"}
    \/ \E k \in 0..MaxRetries : queue[r][k] > 0
    \/ \E w \in Workers : worker[w].run = r

(* Outside a handler, the decision log agrees with the run: one             *)
(* workflow.approve row for an approved run, one workflow.reject row for a  *)
(* rejected one, none for any other.                                        *)
DecisionLogged ==
    \A r \in Runs : (\A d \in Deciders : decider[d].run # r) =>
        /\ audit[r]["workflow.approve"] = IF run[r].approval = "APPROVED" THEN 1 ELSE 0
        /\ audit[r]["workflow.reject"] = IF run[r].approval = "REJECTED" THEN 1 ELSE 0

(* A decision on r that left the workflow as it was: its handler had read   *)
(* the workflow when s had ended the same way, before r was paused.         *)
SkippedBy(r, s) ==
    /\ r # s
    /\ run[r].approval \in Verdicts
    /\ run[r].status \in {"COMPLETED", "REJECTED"}
    /\ run[s].status = run[r].status

(* With nothing in flight, the workflow's status is that of one of its runs,*)
(* although every writer skips the column when it equals what it loaded;    *)
(* with one exception: it may still say AWAITING_APPROVAL after a decision, *)
(* and then another run has ended the same way.                             *)
WorkflowReflectsARun ==
    ( /\ \A r \in Runs : ~Attended(r)
      /\ \A d \in Deciders : decider[d].pc = "idle"
      /\ \E r \in Runs : run[r].status # "NONE" )
    => \/ \E r \in Runs : wf.status = run[r].status
       \/ wf.status = "AWAITING_APPROVAL" /\ \E r, s \in Runs : SkippedBy(r, s)

(* A run that was accepted reaches a pause or an end: needs every handler   *)
(* and worker to go on, and survives redelivery and ambiguous publishing.   *)
Settles ==
    \A r \in Runs : (run[r].status \in {"PENDING", "RUNNING"}) ~>
                       (run[r].status \in Terminal \cup {"AWAITING_APPROVAL"})

(* A recorded approval is carried through to a completed run.               *)
ApprovalCompletes ==
    \A r \in Runs : (run[r].approval = "APPROVED") ~>
                       (run[r].approval = "APPROVED" /\ run[r].status = "COMPLETED")

-----------------------------------------------------------------------------
(* The promise to the user: each run goes through the approval gate once.   *)

Phase(r) ==
    IF run[r].approval = "APPROVED" THEN "approved"
    ELSE IF run[r].approval = "REJECTED" THEN "rejected"
    ELSE IF audit[r]["PASSED"] > 0 THEN "passed"
    ELSE CASE run[r].status = "NONE" -> "absent"
           [] run[r].status = "AWAITING_APPROVAL" -> "paused"
           [] run[r].status = "COMPLETED" -> "finished"
           [] run[r].status = "FAILED" -> "failed"
           [] OTHER -> "working"

Gate == INSTANCE ApprovalGate WITH
            phase <- [r \in Runs |-> Phase(r)],
            rows <- [r \in Runs |-> VerdictRows(r)]

(* The handlers and the executor implement the approval gate.               *)
ImplementsGate == Gate!Spec
=============================================================================
