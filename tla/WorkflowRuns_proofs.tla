------------------------ MODULE WorkflowRuns_proofs ------------------------
(***************************************************************************)
(* What WorkflowRuns guarantees for every set of runs, workers and admins, *)
(* every bound and every combination of faults.                            *)
(***************************************************************************)
EXTENDS WorkflowRuns, TLAPS

-----------------------------------------------------------------------------
(* The sets the type invariant is made of are closed under the writes.      *)

LEMMA RowTypes ==
    ASSUME NEW row \in Row
    PROVE  /\ UnpublishedRow(row) \in Row
           /\ FailedRow(row) \in Row
           /\ \A gate \in {"none", "passed", "approved"} : CompletedRow(row, gate) \in Row
           /\ PausedRow(row) \in Row
           /\ \A d \in Deciders : /\ DecidedRow(row, d, "APPROVED", "approved") \in Row
                                   /\ RejectedRow(row, d) \in Row
           /\ [row EXCEPT !.status = "PENDING"] \in Row
           /\ [row EXCEPT !.status = "RUNNING"] \in Row
<1>1. UnpublishedRow(row) \in Row /\ FailedRow(row) \in Row
  BY DEF Row, RunStatus, UnpublishedRow, FailedRow
<1>2. \A gate \in {"none", "passed", "approved"} : CompletedRow(row, gate) \in Row
  BY DEF Row, RunStatus, CompletedRow
<1>3. PausedRow(row) \in Row
  BY DEF Row, RunStatus, PausedRow
<1>4. ASSUME NEW d \in Deciders
      PROVE  /\ DecidedRow(row, d, "APPROVED", "approved") \in Row
             /\ RejectedRow(row, d) \in Row
  BY DEF Row, RunStatus, Verdicts, DecidedRow, RejectedRow
<1>5. [row EXCEPT !.status = "PENDING"] \in Row /\ [row EXCEPT !.status = "RUNNING"] \in Row
  BY DEF Row, RunStatus
<1> QED
  BY <1>1, <1>2, <1>3, <1>4, <1>5

(* The status each of those rows carries.                                   *)
LEMMA RowStatuses ==
    ASSUME NEW row \in Row
    PROVE  /\ UnpublishedRow(row).status = "FAILED"
           /\ FailedRow(row).status = "FAILED"
           /\ \A gate : CompletedRow(row, gate).status = "COMPLETED"
           /\ PausedRow(row).status = "AWAITING_APPROVAL"
           /\ \A d : /\ DecidedRow(row, d, "APPROVED", "approved").status = row.status
                     /\ RejectedRow(row, d).status = "REJECTED"
BY DEF Row, UnpublishedRow, FailedRow, CompletedRow, PausedRow, DecidedRow, RejectedRow

LEMMA AuditTypes ==
    ASSUME NEW r \in Runs, NEW kind \in AuditKind,
           audit \in [Runs -> [AuditKind -> Nat]], AddAudit(r, kind)
    PROVE  /\ audit' \in [Runs -> [AuditKind -> Nat]]
           /\ audit'[r][kind] > 0
           /\ \A s \in Runs, k \in AuditKind :
                 /\ audit[s][k] > 0 => audit'[s][k] > 0
                 /\ k # kind => audit'[s][k] = audit[s][k]
BY DEF AddAudit

LEMMA QueueTypes ==
    ASSUME NEW r \in Runs, NEW k \in 0..MaxRetries,
           queue \in [Runs -> [0..MaxRetries -> Nat]]
    PROVE  /\ Enqueue(r, k) => queue' \in [Runs -> [0..MaxRetries -> Nat]]
           /\ queue[r][k] > 0 =>
                [queue EXCEPT ![r][k] = @ - 1] \in [Runs -> [0..MaxRetries -> Nat]]
<1> DEFINE S == 0..MaxRetries
<1> HIDE DEF S
<1>1. queue \in [Runs -> [S -> Nat]] /\ k \in S
  BY DEF S
<1>2. Enqueue(r, k) => queue' \in [Runs -> [S -> Nat]]
  BY <1>1 DEF Enqueue
<1>3. queue[r][k] > 0 => [queue EXCEPT ![r][k] = @ - 1] \in [Runs -> [S -> Nat]]
  BY <1>1
<1> QED
  BY <1>2, <1>3 DEF S

-----------------------------------------------------------------------------
(* Type correctness.                                                        *)

LEMMA IdleTypes ==
    /\ IdleWorker \in WorkerState /\ IdleWorker.pc = "idle" /\ IdleWorker.run = NoRun
    /\ IdleDecider \in DeciderState /\ IdleDecider.pc = "idle" /\ IdleDecider.run = NoRun
BY BoundsAreNat DEF IdleWorker, WorkerState, IdleDecider, DeciderState, Verdicts,
                    WorkflowStatus

LEMMA InitType == Init => TypeOK
<1> SUFFICES ASSUME Init PROVE TypeOK
  OBVIOUS
<1>1. NoRow \in Row
  BY DEF NoRow, Row, RunStatus
<1>2. wf \in WorkflowRow
  BY DEF Init, WorkflowRow, WorkflowStatus
<1>3. [pc |-> "none", wfSeen |-> "DRAFT"] \in TriggerState
  BY DEF TriggerState, WorkflowStatus
<1>4. queue \in [Runs -> [0..MaxRetries -> Nat]]
  BY DEF Init
<1> QED
  BY <1>1, <1>2, <1>3, <1>4, IdleTypes DEF Init, TypeOK

(* Moving a process along its program keeps its record well typed.          *)
LEMMA WorkerTypes ==
    ASSUME worker \in [Workers -> WorkerState], NEW w \in Workers,
           NEW to \in {"loaded", "started", "executing", "dispatched", "audited", "finished"},
           NEW seen \in WorkflowStatus \cup {"NONE"}
    PROVE  /\ [worker EXCEPT ![w] = [@ EXCEPT !.pc = to, !.wfSeen = seen]] \in [Workers -> WorkerState]
           /\ [worker EXCEPT ![w] = IdleWorker] \in [Workers -> WorkerState]
<1>1. IdleWorker \in WorkerState
  BY IdleTypes
<1>2. [worker[w] EXCEPT !.pc = to, !.wfSeen = seen] \in WorkerState
  BY DEF WorkerState
<1> QED
  BY <1>1, <1>2

LEMMA DeciderTypes ==
    ASSUME decider \in [Deciders -> DeciderState], NEW d \in Deciders,
           NEW to \in {"dispatched", "decided"}
    PROVE  /\ [decider EXCEPT ![d].pc = to] \in [Deciders -> DeciderState]
           /\ [decider EXCEPT ![d] = IdleDecider] \in [Deciders -> DeciderState]
<1>1. IdleDecider \in DeciderState
  BY IdleTypes
<1>2. [decider[d] EXCEPT !.pc = to] \in DeciderState
  BY DEF DeciderState
<1> QED
  BY <1>1, <1>2
LEMMA TriggerTypes ==
    ASSUME trigger \in [Runs -> TriggerState], NEW r \in Runs,
           NEW to \in {"marked", "unpublished", "done"}
    PROVE  [trigger EXCEPT ![r].pc = to] \in [Runs -> TriggerState]
<1>1. [trigger[r] EXCEPT !.pc = to] \in TriggerState
  BY DEF TriggerState
<1> QED
  BY <1>1

LEMMA WorkflowTypes ==
    ASSUME wf \in WorkflowRow,
           NEW s \in {"PENDING", "RUNNING", "AWAITING_APPROVAL", "COMPLETED", "FAILED",
                      "REJECTED"}
    PROVE  /\ wf.status \in WorkflowStatus
           /\ SetStatus(s) => wf' \in WorkflowRow /\ wf'.template = wf.template
           /\ \A seen : SetStatusUnlessSeen(s, seen) =>
                           wf' \in WorkflowRow /\ wf'.template = wf.template
BY DEF WorkflowRow, WorkflowStatus, RunStatus, SetStatus, SetStatusUnlessSeen

-----------------------------------------------------------------------------
(* Every action keeps the types; one lemma per process.                     *)

LEMMA TriggerType ==
    ASSUME TypeOK, NEW r \in Runs, CreateRun(r) \/ Trigger(r) \/ TriggerCrash(r)
    PROVE  TypeOK'
<1>1. run[r] \in Row /\ 0 \in 0..MaxRetries
  BY BoundsAreNat DEF TypeOK
<1>2. CASE CreateRun(r)
  <2>1. run' \in [Runs -> Row]
    BY <1>1, <1>2, RowTypes DEF CreateRun, TypeOK
  <2>2. [pc |-> "created", wfSeen |-> wf.status] \in TriggerState
    BY WorkflowTypes DEF TypeOK, TriggerState
  <2> QED
    BY <1>2, <2>1, <2>2 DEF CreateRun, TypeOK
<1>3. CASE MarkWorkflowPending(r)
  BY <1>3, TriggerTypes, WorkflowTypes DEF MarkWorkflowPending, TypeOK
<1>4. CASE Publish(r)
  BY <1>1, <1>4, TriggerTypes, QueueTypes DEF Publish, dbVars, TypeOK
<1>5. CASE PublishRaises(r)
  BY <1>1, <1>5, TriggerTypes, QueueTypes DEF PublishRaises, dbVars, TypeOK
<1>6. CASE FailUnpublished(r)
  <2>1. run' \in [Runs -> Row]
    BY <1>1, <1>6, RowTypes DEF FailUnpublished, TypeOK
  <2> QED
    BY <1>6, <2>1, TriggerTypes, WorkflowTypes DEF FailUnpublished, TypeOK
<1>7. CASE TriggerCrash(r)
  BY <1>7, TriggerTypes DEF TriggerCrash, dbVars, TypeOK
<1> QED
  BY <1>2, <1>3, <1>4, <1>5, <1>6, <1>7 DEF Trigger

LEMMA AdvanceMoves ==
    ASSUME worker \in [Workers -> WorkerState], NEW w \in Workers, NEW from, NEW to, NEW seen,
           Advance(w, from, to, seen)
    PROVE  /\ UNCHANGED <<trigger, queue, decider, redelivered>>
           /\ \A v \in Workers : v # w => worker'[v] = worker[v]
           /\ worker[w].pc = from
           /\ worker'[w].pc = to /\ worker'[w].run = worker[w].run /\ worker'[w].wfSeen = seen
<1>1. worker'[w] = [worker[w] EXCEPT !.pc = to, !.wfSeen = seen]
  BY DEF Advance
<1>2. \A v \in Workers : v # w => worker'[v] = worker[v]
  BY DEF Advance
<1>3. worker[w] \in WorkerState
  OBVIOUS
<1>4. /\ worker'[w].pc = to /\ worker'[w].run = worker[w].run /\ worker'[w].wfSeen = seen
  BY <1>1, <1>3 DEF WorkerState
<1> QED
  BY <1>2, <1>4 DEF Advance

(* Where a worker's step takes it.                                          *)
Ends(w) == CompletePassed(w) \/ CompleteOther(w) \/ Pause(w) \/ FailRun(w)

LEMMA WorkerTurns ==
    ASSUME TypeOK, NEW w \in Workers,
           Execute(w) \/ Retry(w) \/ ChildKilled(w) \/ Redeliver(w)
    PROVE  /\ UNCHANGED <<trigger, decider>>
           /\ \A v \in Workers : v # w => worker'[v] = worker[v]
           /\ \/ Redeliver(w) /\ worker'[w] = worker[w]
              \/ /\ Ack(w) \/ Retry(w) \/ ChildKilled(w) \/ Redeliver(w)
                 /\ worker'[w] = IdleWorker
              \/ /\ worker'[w].run = worker[w].run
                 /\ UNCHANGED <<queue, redelivered>>
                 /\ \/ /\ LoadRun(w) /\ worker[w].pc = "received" /\ worker'[w].pc = "loaded"
                       /\ worker'[w].wfSeen = wf.status
                    \/ StartRun(w) /\ worker[w].pc = "loaded" /\ worker'[w].pc = "started"
                    \/ /\ Reload(w) /\ worker'[w].wfSeen = wf.status
                       /\ \/ /\ worker[w].pc \in {"started", "executing"}
                             /\ worker'[w].pc = "executing"
                          \/ worker[w].pc = "dispatched" /\ worker'[w].pc = "audited"
                    \/ /\ DispatchPassed(w) /\ worker[w].pc = "executing"
                       /\ worker'[w].pc = "dispatched"
                    \/ /\ Ends(w) /\ worker[w].pc \in {"executing", "dispatched", "audited"}
                       /\ worker'[w].pc = "finished"
<1>1. worker \in [Workers -> WorkerState]
  BY DEF TypeOK
<1>2. CASE Execute(w) /\ ~Ack(w)
  <2>1. CASE LoadRun(w)
    <3>1. Advance(w, "received", "loaded", wf.status)
      BY <2>1 DEF LoadRun
    <3> QED
      BY <1>1, <2>1, <3>1, AdvanceMoves
  <2>2. CASE StartRun(w)
    <3>1. Advance(w, "loaded", "started", "NONE")
      BY <2>2 DEF StartRun
    <3> QED
      BY <1>1, <2>2, <3>1, AdvanceMoves
  <2>3. CASE Reload(w)
    <3>1. \/ Advance(w, "started", "executing", wf.status)
          \/ Advance(w, "executing", "executing", wf.status)
          \/ Advance(w, "dispatched", "audited", wf.status)
      BY <2>3 DEF Reload
    <3> QED
      BY <1>1, <2>3, <3>1, AdvanceMoves
  <2>4. CASE DispatchPassed(w)
    <3>1. Advance(w, "executing", "dispatched", "NONE")
      BY <2>4 DEF DispatchPassed
    <3> QED
      BY <1>1, <2>4, <3>1, AdvanceMoves
  <2>5. CASE Ends(w)
    <3>1. \E from \in {"executing", "dispatched", "audited"} : Advance(w, from, "finished", "NONE")
      BY <2>5 DEF Ends, CompletePassed, CompleteOther, Pause, FailRun, Finish
    <3> QED
      BY <1>1, <2>5, <3>1, AdvanceMoves
  <2> QED
    BY <1>2, <2>1, <2>2, <2>3, <2>4, <2>5 DEF Execute, Ends
<1>3. CASE Ack(w) \/ Retry(w) \/ ChildKilled(w) \/ Redeliver(w)
  <2>1. /\ UNCHANGED <<trigger, decider>>
        /\ (worker' = worker /\ Redeliver(w)) \/ worker' = [worker EXCEPT ![w] = IdleWorker]
    BY <1>3 DEF Ack, Retry, ChildKilled, Redeliver
  <2>2. CASE worker' = worker /\ Redeliver(w)
    BY <2>1, <2>2
  <2>3. CASE worker' = [worker EXCEPT ![w] = IdleWorker]
    BY <1>1, <1>3, <2>1, <2>3
  <2> QED
    BY <2>1, <2>2, <2>3
<1> QED
  BY <1>2, <1>3

LEMMA WorkerWrites ==
    ASSUME TypeOK, NEW w \in Workers, worker[w].pc # "idle",
           Execute(w) \/ Retry(w) \/ ChildKilled(w) \/ Redeliver(w)
    PROVE  /\ wf' \in WorkflowRow /\ wf'.template = wf.template
           /\ \/ UNCHANGED wf
              \/ \E s \in {"RUNNING", "COMPLETED", "AWAITING_APPROVAL", "FAILED"} :
                    SetStatusUnlessSeen(s, worker[w].wfSeen)
<1> DEFINE r == worker[w].run
<1>1. r \in Runs /\ run[r] \in Row
  BY DEF TypeOK
<1>2. \/ UNCHANGED wf
      \/ \E s \in {"RUNNING", CompletedRow(run[r], "passed").status,
                   CompletedRow(run[r], "none").status, PausedRow(run[r]).status,
                   FailedRow(run[r]).status} : SetStatusUnlessSeen(s, worker[w].wfSeen)
  BY DEF Execute, LoadRun, StartRun, Reload, Finish, DispatchPassed, CompletePassed,
         CompleteOther, Pause, FailRun, Ack, Retry, ChildKilled, Redeliver, dbVars
<1>3. \/ UNCHANGED wf
      \/ \E s \in {"RUNNING", "COMPLETED", "AWAITING_APPROVAL", "FAILED"} :
            SetStatusUnlessSeen(s, worker[w].wfSeen)
  BY <1>1, <1>2, RowStatuses
<1> QED
  BY <1>3, WorkflowTypes DEF TypeOK

LEMMA WorkerType ==
    ASSUME TypeOK, NEW w \in Workers, worker[w].pc # "idle",
           Execute(w) \/ Retry(w) \/ ChildKilled(w) \/ Redeliver(w)
    PROVE  TypeOK'
<1> DEFINE r == worker[w].run
<1>1. r \in Runs /\ run[r] \in Row /\ worker[w].retries \in 0..MaxRetries
  BY DEF TypeOK, WorkerState
<1>2. worker \in [Workers -> WorkerState]
  BY DEF TypeOK
<1>3. wf.status \in WorkflowStatus
  BY WorkflowTypes DEF TypeOK
<1>4. /\ worker' \in [Workers -> WorkerState]
      /\ \A v \in Workers : worker'[v].pc # "idle" => worker'[v].run \in Runs
  <2>1. CASE UNCHANGED worker
    BY <1>2, <2>1 DEF TypeOK
  <2>2. CASE worker' = [worker EXCEPT ![w] = IdleWorker]
    BY <1>2, <2>2, IdleTypes DEF TypeOK
  <2>3. ASSUME NEW to \in {"loaded", "started", "executing", "dispatched", "audited",
                           "finished"},
               NEW seen \in {wf.status, "NONE"},
               worker' = [worker EXCEPT ![w] = [@ EXCEPT !.pc = to, !.wfSeen = seen]]
        PROVE  <1>4
    <3>2. seen \in WorkflowStatus \cup {"NONE"}
      BY <1>3
    <3>1. worker'[w].run = r /\ \A v \in Workers : v # w => worker'[v] = worker[v]
      BY <1>2, <2>3 DEF WorkerState
    <3> QED
      <4>1. worker' \in [Workers -> WorkerState]
        <5>1. [worker EXCEPT ![w] = [@ EXCEPT !.pc = to, !.wfSeen = seen]] \in [Workers -> WorkerState]
          BY <1>2, <3>2, WorkerTypes, Zenon
        <5> QED
          BY <2>3, <5>1
      <4> QED
        BY <1>1, <3>1, <4>1 DEF TypeOK
  <2> QED
    BY <2>1, <2>2, <2>3 DEF Execute, LoadRun, StartRun, Reload, Finish, DispatchPassed, CompletePassed, CompleteOther,
                      Pause, FailRun, Ack, Retry, ChildKilled, Redeliver, Advance
<1>5. wf' \in WorkflowRow
  BY WorkerWrites
<1>6. run' \in [Runs -> Row]
  <2> DEFINE Kept == UNCHANGED run
             Written(row) == run' = [run EXCEPT ![r] = row]
  <2>1. \/ Kept
        \/ Written([run[r] EXCEPT !.status = "RUNNING"])
        \/ Written(CompletedRow(run[r], "passed"))
        \/ Written(CompletedRow(run[r], "none"))
        \/ Written(PausedRow(run[r]))
        \/ Written(FailedRow(run[r]))
    BY <1>1 DEF TypeOK, Execute, LoadRun, StartRun, Reload, Finish, DispatchPassed, CompletePassed, CompleteOther, Pause,
           FailRun, Ack, Retry, ChildKilled, Redeliver, dbVars
  <2> QED
    BY <1>1, <2>1, RowTypes DEF TypeOK
<1>7. audit' \in [Runs -> [AuditKind -> Nat]]
  <2>1. UNCHANGED audit \/ AddAudit(r, "PASSED")
    BY DEF Execute, LoadRun, StartRun, Reload, Finish, DispatchPassed, CompletePassed, CompleteOther, Pause,
           FailRun, Ack, Retry, ChildKilled, Redeliver, dbVars
  <2> QED
    BY <1>1, <2>1, AuditTypes DEF TypeOK, AuditKind
<1>8. notified' \subseteq Runs
  BY <1>1 DEF TypeOK, Execute, LoadRun, StartRun, Reload, Finish, DispatchPassed, CompletePassed, CompleteOther, Pause,
         FailRun, Ack, Retry, ChildKilled, Redeliver, dbVars
<1>9. queue' \in [Runs -> [0..MaxRetries -> Nat]] /\ redelivered' \in Nat
  <2>1. CASE UNCHANGED <<queue, redelivered>>
    BY <2>1 DEF TypeOK
  <2>2. CASE Retry(w)
    <3>1. worker[w].retries < MaxRetries => worker[w].retries + 1 \in 0..MaxRetries
      BY <1>1, BoundsAreNat
    <3> QED
      BY <1>1, <2>2, <3>1, QueueTypes DEF Retry, TypeOK
  <2>3. CASE Redeliver(w)
    BY <1>1, <2>3, QueueTypes DEF Redeliver, TypeOK
  <2> QED
    BY <2>1, <2>2, <2>3 DEF Execute, LoadRun, StartRun, Reload, Finish, DispatchPassed, CompletePassed, CompleteOther,
                      Pause, FailRun, Ack, ChildKilled, Advance
<1>10. UNCHANGED <<trigger, decider>>
  BY DEF Execute, LoadRun, StartRun, Reload, Finish, DispatchPassed, CompletePassed, CompleteOther, Pause,
         FailRun, Ack, Retry, ChildKilled, Redeliver, Advance
<1> QED
  BY <1>4, <1>5, <1>6, <1>7, <1>8, <1>9, <1>10 DEF TypeOK
LEMMA ReceiveType ==
    ASSUME TypeOK, NEW w \in Workers, NEW r \in Runs, NEW k \in 0..MaxRetries,
           Receive(w, r, k)
    PROVE  TypeOK'
<1> DEFINE new == [pc |-> "received", run |-> r, retries |-> k, wfSeen |-> "NONE"]
<1>1. new \in WorkerState
  BY DEF WorkerState
<1>2. worker' = [worker EXCEPT ![w] = new]
  BY DEF Receive
<1>3. worker' \in [Workers -> WorkerState]
  BY <1>1, <1>2 DEF TypeOK
<1>4. \A v \in Workers : worker'[v].pc # "idle" => worker'[v].run \in Runs
  BY <1>2 DEF TypeOK
<1>5. queue' \in [Runs -> [0..MaxRetries -> Nat]]
  BY QueueTypes DEF Receive, TypeOK
<1> QED
  BY <1>3, <1>4, <1>5 DEF Receive, dbVars, TypeOK

LEMMA LoadType ==
    ASSUME TypeOK, NEW d \in Deciders, NEW r \in Runs, NEW v \in Verdicts,
           LoadPendingRun(d, r, v)
    PROVE  TypeOK'
<1> DEFINE new == [pc |-> "loaded", run |-> r, verdict |-> v, wfSeen |-> decider[d].wfSeen]
<1>1. decider[d] \in DeciderState
  BY DEF TypeOK
<1>2. new \in DeciderState
  BY <1>1 DEF DeciderState
<1>3. decider' = [decider EXCEPT ![d] = new]
  BY DEF LoadPendingRun
<1>4. decider' \in [Deciders -> DeciderState]
  BY <1>2, <1>3 DEF TypeOK
<1>5. \A e \in Deciders : decider'[e].pc \notin {"idle", "opened"} => decider'[e].run \in Runs
  BY <1>3 DEF TypeOK
<1> QED
  BY <1>4, <1>5 DEF LoadPendingRun, dbVars, TypeOK

(* A handler that has not loaded a run yet: it reads the workflow, or       *)
(* answers, or dies.                                                        *)
Visit(d) == OpenWorkflow(d) \/ Refuse(d) \/ (DecisionCrash(d) /\ decider[d].pc = "opened")

LEMMA VisitMoves ==
    ASSUME TypeOK, NEW d \in Deciders, Visit(d)
    PROVE  /\ UNCHANGED <<dbVars, trigger, queue, worker, redelivered>>
           /\ \A e \in Deciders : e # d => decider'[e] = decider[e]
           /\ decider[d].pc \in {"idle", "opened"}
           /\ decider'[d] \in DeciderState /\ decider'[d].run = NoRun
           /\ \/ decider'[d].pc = "idle"
              \/ decider'[d].pc = "opened" /\ decider'[d].wfSeen = wf.status
           /\ decider' \in [Deciders -> DeciderState]
<1> DEFINE new == [IdleDecider EXCEPT !.pc = "opened", !.wfSeen = wf.status]
<1>1. decider \in [Deciders -> DeciderState] /\ wf.status \in WorkflowStatus
  BY WorkflowTypes DEF TypeOK
<1>2. /\ new \in DeciderState /\ new.pc = "opened" /\ new.run = NoRun
      /\ new.wfSeen = wf.status
  BY <1>1, IdleTypes DEF DeciderState, IdleDecider
<1>3. /\ UNCHANGED <<dbVars, trigger, queue, worker, redelivered>>
      /\ decider[d].pc \in {"idle", "opened"}
      /\ decider' = [decider EXCEPT ![d] = IdleDecider] \/ decider' = [decider EXCEPT ![d] = new]
  BY DEF Visit, OpenWorkflow, Refuse, DecisionCrash, dbVars
<1>4. /\ \A e \in Deciders : e # d => decider'[e] = decider[e]
      /\ decider'[d] = IdleDecider \/ decider'[d] = new
      /\ decider' \in [Deciders -> DeciderState]
  BY <1>1, <1>2, <1>3, IdleTypes
<1> QED
  BY <1>2, <1>3, <1>4, IdleTypes

LEMMA VisitType ==
    ASSUME TypeOK, NEW d \in Deciders, Visit(d)
    PROVE  TypeOK'
<1>1. \A e \in Deciders : decider'[e].pc \notin {"idle", "opened"} => decider'[e].run \in Runs
  BY VisitMoves DEF TypeOK
<1> QED
  BY <1>1, VisitMoves DEF TypeOK, dbVars

LEMMA DeciderType ==
    ASSUME TypeOK, NEW d \in Deciders, decider[d].pc \notin {"idle", "opened"},
           Decide(d) \/ DecisionCrash(d)
    PROVE  TypeOK'
<1> DEFINE r == decider[d].run
<1>1. r \in Runs /\ run[r] \in Row
  BY DEF TypeOK
<1>2. decider \in [Deciders -> DeciderState]
  BY DEF TypeOK
<1>3. /\ decider' \in [Deciders -> DeciderState]
      /\ \A e \in Deciders : decider'[e].pc \notin {"idle", "opened"} => decider'[e].run \in Runs
  <2>1. CASE decider' = [decider EXCEPT ![d] = IdleDecider]
    BY <1>2, <2>1, IdleTypes DEF TypeOK
  <2>2. ASSUME NEW to \in {"dispatched", "decided"},
               decider' = [decider EXCEPT ![d].pc = to]
        PROVE  <1>3
    <3>1. decider'[d].run = r /\ \A e \in Deciders : e # d => decider'[e] = decider[e]
      BY <1>2, <2>2 DEF DeciderState
    <3> QED
      BY <1>1, <1>2, <2>2, <3>1, DeciderTypes DEF TypeOK
  <2> QED
    BY <2>1, <2>2 DEF Decide, CommitApproval, CompleteApproved, CommitRejection, LogDecision,
                      DecisionCrash, Step
<1>4. wf' \in WorkflowRow
  BY WorkflowTypes DEF TypeOK, Decide, CommitApproval, CompleteApproved, CommitRejection,
         LogDecision, DecisionCrash, dbVars
<1>5. run' \in [Runs -> Row]
  <2>1. \/ UNCHANGED run
        \/ run' = [run EXCEPT ![r] = DecidedRow(run[r], d, "APPROVED", "approved")]
        \/ run' = [run EXCEPT ![r] = CompletedRow(run[r], "approved")]
        \/ run' = [run EXCEPT ![r] = RejectedRow(run[r], d)]
    BY <1>1 DEF TypeOK, Decide, CommitApproval, CompleteApproved, CommitRejection,
           LogDecision, DecisionCrash, dbVars
  <2>2. /\ DecidedRow(run[r], d, "APPROVED", "approved") \in Row
        /\ CompletedRow(run[r], "approved") \in Row
        /\ RejectedRow(run[r], d) \in Row
    BY <1>1, RowTypes
  <2> QED
    BY <1>1, <2>1, <2>2 DEF TypeOK
<1>6. audit' \in [Runs -> [AuditKind -> Nat]]
  <2>1. UNCHANGED audit \/ \E kind \in AuditKind : AddAudit(r, kind)
    BY DEF AuditKind, Decide, CommitApproval, CompleteApproved, CommitRejection,
           LogDecision, DecisionCrash, dbVars
  <2> QED
    BY <1>1, <2>1, AuditTypes DEF TypeOK
<1>7. UNCHANGED <<notified, trigger, queue, worker, redelivered>>
  BY DEF Decide, CommitApproval, CompleteApproved, CommitRejection, LogDecision,
         DecisionCrash, Step, dbVars
<1> QED
  BY <1>3, <1>4, <1>5, <1>6, <1>7 DEF TypeOK

LEMMA BusyStep ==
    /\ \A w \in Workers : Execute(w) \/ Retry(w) \/ ChildKilled(w) \/ Redeliver(w) =>
                             worker[w].pc # "idle"
    /\ \A d \in Deciders :
          /\ Decide(d) => decider[d].pc \notin {"idle", "opened"}
          /\ DecisionCrash(d) => decider[d].pc \notin {"idle", "opened"} \/ Visit(d)
<1>1. ASSUME NEW w \in Workers, Execute(w) \/ Retry(w) \/ ChildKilled(w) \/ Redeliver(w)
      PROVE  worker[w].pc # "idle"
  BY <1>1 DEF Execute, LoadRun, StartRun, Reload, Finish, DispatchPassed, CompletePassed,
              CompleteOther, Pause, FailRun, Ack, Retry, ChildKilled, Redeliver, Advance
<1>2. ASSUME NEW d \in Deciders, Decide(d) PROVE decider[d].pc \notin {"idle", "opened"}
  BY <1>2 DEF Decide, CommitApproval, CompleteApproved, CommitRejection, LogDecision, Step
<1>3. ASSUME NEW d \in Deciders, DecisionCrash(d)
      PROVE  decider[d].pc \notin {"idle", "opened"} \/ Visit(d)
  BY <1>3 DEF DecisionCrash, Visit
<1> QED
  BY <1>1, <1>2, <1>3

LEMMA VisitOrDecide ==
    ASSUME NEW d \in Deciders, OpenWorkflow(d) \/ Refuse(d) \/ Decide(d) \/ DecisionCrash(d)
    PROVE  Visit(d) \/ (decider[d].pc # "opened" /\ (Decide(d) \/ DecisionCrash(d)))
BY BusyStep DEF Visit

LEMMA NextType == TypeOK /\ [Next]_vars => TypeOK'
<1> SUFFICES ASSUME TypeOK, [Next]_vars PROVE TypeOK'
  OBVIOUS
<1>1. CASE UNCHANGED vars
  BY <1>1 DEF vars, TypeOK
<1>2. CASE DeleteWorkflow
  BY <1>2 DEF DeleteWorkflow, WorkflowRow, TypeOK
<1> QED
  BY <1>1, <1>2, TriggerType, ReceiveType, WorkerType, LoadType, VisitType, DeciderType,
     BusyStep
  DEF Next, Visit

(* Type correctness of the workflow model, for any constants.               *)
THEOREM TypeCorrect == Spec => []TypeOK
BY InitType, NextType, PTL DEF Spec
-----------------------------------------------------------------------------
(* Safety.  A run is sound if its row agrees with its audit rows; the       *)
(* properties say that every run is.                                        *)

Sound(r, row, log, told, template) ==
    /\ (row.status = "AWAITING_APPROVAL" /\ row.approval = "PENDING") =>
         row.gate = "pending_approval" /\ ~row.dispatched /\ row.approver = NoAdmin
    /\ row.gate = "passed" => log["PASSED"] > 0
    /\ row.gate = "approved" => log["APPROVED"] > 0
    /\ row.approval = "APPROVED" => log["APPROVED"] > 0
    /\ log["workflow.approve"] > 0 => log["APPROVED"] > 0
    /\ (row.dispatched /\ template = "compliance-audit") => row.gate \in {"passed", "approved"}
    /\ (row.approver # NoAdmin) <=> (row.approval \in Verdicts)
    /\ r \in told => row.approval # "NULL"

AllSound == \A r \in Runs : Sound(r, run[r], audit[r], notified, wf.template)

LEMMA SoundMeans ==
    TypeOK /\ AllSound =>
        GateClosed /\ DispatchAudited /\ ApproverRecorded /\ NotifiedMeansGated
<1>1. AllSound => GateClosed /\ DispatchAudited /\ ApproverRecorded
  BY DEF AllSound, Sound, GateClosed, Decidable, DispatchAudited, ApproverRecorded
<1>2. TypeOK /\ AllSound => NotifiedMeansGated
  BY DEF AllSound, Sound, NotifiedMeansGated, TypeOK
<1> QED
  BY <1>1, <1>2

(* What the processes in flight rely on: a worker past the dispatch step    *)
(* and an approval past its first commit have their verdict row.            *)
WorkerBacked == \A w \in Workers :
    worker[w].pc \in {"dispatched", "audited"} => audit[worker[w].run]["PASSED"] > 0
DeciderBacked == \A d \in Deciders :
    (decider[d].pc \in {"dispatched", "decided"} /\ decider[d].verdict = "APPROVED")
      => audit[decider[d].run]["APPROVED"] > 0

(* The inductive invariant.                                                 *)
IInv == TypeOK /\ AllSound /\ WorkerBacked /\ DeciderBacked

(* Each write of a row keeps it sound, given the audit rows it relies on.   *)
LEMMA RowSound ==
    ASSUME NEW r, NEW row \in Row, NEW log \in [AuditKind -> Nat], NEW told,
           NEW template \in Templates, Sound(r, row, log, told, template)
    PROVE  /\ Sound(r, [row EXCEPT !.status = "PENDING"], log, told, template)
           /\ Sound(r, [row EXCEPT !.status = "RUNNING"], log, told, template)
           /\ Sound(r, UnpublishedRow(row), log, told, template)
           /\ Sound(r, FailedRow(row), log, told, template)
           /\ log["PASSED"] > 0 => Sound(r, CompletedRow(row, "passed"), log, told, template)
           /\ log["APPROVED"] > 0 => Sound(r, CompletedRow(row, "approved"), log, told, template)
           /\ template # "compliance-audit" =>
                Sound(r, CompletedRow(row, "none"), log, told, template)
           /\ Sound(r, PausedRow(row), log, told, template)
           /\ Sound(r, PausedRow(row), log, told \cup {r}, template)
BY DEF Sound, Row, AuditKind, Verdicts, UnpublishedRow, FailedRow, CompletedRow, PausedRow

LEMMA DecidedSound ==
    ASSUME NEW r, NEW row \in Row, NEW log \in [AuditKind -> Nat], NEW told,
           NEW template \in Templates, Sound(r, row, log, told, template), NEW d \in Deciders
    PROVE  /\ Sound(r, RejectedRow(row, d), log, told, template)
           /\ log["APPROVED"] > 0 =>
                Sound(r, DecidedRow(row, d, "APPROVED", "approved"), log, told, template)
BY NoneAreFresh DEF Sound, Row, AuditKind, Verdicts, DecidedRow, RejectedRow

(* More audit rows keep a run sound; an entry of an approval needs one.     *)
LEMMA LogSound ==
    ASSUME NEW r, NEW row, NEW log \in [AuditKind -> Nat], NEW told, NEW template,
           NEW kind \in AuditKind, Sound(r, row, log, told, template),
           kind = "workflow.approve" => log["APPROVED"] > 0
    PROVE  Sound(r, row, [log EXCEPT ![kind] = @ + 1], told, template)
BY DEF Sound, AuditKind

(* A step concerns one run; the others stay as they are.                    *)
LEMMA FrameSound ==
    ASSUME AllSound, NEW r \in Runs, wf'.template = wf.template,
           \A s \in Runs : s # r => /\ run'[s] = run[s]
                                    /\ audit'[s] = audit[s]
                                    /\ s \in notified' <=> s \in notified,
           Sound(r, run'[r], audit'[r], notified', wf.template)
    PROVE  AllSound'
<1>1. \A s \in Runs : Sound(s, run'[s], audit'[s], notified', wf.template)
  BY DEF AllSound, Sound
<1> QED
  BY <1>1 DEF AllSound
LEMMA InitSafe == Init => IInv
<1> SUFFICES ASSUME Init PROVE IInv
  OBVIOUS
<1>1. AllSound
  BY DEF Init, AllSound, Sound, NoRow, AuditKind, Verdicts
<1>2. WorkerBacked /\ DeciderBacked
  BY DEF Init, WorkerBacked, DeciderBacked, IdleWorker, IdleDecider
<1> QED
  BY <1>1, <1>2, InitType DEF IInv

(* The audit log only grows, so what is backed stays backed.                *)
LEMMA AuditGrows ==
    ASSUME IInv, NEW r \in Runs, NEW kind \in AuditKind,
           UNCHANGED audit \/ AddAudit(r, kind)
    PROVE  \A s \in Runs, k \in AuditKind : audit[s][k] > 0 => audit'[s][k] > 0
BY AuditTypes DEF IInv, TypeOK

(* The writes, in a state of the invariant.                                 *)
LEMMA WritesSound ==
    ASSUME IInv, NEW r \in Runs
    PROVE  LET Ok(row) == Sound(r, row, audit[r], notified, wf.template) IN
           /\ Ok(run[r])
           /\ Ok([run[r] EXCEPT !.status = "PENDING"])
           /\ Ok([run[r] EXCEPT !.status = "RUNNING"])
           /\ Ok(UnpublishedRow(run[r]))
           /\ Ok(FailedRow(run[r]))
           /\ audit[r]["PASSED"] > 0 => Ok(CompletedRow(run[r], "passed"))
           /\ audit[r]["APPROVED"] > 0 => Ok(CompletedRow(run[r], "approved"))
           /\ wf.template # "compliance-audit" => Ok(CompletedRow(run[r], "none"))
           /\ Ok(PausedRow(run[r]))
           /\ Sound(r, PausedRow(run[r]), audit[r], notified \cup {r}, wf.template)
           /\ \A d \in Deciders : Ok(RejectedRow(run[r], d))
<1>1. /\ run[r] \in Row /\ audit[r] \in [AuditKind -> Nat] /\ wf.template \in Templates
      /\ Sound(r, run[r], audit[r], notified, wf.template)
  BY DEF IInv, TypeOK, WorkflowRow, AllSound
<1> QED
  BY <1>1, RowSound, DecidedSound

LEMMA TriggerSafe ==
    ASSUME IInv, NEW r \in Runs, CreateRun(r) \/ Trigger(r) \/ TriggerCrash(r)
    PROVE  AllSound' /\ WorkerBacked' /\ DeciderBacked'
<1>1. /\ UNCHANGED <<audit, notified, worker, decider>>
      /\ wf'.template = wf.template
  BY WorkflowTypes DEF IInv, TypeOK, CreateRun, Trigger, MarkWorkflowPending, Publish,
         PublishRaises, FailUnpublished, TriggerCrash, dbVars
<1>2. \/ UNCHANGED run
      \/ run' = [run EXCEPT ![r] = [run[r] EXCEPT !.status = "PENDING"]]
      \/ run' = [run EXCEPT ![r] = UnpublishedRow(run[r])]
  BY DEF CreateRun, Trigger, MarkWorkflowPending, Publish, PublishRaises, FailUnpublished,
         TriggerCrash, dbVars, IInv, TypeOK
<1>3. \/ run'[r] = run[r]
      \/ run'[r] = [run[r] EXCEPT !.status = "PENDING"]
      \/ run'[r] = UnpublishedRow(run[r])
  BY <1>2 DEF IInv, TypeOK
<1>4. Sound(r, run'[r], audit[r], notified, wf.template)
  BY <1>3, WritesSound
<1>5. \A s \in Runs : s # r => run'[s] = run[s]
  BY <1>2 DEF IInv, TypeOK
<1>6. AllSound'
  BY <1>1, <1>4, <1>5, FrameSound DEF IInv
<1> QED
  BY <1>1, <1>6 DEF IInv, WorkerBacked, DeciderBacked
(* An added audit row, in a state of the invariant.                         *)
LEMMA AuditSound ==
    ASSUME IInv, NEW r \in Runs, NEW kind \in AuditKind, NEW row,
           Sound(r, row, audit[r], notified, wf.template), AddAudit(r, kind),
           kind = "workflow.approve" => audit[r]["APPROVED"] > 0
    PROVE  /\ Sound(r, row, audit'[r], notified, wf.template)
           /\ \A s \in Runs : s # r => audit'[s] = audit[s]
<1>1. audit[r] \in [AuditKind -> Nat] /\ audit \in [Runs -> [AuditKind -> Nat]]
  BY DEF IInv, TypeOK
<1>2. audit'[r] = [audit[r] EXCEPT ![kind] = @ + 1]
  BY <1>1 DEF AddAudit
<1>3. Sound(r, row, [audit[r] EXCEPT ![kind] = @ + 1], notified, wf.template)
  BY <1>1, LogSound
<1> QED
  BY <1>1, <1>2, <1>3 DEF AddAudit

LEMMA WorkerSafe ==
    ASSUME IInv, NEW w \in Workers, worker[w].pc # "idle",
           Execute(w) \/ Retry(w) \/ ChildKilled(w) \/ Redeliver(w)
    PROVE  AllSound' /\ WorkerBacked' /\ DeciderBacked'
<1> DEFINE r == worker[w].run
<1>1. r \in Runs /\ worker \in [Workers -> WorkerState] /\ run \in [Runs -> Row]
  BY DEF IInv, TypeOK
<1>2. wf'.template = wf.template
  BY WorkerWrites DEF IInv
<1>3. AllSound'
  <2>1. CASE UNCHANGED <<run, audit, notified>>
    BY <1>2, <2>1 DEF IInv, AllSound
  <2>2. CASE StartRun(w)
    <3>1. run'[r] = run[r] \/ run'[r] = [run[r] EXCEPT !.status = "RUNNING"]
      BY <1>1, <2>2 DEF StartRun
    <3>2. \A s \in Runs : s # r => run'[s] = run[s]
      BY <1>1, <2>2 DEF StartRun
    <3>3. UNCHANGED <<audit, notified>>
      BY <2>2 DEF StartRun
    <3>4. Sound(r, run'[r], audit[r], notified, wf.template)
      BY <1>1, <3>1, WritesSound
    <3> QED
      BY <1>1, <1>2, <3>2, <3>3, <3>4, FrameSound DEF IInv
  <2>3. CASE DispatchPassed(w)
    <3>1. Sound(r, run[r], audit'[r], notified, wf.template)
           /\ \A s \in Runs : s # r => audit'[s] = audit[s]
      BY <1>1, <2>3, WritesSound, AuditSound DEF DispatchPassed, AuditKind
    <3> QED
      BY <1>1, <1>2, <2>3, <3>1, FrameSound DEF DispatchPassed, IInv
  <2>4. CASE CompletePassed(w)
    <3>1. audit[r]["PASSED"] > 0
      BY <2>4 DEF IInv, WorkerBacked, CompletePassed, Finish, Advance
    <3>2. run'[r] = CompletedRow(run[r], "passed") /\ \A s \in Runs : s # r => run'[s] = run[s]
      BY <1>1, <2>4 DEF CompletePassed, Finish
    <3> QED
      BY <1>1, <1>2, <2>4, <3>1, <3>2, WritesSound, FrameSound DEF CompletePassed, Finish, IInv
  <2>5. CASE CompleteOther(w)
    <3>1. run'[r] = CompletedRow(run[r], "none") /\ \A s \in Runs : s # r => run'[s] = run[s]
      BY <1>1, <2>5 DEF CompleteOther, Finish
    <3> QED
      BY <1>1, <1>2, <2>5, <3>1, WritesSound, FrameSound DEF CompleteOther, Finish, IInv
  <2>6. CASE Pause(w)
    <3>1. run'[r] = PausedRow(run[r]) /\ \A s \in Runs : s # r => run'[s] = run[s]
      BY <1>1, <2>6 DEF Pause, Finish
    <3>2. /\ notified' = notified \/ notified' = notified \cup {r}
          /\ UNCHANGED audit
      BY <2>6 DEF Pause, Finish
    <3>3. Sound(r, run'[r], audit'[r], notified', wf.template)
      BY <1>1, <3>1, <3>2, WritesSound
    <3>4. \A s \in Runs : s # r => (s \in notified' <=> s \in notified)
      BY <3>2
    <3> QED
      BY <1>1, <1>2, <3>1, <3>2, <3>3, <3>4, FrameSound DEF IInv
  <2>7. CASE FailRun(w)
    <3>1. run'[r] = FailedRow(run[r]) /\ \A s \in Runs : s # r => run'[s] = run[s]
      BY <1>1, <2>7 DEF FailRun, Finish
    <3>2. UNCHANGED <<audit, notified>>
      BY <2>7 DEF FailRun
    <3>3. Sound(r, run'[r], audit[r], notified, wf.template)
      BY <1>1, <3>1, WritesSound
    <3> QED
      BY <1>1, <1>2, <3>1, <3>2, <3>3, FrameSound DEF IInv
  <2> QED
    BY <2>1, <2>2, <2>3, <2>4, <2>5, <2>6, <2>7
    DEF Execute, LoadRun, Reload, Ack, Retry, ChildKilled, Redeliver, dbVars
<1>4. UNCHANGED audit \/ AddAudit(r, "PASSED")
  BY DEF Execute, LoadRun, StartRun, Reload, Finish, DispatchPassed, CompletePassed, CompleteOther, Pause,
         FailRun, Ack, Retry, ChildKilled, Redeliver, dbVars
<1>5. \A s \in Runs, k \in AuditKind : audit[s][k] > 0 => audit'[s][k] > 0
  BY <1>1, <1>4, AuditGrows DEF AuditKind
<1>6. /\ \A v \in Workers : v # w => worker'[v] = worker[v]
      /\ worker'[w].pc \in {"dispatched", "audited"} =>
           \/ worker'[w].run = r /\ DispatchPassed(w)
           \/ worker'[w].run = r /\ worker[w].pc \in {"dispatched", "audited"}
  BY WorkerTurns, IdleTypes DEF IInv
<1>7. DispatchPassed(w) => audit'[r]["PASSED"] > 0
  BY <1>1, AuditTypes DEF DispatchPassed, IInv, TypeOK, AuditKind
<1>8. WorkerBacked'
  <2> SUFFICES ASSUME NEW v \in Workers,
                      worker'[v].pc \in {"dispatched", "audited"}
               PROVE  audit'[worker'[v].run]["PASSED"] > 0
    BY DEF WorkerBacked
  <2>1. CASE worker'[v].run = worker[v].run /\ worker[v].pc \in {"dispatched", "audited"}
    <3>1. worker[v].run \in Runs /\ audit[worker[v].run]["PASSED"] > 0
      BY <2>1 DEF IInv, TypeOK, WorkerBacked
    <3> QED
      BY <1>5, <2>1, <3>1 DEF AuditKind
  <2> QED
    BY <1>6, <1>7, <2>1
<1>9. UNCHANGED decider
  BY DEF Execute, LoadRun, StartRun, Reload, Finish, DispatchPassed, CompletePassed, CompleteOther, Pause,
         FailRun, Ack, Retry, ChildKilled, Redeliver, Advance
<1>10. DeciderBacked'
  BY <1>5, <1>9 DEF DeciderBacked, IInv, TypeOK, AuditKind
<1> QED
  BY <1>3, <1>8, <1>10

LEMMA DeciderSafe ==
    ASSUME IInv, NEW d \in Deciders, decider[d].pc \notin {"idle", "opened"},
           Decide(d) \/ DecisionCrash(d)
    PROVE  AllSound' /\ WorkerBacked' /\ DeciderBacked'
<1> DEFINE r == decider[d].run
<1>1. r \in Runs /\ decider \in [Deciders -> DeciderState] /\ run \in [Runs -> Row]
  BY DEF IInv, TypeOK
<1>2. wf'.template = wf.template
  BY WorkflowTypes DEF IInv, TypeOK, Decide, CommitApproval, CompleteApproved,
         CommitRejection, LogDecision, DecisionCrash, dbVars
<1>3. AllSound'
  <2>1. CASE CommitApproval(d)
    <3>1. /\ run'[r] = DecidedRow(run[r], d, "APPROVED", "approved")
          /\ \A s \in Runs : s # r => run'[s] = run[s]
          /\ AddAudit(r, "APPROVED") /\ UNCHANGED notified
      BY <1>1, <2>1 DEF CommitApproval
    <3>2. /\ Sound(r, run[r], audit'[r], notified, wf.template)
          /\ \A s \in Runs : s # r => audit'[s] = audit[s]
      BY <1>1, <3>1, WritesSound, AuditSound DEF AuditKind
    <3>3. /\ audit'[r] \in [AuditKind -> Nat] /\ audit'[r]["APPROVED"] > 0
          /\ run[r] \in Row /\ wf.template \in Templates
      BY <1>1, <3>1, AuditTypes DEF IInv, TypeOK, AuditKind, WorkflowRow
    <3>4. Sound(r, run'[r], audit'[r], notified, wf.template)
      BY <3>1, <3>2, <3>3, DecidedSound
    <3> QED
      BY <1>1, <1>2, <3>1, <3>2, <3>4, FrameSound DEF IInv
  <2>2. CASE CompleteApproved(d)
    <3>1. audit[r]["APPROVED"] > 0
      BY <2>2 DEF IInv, DeciderBacked, CompleteApproved, Step
    <3>2. run'[r] = CompletedRow(run[r], "approved") /\ \A s \in Runs : s # r => run'[s] = run[s]
      BY <1>1, <2>2 DEF CompleteApproved
    <3> QED
      BY <1>1, <1>2, <2>2, <3>1, <3>2, WritesSound, FrameSound DEF CompleteApproved, IInv
  <2>3. CASE CommitRejection(d)
    <3>1. run'[r] = RejectedRow(run[r], d) /\ \A s \in Runs : s # r => run'[s] = run[s]
      BY <1>1, <2>3 DEF CommitRejection
    <3> QED
      BY <1>1, <1>2, <2>3, <3>1, WritesSound, FrameSound DEF CommitRejection, IInv
  <2>4. CASE LogDecision(d)
    <3> DEFINE kind == IF decider[d].verdict = "APPROVED" THEN "workflow.approve"
                                                           ELSE "workflow.reject"
    <3>1. kind \in AuditKind /\ AddAudit(r, kind) /\ UNCHANGED <<run, notified>>
      BY <2>4 DEF LogDecision, AuditKind
    <3>2. kind = "workflow.approve" => audit[r]["APPROVED"] > 0
      BY <2>4 DEF LogDecision, IInv, DeciderBacked
    <3>3. Sound(r, run[r], audit[r], notified, wf.template)
      BY <1>1, WritesSound
    <3> HIDE DEF kind
    <3>4. /\ Sound(r, run[r], audit'[r], notified, wf.template)
          /\ \A s \in Runs : s # r => audit'[s] = audit[s]
      BY <1>1, <3>1, <3>2, <3>3, AuditSound
    <3> QED
      BY <1>1, <1>2, <3>1, <3>4, FrameSound DEF IInv
  <2>5. CASE DecisionCrash(d)
    BY <1>2, <2>5 DEF DecisionCrash, dbVars, IInv, AllSound
  <2> QED
    BY <2>1, <2>2, <2>3, <2>4, <2>5 DEF Decide
<1>4. UNCHANGED audit \/ \E kind \in AuditKind : AddAudit(r, kind)
  BY DEF AuditKind, Decide, CommitApproval, CompleteApproved, CommitRejection,
         LogDecision, DecisionCrash, dbVars
<1>5. \A s \in Runs, k \in AuditKind : audit[s][k] > 0 => audit'[s][k] > 0
  BY <1>1, <1>4, AuditGrows
<1>6. WorkerBacked'
  <2>1. UNCHANGED worker
    BY DEF Decide, CommitApproval, CompleteApproved, CommitRejection, LogDecision,
           DecisionCrash, Step
  <2> QED
    BY <1>5, <2>1 DEF WorkerBacked, IInv, TypeOK, AuditKind
<1>7. DeciderBacked'
  <2> DEFINE Claims(x) == x.pc \in {"dispatched", "decided"} /\ x.verdict = "APPROVED"
  <2> SUFFICES ASSUME NEW e \in Deciders, Claims(decider'[e])
               PROVE  audit'[decider'[e].run]["APPROVED"] > 0
    BY DEF DeciderBacked
  <2>1. CASE Claims(decider[e]) /\ decider'[e].run = decider[e].run
    <3>1. decider[e].run \in Runs /\ audit[decider[e].run]["APPROVED"] > 0
      BY <2>1 DEF IInv, TypeOK, DeciderBacked
    <3> QED
      BY <1>5, <2>1, <3>1 DEF AuditKind
  <2>2. CASE CommitApproval(d) /\ decider'[e].run = r
    BY <1>1, <2>2, AuditTypes DEF CommitApproval, IInv, TypeOK, AuditKind
  <2>3. e # d => decider'[e] = decider[e]
    BY <1>1 DEF Decide, CommitApproval, CompleteApproved, CommitRejection, LogDecision,
                DecisionCrash, Step
  <2>4. CASE e = d
    <3>1. CASE CommitApproval(d)
      BY <1>1, <2>2, <2>4, <3>1 DEF CommitApproval, Step, DeciderState
    <3>2. CASE CompleteApproved(d)
      BY <1>1, <2>1, <2>4, <3>2 DEF CompleteApproved, Step, DeciderState
    <3>3. CASE CommitRejection(d)
      <4>1. decider'[d].verdict = "REJECTED"
        BY <1>1, <3>3 DEF CommitRejection, Step, DeciderState
      <4> QED
        BY <2>4, <4>1
    <3>4. CASE LogDecision(d) \/ DecisionCrash(d)
      <4>1. decider'[d].pc = "idle"
        BY <1>1, <3>4, IdleTypes DEF LogDecision, DecisionCrash
      <4> QED
        BY <2>4, <4>1
    <3> QED
      BY <3>1, <3>2, <3>3, <3>4 DEF Decide
  <2> QED
    BY <2>1, <2>3, <2>4
<1> QED
  BY <1>3, <1>6, <1>7

LEMMA NextSafe == IInv /\ [Next]_vars => IInv'
<1> SUFFICES ASSUME IInv, [Next]_vars PROVE IInv'
  OBVIOUS
<1>1. TypeOK'
  BY NextType DEF IInv
<1>2. AllSound' /\ WorkerBacked' /\ DeciderBacked'
  <2>1. CASE UNCHANGED vars
    BY <2>1 DEF vars, IInv, AllSound, WorkerBacked, DeciderBacked
  <2>2. CASE DeleteWorkflow
    <3>1. wf'.template = wf.template
      BY <2>2 DEF DeleteWorkflow, IInv, TypeOK, WorkflowRow
    <3> QED
      BY <2>2, <3>1 DEF DeleteWorkflow, IInv, AllSound, WorkerBacked, DeciderBacked
  <2>3. ASSUME NEW w \in Workers, NEW r \in Runs, NEW k \in 0..MaxRetries, Receive(w, r, k)
        PROVE  <1>2
    <3>1. /\ \A v \in Workers : worker'[v] = worker[v] \/ worker'[v].pc = "received"
          /\ UNCHANGED <<wf, run, audit, notified, decider>>
      BY <2>3 DEF Receive, dbVars, IInv, TypeOK
    <3> QED
      BY <3>1 DEF IInv, AllSound, WorkerBacked, DeciderBacked
  <2>4. ASSUME NEW d \in Deciders, NEW r \in Runs, NEW v \in Verdicts, LoadPendingRun(d, r, v)
        PROVE  <1>2
    <3>1. /\ \A e \in Deciders : decider'[e] = decider[e] \/ decider'[e].pc = "loaded"
          /\ UNCHANGED <<wf, run, audit, notified, worker>>
      BY <2>4 DEF LoadPendingRun, dbVars, IInv, TypeOK
    <3> QED
      BY <3>1 DEF IInv, AllSound, WorkerBacked, DeciderBacked
  <2>5. ASSUME NEW d \in Deciders, Visit(d) PROVE <1>2
    <3>1. /\ \A e \in Deciders : decider'[e] = decider[e] \/ decider'[e].pc \in {"idle", "opened"}
          /\ UNCHANGED <<wf, run, audit, notified, worker>>
      BY <2>5, VisitMoves DEF dbVars, IInv
    <3> QED
      BY <3>1 DEF IInv, AllSound, WorkerBacked, DeciderBacked
  <2>6. ASSUME NEW d \in Deciders, OpenWorkflow(d) \/ Refuse(d) \/ Decide(d) \/ DecisionCrash(d)
        PROVE  <1>2
    BY <2>5, <2>6, DeciderSafe, BusyStep DEF Visit
  <2> QED
    BY <2>1, <2>2, <2>3, <2>4, <2>6, TriggerSafe, WorkerSafe, BusyStep DEF Next
<1> QED
  BY <1>1, <1>2 DEF IInv

(* The inductive invariant holds in every reachable state.                  *)
THEOREM Invariance == Spec => []IInv
BY InitSafe, NextSafe, PTL DEF Spec

(* A run the API would still accept a decision on shows an undecided gate,  *)
(* nothing past it and no approver, however decisions, executions, crashes  *)
(* and redeliveries interleave.                                             *)
THEOREM GateStaysClosed == Spec => []GateClosed
<1>1. IInv => GateClosed
  BY SoundMeans DEF IInv
<1> QED
  BY <1>1, Invariance, PTL

(* No row shows a passed or approved gate, an approval or a dispatched step *)
(* without the verdict row that the audit log owes it.                      *)
THEOREM DispatchIsAudited == Spec => []DispatchAudited
<1>1. IInv => DispatchAudited
  BY SoundMeans DEF IInv
<1> QED
  BY <1>1, Invariance, PTL

(* approved_by is set exactly while approval_status is a decision.          *)
THEOREM ApproverIsRecorded == Spec => []ApproverRecorded
<1>1. IInv => ApproverRecorded
  BY SoundMeans DEF IInv
<1> QED
  BY <1>1, Invariance, PTL

(* Nobody is told of a pause that was not committed.                        *)
THEOREM NotifiedRunsWereGated == Spec => []NotifiedMeansGated
<1>1. IInv => NotifiedMeansGated
  BY SoundMeans DEF IInv
<1> QED
  BY <1>1, Invariance, PTL
-----------------------------------------------------------------------------
(* One execution, one decision.  What follows assumes that the broker hands *)
(* every message out once (child processes and API processes may die, but   *)
(* nothing is redelivered, retried or published ambiguously) and that no    *)
(* two decisions on the same run are in flight together: the handlers take  *)
(* no row lock, so nothing in the code enforces the latter.                 *)

SerialDecisions ==
    \A d, e \in Deciders :
        (decider[d].run # NoRun /\ decider[d].run = decider[e].run) => d = e

(* A process that does nothing, or has only opened the workflow, is at no   *)
(* run.                                                                     *)
Parked ==
    /\ \A w \in Workers : worker[w].pc = "idle" => worker[w].run = NoRun
    /\ \A d \in Deciders : decider[d].pc \in {"idle", "opened"} => decider[d].run = NoRun

(* A run's message exists only after its handler published it, once, and    *)
(* is in one place: the queue or one worker.                                *)
OneMessage ==
    /\ \A r \in Runs : queue[r][0] \in {0, 1} /\ \A k \in 1..MaxRetries : queue[r][k] = 0
    /\ \A r \in Runs : trigger[r].pc # "done" => queue[r][0] = 0
    /\ \A w \in Workers : worker[w].pc # "idle" =>
          /\ trigger[worker[w].run].pc = "done"
          /\ queue[worker[w].run][0] = 0
    /\ \A v, w \in Workers :
          (worker[v].pc # "idle" /\ worker[w].pc # "idle" /\ worker[v].run = worker[w].run)
            => v = w

(* What a row and its verdict rows look like at each status.                *)
Untouched(row) == row.approval = "NULL" /\ row.gate = "none" /\ ~row.dispatched

Verdict(log, passed, approved) == log["PASSED"] = passed /\ log["APPROVED"] = approved

Story(row, log, template) ==
    /\ row.status \in {"NONE", "PENDING", "FAILED"} => Untouched(row) /\ Verdict(log, 0, 0)
    /\ row.status = "RUNNING" =>
          /\ Untouched(row)
          /\ Verdict(log, 0, 0) \/ (Verdict(log, 1, 0) /\ template = "compliance-audit")
    /\ row.status = "AWAITING_APPROVAL" =>
          \/ row.approval = "PENDING" /\ ~row.dispatched /\ Verdict(log, 0, 0)
          \/ row.approval = "APPROVED" /\ row.gate = "approved" /\ Verdict(log, 0, 1)
    /\ row.status = "COMPLETED" =>
          /\ row.dispatched
          /\ \/ row.approval = "APPROVED" /\ row.gate = "approved" /\ Verdict(log, 0, 1)
             \/ /\ row.approval = "NULL" /\ row.gate = "passed" /\ Verdict(log, 1, 0)
             \/ row.approval = "NULL" /\ template # "compliance-audit" /\ Verdict(log, 0, 0)
    /\ row.status = "REJECTED" =>
          row.approval = "REJECTED" /\ ~row.dispatched /\ Verdict(log, 0, 0)
    /\ row.status \notin {"FAILED"} => ~row.error

Stories == \A r \in Runs : Story(run[r], audit[r], wf.template)

(* What each process that is at a run knows of its row.                     *)
TriggerFits(x, row) ==
    /\ x.pc = "none" => row.status = "NONE"
    /\ x.pc \in {"created", "marked", "unpublished"} => row.status = "PENDING"

WorkerFits(x, row, log) ==
    /\ x.pc \in {"received", "loaded"} => row.status = "PENDING"
    /\ x.pc \in {"started", "executing"} => row.status = "RUNNING" /\ log["PASSED"] = 0
    /\ x.pc \in {"dispatched", "audited"} => row.status = "RUNNING" /\ log["PASSED"] = 1

DeciderFits(x, row) ==
    /\ x.pc = "loaded" => row.status = "AWAITING_APPROVAL" /\ row.approval = "PENDING"
    /\ x.pc = "dispatched" =>
          x.verdict = "APPROVED" /\ row.status = "AWAITING_APPROVAL" /\ row.approval = "APPROVED"
    /\ x.pc = "decided" =>
          row.approval = x.verdict /\ row.status \in {"COMPLETED", "REJECTED"}

Fitting ==
    /\ \A r \in Runs : TriggerFits(trigger[r], run[r])
    /\ \A r \in Runs : queue[r][0] > 0 => run[r].status = "PENDING"
    /\ \A w \in Workers : worker[w].pc # "idle" =>
          WorkerFits(worker[w], run[worker[w].run], audit[worker[w].run])
    /\ \A d \in Deciders : decider[d].pc \notin {"idle", "opened"} =>
          DeciderFits(decider[d], run[decider[d].run])

SInv == TypeOK /\ Parked /\ OneMessage /\ Stories /\ Fitting

LogFits(row, log, open) ==
    /\ log["workflow.approve"] = IF row.approval = "APPROVED" /\ ~open THEN 1 ELSE 0
    /\ log["workflow.reject"] = IF row.approval = "REJECTED" /\ ~open THEN 1 ELSE 0

Open(r) == \E d \in Deciders : decider[d].run = r
Logged == \A r \in Runs : LogFits(run[r], audit[r], Open(r))

(* The run that wrote the workflow's status last; a worker that goes on     *)
(* with it will not mistake the column for already written.                 *)
Holding == {"loaded", "executing", "audited"}

LastWriter(r) ==
    /\ run[r].status = wf.status
    /\ \A w \in Workers : (worker[w].run = r /\ worker[w].pc \in Holding)
                              => worker[w].wfSeen = run[r].status

(* Nobody has written the workflow's status yet.                            *)
Unmarked ==
    /\ wf.status = "DRAFT"
    /\ \A r \in Runs : \/ trigger[r].pc = "none"
                       \/ trigger[r].pc = "created" /\ trigger[r].wfSeen = "DRAFT"

(* A decision was not written, because its handler had loaded the status    *)
(* from a time when another run had ended the same way.                     *)
Skipped == wf.status = "AWAITING_APPROVAL" /\ \E r, s \in Runs : SkippedBy(r, s)

(* Behind a decided status that the column shows, or that a handler has     *)
(* loaded, there is a run that ended so.                                    *)
Behind(status) ==
    status \in {"COMPLETED", "REJECTED"} => \E r \in Runs : run[r].status = status

Reading == {"opened", "loaded", "dispatched"}

Remembered ==
    /\ Behind(wf.status)
    /\ \A d \in Deciders : decider[d].pc \in Reading => Behind(decider[d].wfSeen)

Reflected ==
    /\ Unmarked \/ (\E r \in Runs : LastWriter(r)) \/ Skipped
    /\ Remembered

-----------------------------------------------------------------------------
(* How the processes move: each step moves one, and only publishing, taking *)
(* and finishing a message changes where the message is.                    *)

DeliveredOnce == Faults \subseteq {"kill", "api"}

LEMMA TriggerMoves ==
    ASSUME DeliveredOnce, TypeOK, NEW r \in Runs,
           CreateRun(r) \/ Trigger(r) \/ TriggerCrash(r)
    PROVE  /\ UNCHANGED <<worker, decider>>
           /\ \A s \in Runs : s # r => trigger'[s] = trigger[s] /\ queue'[s] = queue[s]
           /\ trigger'[r].pc # "none"
           /\ trigger[r].pc # "done"
           /\ \/ queue'[r] = queue[r]
              \/ /\ trigger'[r].pc = "done" /\ Publish(r)
                 /\ queue'[r] = [queue[r] EXCEPT ![0] = @ + 1]
<1>1. /\ trigger \in [Runs -> TriggerState]
      /\ queue \in [Runs -> [0..MaxRetries -> Nat]]
      /\ "publish" \notin Faults
  BY DEF TypeOK, DeliveredOnce
<1>2. \A to : trigger' = [trigger EXCEPT ![r].pc = to] => trigger'[r].pc = to
  BY <1>1 DEF TriggerState
<1>3. CASE CreateRun(r)
  BY <1>1, <1>3 DEF CreateRun
<1>4. CASE MarkWorkflowPending(r)
  BY <1>1, <1>2, <1>4 DEF MarkWorkflowPending
<1>5. CASE Publish(r)
  BY <1>1, <1>2, <1>5 DEF Publish, Enqueue, dbVars
<1>6. CASE PublishRaises(r)
  BY <1>1, <1>2, <1>6 DEF PublishRaises, dbVars
<1>7. CASE FailUnpublished(r)
  BY <1>1, <1>2, <1>7 DEF FailUnpublished
<1>8. CASE TriggerCrash(r)
  BY <1>1, <1>2, <1>8 DEF TriggerCrash, dbVars
<1> QED
  BY <1>3, <1>4, <1>5, <1>6, <1>7, <1>8 DEF Trigger

LEMMA WorkerMoves ==
    ASSUME DeliveredOnce, TypeOK, NEW w \in Workers,
           Execute(w) \/ Retry(w) \/ ChildKilled(w) \/ Redeliver(w)
    PROVE  /\ Execute(w) \/ ChildKilled(w)
           /\ UNCHANGED <<trigger, queue, decider>>
           /\ \A v \in Workers : v # w => worker'[v] = worker[v]
           /\ worker[w].pc # "idle"
           /\ \/ worker'[w] = IdleWorker
              \/ worker'[w].run = worker[w].run /\ worker'[w].pc # "idle"
<1>1. Execute(w) \/ ChildKilled(w)
  BY DEF DeliveredOnce, Retry, Redeliver
<1>2. UNCHANGED queue
  BY <1>1 DEF Execute, LoadRun, StartRun, Reload, Finish, DispatchPassed, CompletePassed,
              CompleteOther, Pause, FailRun, Ack, ChildKilled, Advance
<1>3. ~Redeliver(w)
  BY DEF DeliveredOnce, Redeliver
<1> QED
  BY <1>1, <1>2, <1>3, WorkerTurns, BusyStep

LEMMA ReceiveMoves ==
    ASSUME TypeOK, NEW w \in Workers, NEW r \in Runs, NEW k \in 0..MaxRetries,
           Receive(w, r, k)
    PROVE  /\ UNCHANGED <<dbVars, trigger, decider>>
           /\ \A v \in Workers : v # w => worker'[v] = worker[v]
           /\ worker'[w].pc = "received" /\ worker'[w].run = r
           /\ queue[r][k] > 0
           /\ \A s \in Runs : s # r => queue'[s] = queue[s]
           /\ queue'[r] = [queue[r] EXCEPT ![k] = @ - 1]
<1>1. worker \in [Workers -> WorkerState] /\ queue \in [Runs -> [0..MaxRetries -> Nat]]
  BY DEF TypeOK
<1> QED
  BY <1>1 DEF Receive

LEMMA DeciderMoves ==
    ASSUME TypeOK, NEW d \in Deciders, decider[d].pc # "opened",
           Decide(d) \/ DecisionCrash(d)
    PROVE  /\ UNCHANGED <<trigger, queue, worker>>
           /\ \A e \in Deciders : e # d => decider'[e] = decider[e]
           /\ decider[d].pc \notin {"idle", "opened"}
           /\ \/ decider'[d] = IdleDecider /\ (LogDecision(d) \/ DecisionCrash(d))
              \/ /\ decider'[d].run = decider[d].run
                 /\ decider'[d].verdict = decider[d].verdict
                 /\ decider'[d].wfSeen = decider[d].wfSeen
                 /\ \/ decider'[d].pc = "dispatched" /\ CommitApproval(d)
                    \/ decider'[d].pc = "decided" /\ (CompleteApproved(d) \/ CommitRejection(d))
<1>1. decider \in [Deciders -> DeciderState]
  BY DEF TypeOK
<1>2. \A to : decider' = [decider EXCEPT ![d].pc = to] =>
                 /\ decider'[d].pc = to /\ decider'[d].run = decider[d].run
                 /\ decider'[d].verdict = decider[d].verdict
                 /\ decider'[d].wfSeen = decider[d].wfSeen
  BY <1>1 DEF DeciderState
<1>3. UNCHANGED <<trigger, queue, worker>>
  BY DEF Decide, CommitApproval, CompleteApproved, CommitRejection, LogDecision, DecisionCrash,
         Step, dbVars
<1>4. \/ decider' = [decider EXCEPT ![d] = IdleDecider] /\ (LogDecision(d) \/ DecisionCrash(d))
      \/ decider' = [decider EXCEPT ![d].pc = "dispatched"] /\ CommitApproval(d)
      \/ /\ decider' = [decider EXCEPT ![d].pc = "decided"]
         /\ CompleteApproved(d) \/ CommitRejection(d)
  BY DEF Decide, CommitApproval, CompleteApproved, CommitRejection, LogDecision, DecisionCrash,
         Step
<1>5. \A e \in Deciders : e # d => decider'[e] = decider[e]
  BY <1>1, <1>4
<1> QED
  BY <1>1, <1>2, <1>3, <1>4, <1>5, BusyStep DEF DecisionCrash

LEMMA LoadMoves ==
    ASSUME TypeOK, NEW d \in Deciders, NEW r \in Runs, NEW v \in Verdicts,
           LoadPendingRun(d, r, v)
    PROVE  /\ UNCHANGED <<dbVars, trigger, queue, worker>>
           /\ \A e \in Deciders : e # d => decider'[e] = decider[e]
           /\ decider[d].pc = "opened" /\ Decidable(r)
           /\ decider'[d] = [pc |-> "loaded", run |-> r, verdict |-> v,
                             wfSeen |-> decider[d].wfSeen]
BY DEF LoadPendingRun, TypeOK

LEMMA OneCell ==
    ASSUME NEW q \in [0..MaxRetries -> Nat]
    PROVE  /\ [q EXCEPT ![0] = @ + 1][0] = q[0] + 1
           /\ [q EXCEPT ![0] = @ - 1][0] = q[0] - 1
           /\ \A k \in 1..MaxRetries : /\ [q EXCEPT ![0] = @ + 1][k] = q[k]
                                       /\ [q EXCEPT ![0] = @ - 1][k] = q[k]
<1> DEFINE S == 0..MaxRetries
<1>1. 0 \in S /\ \A k \in 1..MaxRetries : k \in S /\ k # 0
  BY BoundsAreNat
<1>2. q \in [S -> Nat]
  OBVIOUS
<1> HIDE DEF S
<1> QED
  BY <1>1, <1>2

LEMMA OneMessageStep ==
    ASSUME DeliveredOnce, TypeOK, Parked, OneMessage, Next
    PROVE  Parked' /\ OneMessage'
<1>1. CASE DeleteWorkflow
  BY <1>1 DEF DeleteWorkflow, Parked, OneMessage
<1>2. ASSUME NEW r \in Runs, CreateRun(r) \/ Trigger(r) \/ TriggerCrash(r)
      PROVE  Parked' /\ OneMessage'
  <2>1. /\ UNCHANGED <<worker, decider>>
        /\ \A s \in Runs : s # r => trigger'[s] = trigger[s] /\ queue'[s] = queue[s]
        /\ trigger[r].pc # "done"
        /\ \/ queue'[r] = queue[r]
           \/ /\ trigger'[r].pc = "done"
              /\ queue'[r] = [queue[r] EXCEPT ![0] = @ + 1]
    BY <1>2, TriggerMoves
  <2>2. queue[r][0] = 0 /\ queue[r] \in [0..MaxRetries -> Nat] /\ 0 \in 0..MaxRetries
        /\ \A k \in 1..MaxRetries : k \in 0..MaxRetries /\ k # 0
    BY <2>1, BoundsAreNat DEF OneMessage, TypeOK
  <2>3. /\ queue'[r][0] \in {0, 1}
        /\ \A k \in 1..MaxRetries : queue'[r][k] = queue[r][k]
        /\ trigger'[r].pc # "done" => queue'[r][0] = 0
    <3>1. CASE queue'[r] = queue[r]
      BY <2>2, <3>1
    <3>2. CASE trigger'[r].pc = "done" /\ queue'[r] = [queue[r] EXCEPT ![0] = @ + 1]
      <4>1. queue'[r][0] = 0 + 1 /\ \A k \in 1..MaxRetries : queue'[r][k] = queue[r][k]
        BY <2>2, <3>2, OneCell
      <4> QED
        BY <3>2, <4>1
    <3> QED
      BY <2>1, <3>1, <3>2
  <2>4. Parked'
    BY <2>1 DEF Parked
  <2>5. \A w \in Workers : worker[w].pc # "idle" => worker[w].run # r /\ worker[w].run \in Runs
    BY <2>1 DEF OneMessage, TypeOK
  <2>6. OneMessage'
    BY <2>1, <2>3, <2>5 DEF OneMessage
  <2> QED
    BY <2>4, <2>6
<1>3. ASSUME NEW w \in Workers, NEW r \in Runs, NEW k \in 0..MaxRetries, Receive(w, r, k)
      PROVE  Parked' /\ OneMessage'
  <2>1. /\ UNCHANGED <<trigger, decider>>
        /\ \A v \in Workers : v # w => worker'[v] = worker[v]
        /\ worker'[w].pc = "received" /\ worker'[w].run = r
        /\ queue[r][k] > 0
        /\ \A s \in Runs : s # r => queue'[s] = queue[s]
        /\ queue'[r] = [queue[r] EXCEPT ![k] = @ - 1]
    BY <1>3, ReceiveMoves
  <2>2. k = 0 /\ queue[r][0] = 1 /\ queue[r] \in [0..MaxRetries -> Nat]
        /\ \A j \in 1..MaxRetries : j \in 0..MaxRetries /\ j # 0
    BY <2>1, BoundsAreNat DEF OneMessage, TypeOK
  <2>3. queue'[r][0] = 0 /\ \A j \in 1..MaxRetries : queue'[r][j] = queue[r][j]
    BY <2>1, <2>2, OneCell
  <2>4. Parked'
    BY <2>1 DEF Parked
  <2>5. \A v \in Workers : worker[v].pc # "idle" => worker[v].run # r /\ worker[v].run \in Runs
    <3>1. \A v \in Workers : worker[v].pc # "idle" => worker[v].run \in Runs
      BY DEF TypeOK
    <3>2. \A v \in Workers : worker[v].pc # "idle" => queue[worker[v].run][0] = 0
      BY DEF OneMessage
    <3>3. queue[r][0] # 0
      BY <2>2
    <3> QED
      BY <3>1, <3>2, <3>3, Zenon
  <2>6. trigger[r].pc = "done"
    BY <2>2 DEF OneMessage
  <2>7. /\ \A s \in Runs : queue'[s][0] \in {0, 1} /\ \A j \in 1..MaxRetries : queue'[s][j] = 0
        /\ \A s \in Runs : trigger'[s].pc # "done" => queue'[s][0] = 0
    <3> SUFFICES ASSUME NEW s \in Runs
                 PROVE  /\ queue'[s][0] \in {0, 1}
                        /\ \A j \in 1..MaxRetries : queue'[s][j] = 0
                        /\ trigger'[s].pc # "done" => queue'[s][0] = 0
      OBVIOUS
    <3>1. /\ queue[s][0] \in {0, 1} /\ \A j \in 1..MaxRetries : queue[s][j] = 0
          /\ trigger[s].pc # "done" => queue[s][0] = 0
      BY DEF OneMessage
    <3>2. CASE s = r
      BY <2>3, <3>1, <3>2
    <3>3. CASE s # r
      BY <2>1, <3>1, <3>3
    <3> QED
      BY <3>2, <3>3
  <2>8. ASSUME NEW v \in Workers, worker'[v].pc # "idle"
        PROVE  trigger'[worker'[v].run].pc = "done" /\ queue'[worker'[v].run][0] = 0
    BY <2>1, <2>3, <2>5, <2>6, <2>8 DEF OneMessage
  <2>9. ASSUME NEW u \in Workers, NEW v \in Workers, worker'[u].pc # "idle",
               worker'[v].pc # "idle", worker'[u].run = worker'[v].run
        PROVE  u = v
    BY <2>1, <2>5, <2>9 DEF OneMessage
  <2> QED
    BY <2>4, <2>7, <2>8, <2>9 DEF OneMessage
<1>4. ASSUME NEW w \in Workers, Execute(w) \/ Retry(w) \/ ChildKilled(w) \/ Redeliver(w)
      PROVE  Parked' /\ OneMessage'
  <2>1. /\ UNCHANGED <<trigger, queue, decider>>
        /\ \A v \in Workers : v # w => worker'[v] = worker[v]
        /\ worker[w].pc # "idle"
        /\ \/ worker'[w] = IdleWorker
           \/ worker'[w].run = worker[w].run /\ worker'[w].pc # "idle"
    BY <1>4, WorkerMoves
  <2>2. IdleWorker.pc = "idle" /\ IdleWorker.run = NoRun
    BY DEF IdleWorker
  <2>3. Parked'
    BY <2>1, <2>2 DEF Parked
  <2>4. \A v \in Workers : worker'[v].pc # "idle" =>
                              worker[v].pc # "idle" /\ worker'[v].run = worker[v].run
    BY <2>1, <2>2
  <2>5. OneMessage'
    BY <2>1, <2>4 DEF OneMessage
  <2> QED
    BY <2>3, <2>5
<1>5. ASSUME NEW d \in Deciders, NEW r \in Runs, NEW v \in Verdicts, LoadPendingRun(d, r, v)
      PROVE  Parked' /\ OneMessage'
  <2>1. /\ UNCHANGED <<trigger, queue, worker>>
        /\ \A e \in Deciders : e # d => decider'[e] = decider[e]
        /\ decider'[d] = [pc |-> "loaded", run |-> r, verdict |-> v,
                          wfSeen |-> decider[d].wfSeen]
    BY <1>5, LoadMoves
  <2>2. Parked'
    <3>1. decider'[d].pc \notin {"idle", "opened"}
      BY <2>1
    <3> QED
      BY <2>1, <3>1 DEF Parked
  <2>3. OneMessage'
    BY <2>1 DEF OneMessage
  <2> QED
    BY <2>2, <2>3
<1>6. ASSUME NEW d \in Deciders, decider[d].pc # "opened", Decide(d) \/ DecisionCrash(d)
      PROVE  Parked' /\ OneMessage'
  <2>1. /\ UNCHANGED <<trigger, queue, worker>>
        /\ \A e \in Deciders : e # d => decider'[e] = decider[e]
        /\ decider'[d] = IdleDecider \/ decider'[d].pc \notin {"idle", "opened"}
    BY <1>6, DeciderMoves
  <2>2. IdleDecider.run = NoRun
    BY DEF IdleDecider
  <2> QED
    BY <2>1, <2>2 DEF Parked, OneMessage
<1>7. ASSUME NEW d \in Deciders, Visit(d)
      PROVE  Parked' /\ OneMessage'
  BY <1>7, VisitMoves DEF Parked, OneMessage
<1>8. ASSUME NEW d \in Deciders, OpenWorkflow(d) \/ Refuse(d) \/ Decide(d) \/ DecisionCrash(d)
      PROVE  Parked' /\ OneMessage'
  BY <1>6, <1>7, <1>8, VisitOrDecide
<1> QED
  BY <1>1, <1>2, <1>3, <1>4, <1>5, <1>8 DEF Next

-----------------------------------------------------------------------------
(* The rows.                                                                *)

LEMMA InitServes == Init => SInv /\ Logged /\ Reflected
<1> SUFFICES ASSUME Init PROVE SInv /\ Logged /\ Reflected
  OBVIOUS
<1>1. /\ \A w \in Workers : worker[w] = IdleWorker
      /\ \A d \in Deciders : decider[d] = IdleDecider
      /\ \A r \in Runs : run[r] = NoRow /\ audit[r] = [k \in AuditKind |-> 0]
      /\ \A r \in Runs : trigger[r].pc = "none"
      /\ \A r \in Runs, k \in 0..MaxRetries : queue[r][k] = 0
      /\ wf.status = "DRAFT"
  BY DEF Init
<1>2. IdleWorker.pc = "idle" /\ IdleWorker.run = NoRun /\ IdleDecider.pc = "idle"
      /\ IdleDecider.run = NoRun /\ NoRow.status = "NONE" /\ NoRow.approval = "NULL"
      /\ Untouched(NoRow) /\ ~NoRow.error
  BY DEF IdleWorker, IdleDecider, NoRow, Untouched
<1>3. 0 \in 0..MaxRetries /\ \A k \in 1..MaxRetries : k \in 0..MaxRetries
  BY BoundsAreNat
<1>4. Parked
  BY <1>1, <1>2 DEF Parked
<1>5. OneMessage
  BY <1>1, <1>2, <1>3 DEF OneMessage
<1>6. Stories
  <2> SUFFICES ASSUME NEW r \in Runs PROVE Story(run[r], audit[r], wf.template)
    BY DEF Stories
  <2>1. Verdict(audit[r], 0, 0)
    BY <1>1 DEF Verdict, AuditKind
  <2> QED
    BY <1>1, <1>2, <2>1 DEF Story
<1>7. Fitting
  <2>1. \A r \in Runs : TriggerFits(trigger[r], run[r])
    BY <1>1, <1>2 DEF TriggerFits
  <2> QED
    BY <1>1, <1>2, <1>3, <2>1 DEF Fitting
<1>8. Logged
  BY <1>1, <1>2 DEF Logged, LogFits, AuditKind
<1>9. Reflected
  BY <1>1, <1>2 DEF Reflected, Unmarked, Remembered, Behind, Reading
<1> QED
  BY <1>4, <1>5, <1>6, <1>7, <1>8, <1>9, InitType DEF SInv

(* The writes, each from the status at which its process makes it, keep the *)
(* story of the row.                                                        *)
LEMMA StoryWrites ==
    ASSUME NEW row \in Row, NEW log \in [AuditKind -> Nat], NEW template,
           Story(row, log, template)
    PROVE  /\ row.status = "NONE" => Story([row EXCEPT !.status = "PENDING"], log, template)
           /\ row.status = "PENDING" =>
                /\ Story([row EXCEPT !.status = "RUNNING"], log, template)
                /\ Story(UnpublishedRow(row), log, template)
           /\ (row.status = "RUNNING" /\ log["PASSED"] = 0) =>
                /\ Story(PausedRow(row), log, template)
                /\ Story(FailedRow(row), log, template)
                /\ template # "compliance-audit" =>
                      Story(CompletedRow(row, "none"), log, template)
           /\ (row.status = "RUNNING" /\ log["PASSED"] = 1) =>
                Story(CompletedRow(row, "passed"), log, template)
           /\ (row.status = "AWAITING_APPROVAL" /\ row.approval = "PENDING") =>
                \A d \in Deciders : Story(RejectedRow(row, d), log, template)
           /\ (row.status = "AWAITING_APPROVAL" /\ row.approval = "APPROVED") =>
                Story(CompletedRow(row, "approved"), log, template)
BY DEF Story, Untouched, Verdict, Row, UnpublishedRow, FailedRow, CompletedRow, PausedRow,
       RejectedRow, DecidedRow

(* The audit rows written with them.                                        *)
LEMMA StoryLogs ==
    ASSUME NEW row \in Row, NEW log \in [AuditKind -> Nat], NEW template,
           Story(row, log, template)
    PROVE  /\ (row.status = "RUNNING" /\ log["PASSED"] = 0 /\ template = "compliance-audit") =>
                Story(row, [log EXCEPT !["PASSED"] = @ + 1], template)
           /\ (row.status = "AWAITING_APPROVAL" /\ row.approval = "PENDING") =>
                \A d \in Deciders : Story(DecidedRow(row, d, "APPROVED", "approved"),
                                          [log EXCEPT !["APPROVED"] = @ + 1], template)
           /\ \A kind \in {"workflow.approve", "workflow.reject"} :
                Story(row, [log EXCEPT ![kind] = @ + 1], template)
<1>1. /\ [log EXCEPT !["PASSED"] = @ + 1]["PASSED"] = log["PASSED"] + 1
      /\ [log EXCEPT !["PASSED"] = @ + 1]["APPROVED"] = log["APPROVED"]
      /\ [log EXCEPT !["APPROVED"] = @ + 1]["APPROVED"] = log["APPROVED"] + 1
      /\ [log EXCEPT !["APPROVED"] = @ + 1]["PASSED"] = log["PASSED"]
      /\ \A kind \in {"workflow.approve", "workflow.reject"} :
            /\ [log EXCEPT ![kind] = @ + 1]["PASSED"] = log["PASSED"]
            /\ [log EXCEPT ![kind] = @ + 1]["APPROVED"] = log["APPROVED"]
  BY DEF AuditKind
<1>2. (row.status = "RUNNING" /\ log["PASSED"] = 0 /\ template = "compliance-audit") =>
         Story(row, [log EXCEPT !["PASSED"] = @ + 1], template)
  BY <1>1 DEF Story, Untouched, Verdict
<1>3. \A kind \in {"workflow.approve", "workflow.reject"} :
         Story(row, [log EXCEPT ![kind] = @ + 1], template)
  BY <1>1 DEF Story, Untouched, Verdict
<1>4. ASSUME NEW d \in Deciders, row.status = "AWAITING_APPROVAL", row.approval = "PENDING"
      PROVE  Story(DecidedRow(row, d, "APPROVED", "approved"),
                   [log EXCEPT !["APPROVED"] = @ + 1], template)
  <2>1. LET new == DecidedRow(row, d, "APPROVED", "approved") IN
        /\ new.status = "AWAITING_APPROVAL" /\ new.approval = "APPROVED"
        /\ new.gate = "approved" /\ new.error = row.error
    BY <1>4 DEF DecidedRow, Row
  <2>2. Verdict(log, 0, 0) /\ ~row.error
    BY <1>4 DEF Story
  <2> QED
    BY <1>1, <2>1, <2>2 DEF Story, Verdict
<1> QED
  BY <1>2, <1>3, <1>4

(* Where a handler or worker is at a run tells the run's status, so no two  *)
(* of them are at the same run at once.                                     *)
LEMMA Alone ==
    ASSUME SInv, NEW r \in Runs
    PROVE  /\ trigger[r].pc \in {"none", "created", "marked", "unpublished"} =>
                run[r].status \in {"NONE", "PENDING"}
           /\ \A w \in Workers : (worker[w].pc # "idle" /\ worker[w].run = r) =>
                /\ worker[w].pc \in {"received", "loaded"} => run[r].status = "PENDING"
                /\ worker[w].pc \in {"started", "executing", "dispatched", "audited"} =>
                      run[r].status = "RUNNING"
           /\ \A d \in Deciders : (decider[d].pc \notin {"idle", "opened"} /\ decider[d].run = r) =>
                run[r].status \in {"AWAITING_APPROVAL", "COMPLETED", "REJECTED"}
<1>1. trigger[r].pc \in {"none", "created", "marked", "unpublished"} =>
         run[r].status \in {"NONE", "PENDING"}
  BY DEF SInv, Fitting, TriggerFits
<1>2. ASSUME NEW w \in Workers, worker[w].pc # "idle", worker[w].run = r
      PROVE  WorkerFits(worker[w], run[r], audit[r])
  BY <1>2 DEF SInv, Fitting
<1>3. ASSUME NEW d \in Deciders, decider[d].pc \notin {"idle", "opened"}, decider[d].run = r
      PROVE  DeciderFits(decider[d], run[r]) /\ decider[d].pc \in {"loaded", "dispatched", "decided"}
  BY <1>3 DEF SInv, Fitting, TypeOK, DeciderState
<1> QED
  BY <1>1, <1>2, <1>3 DEF WorkerFits, DeciderFits

(* A step at run r keeps every story if it keeps that of r, and everybody   *)
(* fitting if whoever is at r afterwards fits.                              *)
LEMMA StepAt ==
    ASSUME SInv, NEW r \in Runs, wf'.template = wf.template,
           \A s \in Runs : s # r => /\ run'[s] = run[s] /\ audit'[s] = audit[s]
                                    /\ trigger'[s] = trigger[s] /\ queue'[s] = queue[s],
           Story(run'[r], audit'[r], wf.template),
           TriggerFits(trigger'[r], run'[r]),
           queue'[r][0] > 0 => run'[r].status = "PENDING",
           \A w \in Workers : worker'[w].pc # "idle" =>
              \/ worker'[w] = worker[w] /\ worker[w].run # r
              \/ worker'[w].run = r /\ WorkerFits(worker'[w], run'[r], audit'[r]),
           \A d \in Deciders : decider'[d].pc \notin {"idle", "opened"} =>
              \/ decider'[d] = decider[d] /\ decider[d].run # r
              \/ decider'[d].run = r /\ DeciderFits(decider'[d], run'[r])
    PROVE  Stories' /\ Fitting'
<1>1. Stories'
  BY DEF SInv, Stories
<1>2. \A s \in Runs : /\ TriggerFits(trigger'[s], run'[s])
                      /\ queue'[s][0] > 0 => run'[s].status = "PENDING"
  BY DEF SInv, Fitting
<1>3. \A w \in Workers : worker'[w].pc # "idle" =>
         WorkerFits(worker'[w], run'[worker'[w].run], audit'[worker'[w].run])
  BY DEF SInv, Fitting, TypeOK
<1>4. \A d \in Deciders : decider'[d].pc \notin {"idle", "opened"} =>
         DeciderFits(decider'[d], run'[decider'[d].run])
  BY DEF SInv, Fitting, TypeOK
<1> QED
  BY <1>1, <1>2, <1>3, <1>4 DEF Fitting

LEMMA TriggerServes ==
    ASSUME DeliveredOnce, SInv, NEW r \in Runs,
           CreateRun(r) \/ Trigger(r) \/ TriggerCrash(r)
    PROVE  Stories' /\ Fitting'
<1>1. /\ UNCHANGED <<worker, decider>>
      /\ \A s \in Runs : s # r => trigger'[s] = trigger[s] /\ queue'[s] = queue[s]
      /\ trigger'[r].pc # "none" /\ trigger[r].pc # "done"
      /\ queue'[r] = queue[r] \/ Publish(r)
  BY TriggerMoves DEF SInv
<1>2. /\ run \in [Runs -> Row] /\ run[r] \in Row /\ audit[r] \in [AuditKind -> Nat]
      /\ trigger \in [Runs -> TriggerState]
      /\ trigger[r].pc \in {"none", "created", "marked", "unpublished"}
      /\ queue[r][0] = 0
  BY <1>1 DEF SInv, TypeOK, OneMessage, TriggerState
<1>3. UNCHANGED audit /\ wf'.template = wf.template
  BY WorkflowTypes DEF SInv, TypeOK, CreateRun, Trigger, MarkWorkflowPending, Publish,
         PublishRaises, FailUnpublished, TriggerCrash, dbVars
<1>4. /\ \A w \in Workers : worker[w].pc # "idle" => worker[w].run # r
      /\ \A d \in Deciders : decider[d].pc \notin {"idle", "opened"} => decider[d].run # r
  BY <1>1, <1>2, Alone DEF SInv, OneMessage
<1>5. /\ \A s \in Runs : s # r => run'[s] = run[s]
      /\ \/ /\ trigger[r].pc = "none" /\ trigger'[r].pc = "created"
            /\ run'[r] = [run[r] EXCEPT !.status = "PENDING"]
         \/ /\ trigger[r].pc = "unpublished" /\ trigger'[r].pc = "done"
            /\ run'[r] = UnpublishedRow(run[r])
         \/ trigger[r].pc # "none" /\ run'[r] = run[r]
  <2>1. \A to : trigger' = [trigger EXCEPT ![r].pc = to] => trigger'[r].pc = to
    BY <1>2 DEF TriggerState
  <2>2. CASE CreateRun(r)
    BY <1>2, <2>2 DEF CreateRun
  <2>3. CASE FailUnpublished(r)
    BY <1>2, <2>1, <2>3 DEF FailUnpublished
  <2>4. CASE MarkWorkflowPending(r) \/ Publish(r) \/ PublishRaises(r) \/ TriggerCrash(r)
    BY <1>2, <2>4 DEF MarkWorkflowPending, Publish, PublishRaises, TriggerCrash, dbVars
  <2> QED
    BY <2>2, <2>3, <2>4 DEF Trigger
<1>6. TriggerFits(trigger[r], run[r]) /\ Story(run[r], audit[r], wf.template)
  BY DEF SInv, Fitting, Stories
<1>7. /\ [run[r] EXCEPT !.status = "PENDING"].status = "PENDING"
      /\ trigger[r].pc # "none" => run[r].status = "PENDING"
  BY <1>2, <1>6 DEF TriggerFits, Row
<1>8. TriggerFits(trigger'[r], run'[r])
  BY <1>1, <1>5, <1>6, <1>7 DEF TriggerFits
<1>9. Story(run'[r], audit'[r], wf.template)
  <2>1. /\ trigger[r].pc = "none" =>
             Story([run[r] EXCEPT !.status = "PENDING"], audit[r], wf.template)
        /\ trigger[r].pc = "unpublished" =>
             Story(UnpublishedRow(run[r]), audit[r], wf.template)
    BY <1>2, <1>6, StoryWrites DEF TriggerFits
  <2> QED
    BY <1>3, <1>5, <1>6, <2>1
<1>10. queue'[r][0] > 0 => run'[r].status = "PENDING"
  <2>1. CASE Publish(r)
    BY <1>7, <2>1 DEF Publish, dbVars
  <2> QED
    BY <1>1, <1>2, <2>1
<1> QED
  BY <1>1, <1>3, <1>4, <1>5, <1>8, <1>9, <1>10, StepAt

LEMMA ReceiveServes ==
    ASSUME SInv, NEW w \in Workers, NEW r \in Runs, NEW k \in 0..MaxRetries, Receive(w, r, k)
    PROVE  Stories' /\ Fitting'
<1>1. /\ UNCHANGED <<dbVars, trigger, decider>>
      /\ \A v \in Workers : v # w => worker'[v] = worker[v]
      /\ worker'[w].pc = "received" /\ worker'[w].run = r
      /\ queue[r][k] > 0
      /\ \A s \in Runs : s # r => queue'[s] = queue[s]
      /\ queue'[r] = [queue[r] EXCEPT ![k] = @ - 1]
  BY ReceiveMoves DEF SInv
<1>2. k = 0 /\ queue[r][0] = 1 /\ queue[r] \in [0..MaxRetries -> Nat]
  BY <1>1 DEF SInv, TypeOK, OneMessage
<1>3. queue'[r][0] = 0
  BY <1>1, <1>2, OneCell
<1>4. run[r].status = "PENDING"
  BY <1>2 DEF SInv, Fitting
<1>5. WorkerFits(worker'[w], run[r], audit[r])
  BY <1>1, <1>4 DEF WorkerFits
<1>6. \A v \in Workers : worker[v].pc # "idle" => worker[v].run # r
  BY <1>2 DEF SInv, OneMessage
<1>7. Stories'
  BY <1>1 DEF SInv, Stories, dbVars
<1>8. \A v \in Workers : worker'[v].pc # "idle" =>
         WorkerFits(worker'[v], run'[worker'[v].run], audit'[worker'[v].run])
  BY <1>1, <1>5 DEF SInv, Fitting, dbVars
<1>9. \A s \in Runs : queue'[s][0] > 0 => run'[s].status = "PENDING"
  BY <1>1, <1>4 DEF SInv, Fitting, dbVars
<1> QED
  BY <1>1, <1>7, <1>8, <1>9 DEF SInv, Fitting, dbVars

LEMMA LoadServes ==
    ASSUME SInv, NEW d \in Deciders, NEW r \in Runs, NEW v \in Verdicts,
           LoadPendingRun(d, r, v)
    PROVE  Stories' /\ Fitting'
<1>1. /\ UNCHANGED <<dbVars, trigger, queue, worker>>
      /\ \A e \in Deciders : e # d => decider'[e] = decider[e]
      /\ Decidable(r)
      /\ decider'[d] = [pc |-> "loaded", run |-> r, verdict |-> v,
                          wfSeen |-> decider[d].wfSeen]
  BY LoadMoves DEF SInv
<1>2. decider'[d].pc = "loaded" /\ decider'[d].run = r
  BY <1>1
<1>3. DeciderFits(decider'[d], run[r])
  BY <1>1, <1>2 DEF DeciderFits, Decidable
<1>4. Stories'
  BY <1>1 DEF SInv, Stories, dbVars
<1>5. \A e \in Deciders : decider'[e].pc \notin {"idle", "opened"} =>
         DeciderFits(decider'[e], run[decider'[e].run])
  BY <1>1, <1>2, <1>3 DEF SInv, Fitting
<1> QED
  BY <1>1, <1>4, <1>5 DEF SInv, Fitting, dbVars

LEMMA VisitServes ==
    ASSUME SInv, NEW d \in Deciders, Visit(d)
    PROVE  Stories' /\ Fitting'
<1>1. /\ UNCHANGED <<wf, run, audit, trigger, queue, worker>>
      /\ \A e \in Deciders : decider'[e] = decider[e] \/ decider'[e].pc \in {"idle", "opened"}
  BY VisitMoves DEF SInv, dbVars
<1> QED
  BY <1>1 DEF SInv, Stories, Fitting

LEMMA WorkerServes ==
    ASSUME DeliveredOnce, SInv, NEW w \in Workers,
           Execute(w) \/ Retry(w) \/ ChildKilled(w) \/ Redeliver(w)
    PROVE  Stories' /\ Fitting'
<1> DEFINE r == worker[w].run
<1>1. /\ Execute(w) \/ ChildKilled(w)
      /\ UNCHANGED <<trigger, queue, decider>>
      /\ \A v \in Workers : v # w => worker'[v] = worker[v]
      /\ worker[w].pc # "idle"
      /\ \/ worker'[w] = IdleWorker
         \/ worker'[w].run = r /\ worker'[w].pc # "idle"
  BY WorkerMoves DEF SInv
<1>2. /\ r \in Runs /\ run \in [Runs -> Row] /\ run[r] \in Row
      /\ audit \in [Runs -> [AuditKind -> Nat]] /\ audit[r] \in [AuditKind -> Nat]
      /\ worker \in [Workers -> WorkerState]
      /\ "db" \notin Faults /\ "redeliver" \notin Faults
  BY <1>1 DEF SInv, TypeOK, DeliveredOnce
<1>3. wf'.template = wf.template
  BY <1>1, WorkerWrites DEF SInv
<1>4. /\ WorkerFits(worker[w], run[r], audit[r]) /\ Story(run[r], audit[r], wf.template)
      /\ TriggerFits(trigger[r], run[r])
      /\ trigger[r].pc = "done" /\ queue[r][0] = 0
      /\ \A v \in Workers : (v # w /\ worker[v].pc # "idle") => worker[v].run # r
  BY <1>1, <1>2 DEF SInv, Fitting, Stories, OneMessage
<1>5. TriggerFits(trigger'[r], run'[r]) /\ ~(queue'[r][0] > 0)
  BY <1>1, <1>4 DEF TriggerFits
<1>6. \A from, to, seen : Advance(w, from, to, seen) =>
         worker[w].pc = from /\ worker'[w].pc = to /\ worker'[w].run = r
  BY <1>2, AdvanceMoves
<1>7. CASE UNCHANGED <<run, audit>> /\ (worker'[w] = IdleWorker)
  <2>1. \A v \in Workers : worker'[v].pc # "idle" =>
            worker'[v] = worker[v] /\ worker[v].run # r
    BY <1>1, <1>4, <1>7, IdleTypes
  <2>2. \A d \in Deciders : decider'[d].pc \notin {"idle", "opened"} =>
            \/ decider'[d] = decider[d] /\ decider[d].run # r
            \/ decider'[d].run = r /\ DeciderFits(decider'[d], run'[r])
    BY <1>1, <1>7 DEF SInv, Fitting
  <2> QED
    BY <1>1, <1>2, <1>3, <1>4, <1>5, <1>7, <2>1, <2>2, StepAt
<1>8. ASSUME worker[w].pc \in {"received", "loaded", "started", "executing", "dispatched",
                              "audited"},
             \A s \in Runs : s # r => run'[s] = run[s] /\ audit'[s] = audit[s],
             Story(run'[r], audit'[r], wf.template),
             WorkerFits(worker'[w], run'[r], audit'[r]),
             worker'[w].run = r
      PROVE  Stories' /\ Fitting'
  <2>1. \A d \in Deciders : decider[d].pc \notin {"idle", "opened"} => decider[d].run # r
    <3>1. run[r].status \in {"PENDING", "RUNNING"}
      BY <1>4, <1>8 DEF WorkerFits
    <3> QED
      BY <1>2, <3>1, Alone
  <2>2. \A v \in Workers : worker'[v].pc # "idle" =>
            \/ worker'[v] = worker[v] /\ worker[v].run # r
            \/ worker'[v].run = r /\ WorkerFits(worker'[v], run'[r], audit'[r])
    BY <1>1, <1>4, <1>8
  <2> QED
    BY <1>1, <1>2, <1>3, <1>5, <1>8, <2>1, <2>2, StepAt
<1>9. \A row \in Row : run' = [run EXCEPT ![r] = row] =>
         run'[r] = row /\ \A s \in Runs : s # r => run'[s] = run[s]
  BY <1>2
<1>10. CASE StartRun(w)
  <2>1. /\ worker[w].pc = "loaded" /\ worker'[w].pc = "started" /\ UNCHANGED audit
        /\ worker'[w].run = r
        /\ run'[r] = [run[r] EXCEPT !.status = "RUNNING"]
        /\ \A s \in Runs : s # r => run'[s] = run[s]
    <3>1. Advance(w, "loaded", "started", "NONE")
      BY <1>10 DEF StartRun
    <3>2. run' = [run EXCEPT ![r] = [run[r] EXCEPT !.status = "RUNNING"]] /\ UNCHANGED audit
      BY <1>2, <1>10 DEF StartRun
    <3> QED
      BY <1>2, <1>6, <3>1, <3>2
  <2>2. run[r].status = "PENDING" /\ run'[r].status = "RUNNING" /\ audit'[r]["PASSED"] = 0
    BY <1>2, <1>4, <2>1 DEF WorkerFits, Row, Story, Verdict
  <2>3. Story([run[r] EXCEPT !.status = "RUNNING"], audit[r], wf.template)
    BY <1>2, <1>4, <2>2, StoryWrites
  <2>4. Story(run'[r], audit'[r], wf.template)
    BY <2>1, <2>3
  <2>5. WorkerFits(worker'[w], run'[r], audit'[r])
    BY <2>1, <2>2 DEF WorkerFits
  <2> QED
    BY <1>8, <2>1, <2>4, <2>5
<1>11. CASE DispatchPassed(w)
  <2>1. /\ worker[w].pc = "executing" /\ worker'[w].pc = "dispatched" /\ UNCHANGED run
        /\ worker'[w].run = r /\ wf.template = "compliance-audit"
        /\ audit'[r] = [audit[r] EXCEPT !["PASSED"] = @ + 1]
        /\ \A s \in Runs : s # r => audit'[s] = audit[s]
    <3>1. /\ Advance(w, "executing", "dispatched", "NONE") /\ UNCHANGED run
          /\ wf.template = "compliance-audit"
          /\ audit' = [audit EXCEPT ![r]["PASSED"] = @ + 1]
      BY <1>11 DEF DispatchPassed, AddAudit
    <3> QED
      BY <1>2, <1>6, <3>1
  <2>2. run[r].status = "RUNNING" /\ audit[r]["PASSED"] = 0 /\ audit'[r]["PASSED"] = 1
    BY <1>2, <1>4, <2>1 DEF WorkerFits, AuditKind
  <2>3. Story(run[r], [audit[r] EXCEPT !["PASSED"] = @ + 1], wf.template)
    BY <1>2, <1>4, <2>1, <2>2, StoryLogs
  <2>4. Story(run'[r], audit'[r], wf.template)
    BY <2>1, <2>3
  <2>5. WorkerFits(worker'[w], run'[r], audit'[r])
    BY <2>1, <2>2 DEF WorkerFits
  <2> QED
    BY <1>8, <2>1, <2>4, <2>5
<1>12. ASSUME NEW row \in Row, run' = [run EXCEPT ![r] = row], UNCHANGED audit,
              worker[w].pc \in {"executing", "audited"}, worker'[w].pc = "finished",
              Story(row, audit[r], wf.template)
       PROVE  Stories' /\ Fitting'
  <2>1. run'[r] = row /\ \A s \in Runs : s # r => run'[s] = run[s]
    BY <1>9, <1>12
  <2>2. WorkerFits(worker'[w], run'[r], audit'[r]) /\ worker'[w].run = r
    BY <1>1, <1>12, IdleTypes DEF WorkerFits
  <2> QED
    BY <1>8, <1>12, <2>1, <2>2
<1>13. /\ worker[w].pc = "executing" => run[r].status = "RUNNING" /\ audit[r]["PASSED"] = 0
       /\ worker[w].pc = "audited" => run[r].status = "RUNNING" /\ audit[r]["PASSED"] = 1
  BY <1>4 DEF WorkerFits
<1>14. CASE CompletePassed(w)
  <2>1. /\ worker[w].pc = "audited" /\ worker'[w].pc = "finished" /\ UNCHANGED audit
        /\ run' = [run EXCEPT ![r] = CompletedRow(run[r], "passed")]
    <3>1. /\ Advance(w, "audited", "finished", "NONE") /\ UNCHANGED audit
          /\ run' = [run EXCEPT ![r] = CompletedRow(run[r], "passed")]
      BY <1>14 DEF CompletePassed, Finish
    <3> QED
      BY <1>6, <3>1
  <2>2. Story(CompletedRow(run[r], "passed"), audit[r], wf.template)
    BY <1>2, <1>4, <1>13, <2>1, StoryWrites
  <2>3. CompletedRow(run[r], "passed") \in Row
    BY <1>2, RowTypes
  <2> QED
    BY <1>12, <2>1, <2>2, <2>3
<1>15. CASE CompleteOther(w)
  <2>1. /\ worker[w].pc = "executing" /\ worker'[w].pc = "finished" /\ UNCHANGED audit
        /\ run' = [run EXCEPT ![r] = CompletedRow(run[r], "none")]
        /\ wf.template # "compliance-audit"
    <3>1. /\ Advance(w, "executing", "finished", "NONE") /\ UNCHANGED audit
          /\ run' = [run EXCEPT ![r] = CompletedRow(run[r], "none")]
          /\ wf.template # "compliance-audit"
      BY <1>15 DEF CompleteOther, Finish
    <3> QED
      BY <1>6, <3>1
  <2>2. Story(CompletedRow(run[r], "none"), audit[r], wf.template)
    BY <1>2, <1>4, <1>13, <2>1, StoryWrites
  <2>3. CompletedRow(run[r], "none") \in Row
    BY <1>2, RowTypes
  <2> QED
    BY <1>12, <2>1, <2>2, <2>3
<1>16. CASE Pause(w)
  <2>1. /\ worker[w].pc = "executing" /\ worker'[w].pc = "finished" /\ UNCHANGED audit
        /\ run' = [run EXCEPT ![r] = PausedRow(run[r])]
    <3>1. /\ Advance(w, "executing", "finished", "NONE") /\ UNCHANGED audit
          /\ run' = [run EXCEPT ![r] = PausedRow(run[r])]
      BY <1>16 DEF Pause, Finish
    <3> QED
      BY <1>6, <3>1
  <2>2. Story(PausedRow(run[r]), audit[r], wf.template)
    BY <1>2, <1>4, <1>13, <2>1, StoryWrites
  <2>3. PausedRow(run[r]) \in Row
    BY <1>2, RowTypes
  <2> QED
    BY <1>12, <2>1, <2>2, <2>3
<1>17. CASE FailRun(w)
  <2>1. /\ worker[w].pc = "executing" /\ worker'[w].pc = "finished" /\ UNCHANGED audit
        /\ run' = [run EXCEPT ![r] = FailedRow(run[r])]
    <3>1. /\ Advance(w, "executing", "finished", "NONE") /\ UNCHANGED audit
          /\ run' = [run EXCEPT ![r] = FailedRow(run[r])]
      BY <1>2, <1>17 DEF FailRun, Finish
    <3> QED
      BY <1>6, <3>1
  <2>2. Story(FailedRow(run[r]), audit[r], wf.template)
    BY <1>2, <1>4, <1>13, <2>1, StoryWrites
  <2>3. FailedRow(run[r]) \in Row
    BY <1>2, RowTypes
  <2> QED
    BY <1>12, <2>1, <2>2, <2>3
<1>18. CASE Ack(w) \/ ChildKilled(w)
  <2>1. UNCHANGED <<run, audit>> /\ worker'[w] = IdleWorker
    BY <1>2, <1>18 DEF Ack, ChildKilled, dbVars
  <2> QED
    BY <1>7, <2>1
<1>19. CASE LoadRun(w) \/ Reload(w)
  <2>1. /\ UNCHANGED <<run, audit>> /\ worker'[w].run = r
        /\ \/ worker[w].pc = "received" /\ worker'[w].pc = "loaded"
           \/ worker[w].pc \in {"started", "executing"} /\ worker'[w].pc = "executing"
           \/ worker[w].pc = "dispatched" /\ worker'[w].pc = "audited"
    BY <1>6, <1>19 DEF LoadRun, Reload, dbVars
  <2>2. WorkerFits(worker'[w], run'[r], audit'[r]) /\ Story(run'[r], audit'[r], wf.template)
    BY <1>4, <2>1 DEF WorkerFits
  <2> QED
    BY <1>8, <2>1, <2>2
<1> QED
  BY <1>1, <1>10, <1>11, <1>14, <1>15, <1>16, <1>17, <1>18, <1>19 DEF Execute

LEMMA DeciderServes ==
    ASSUME SInv, SerialDecisions, NEW d \in Deciders, decider[d].pc # "opened",
           Decide(d) \/ DecisionCrash(d)
    PROVE  Stories' /\ Fitting'
<1> DEFINE r == decider[d].run
<1>1. /\ UNCHANGED <<trigger, queue, worker>>
      /\ \A e \in Deciders : e # d => decider'[e] = decider[e]
      /\ decider[d].pc \notin {"idle", "opened"}
      /\ \/ decider'[d] = IdleDecider /\ (LogDecision(d) \/ DecisionCrash(d))
         \/ /\ decider'[d].run = r
            /\ decider'[d].verdict = decider[d].verdict
            /\ \/ decider'[d].pc = "dispatched" /\ CommitApproval(d)
               \/ decider'[d].pc = "decided" /\ (CompleteApproved(d) \/ CommitRejection(d))
  BY DeciderMoves DEF SInv
<1>2. /\ r \in Runs /\ run \in [Runs -> Row] /\ run[r] \in Row
      /\ audit \in [Runs -> [AuditKind -> Nat]] /\ audit[r] \in [AuditKind -> Nat]
      /\ decider \in [Deciders -> DeciderState]
  BY <1>1 DEF SInv, TypeOK, DeciderState
<1>3. wf'.template = wf.template
  BY WorkflowTypes DEF SInv, TypeOK, Decide, CommitApproval, CompleteApproved,
         CommitRejection, LogDecision, DecisionCrash, dbVars
<1>4. /\ DeciderFits(decider[d], run[r]) /\ Story(run[r], audit[r], wf.template)
      /\ TriggerFits(trigger[r], run[r])
      /\ queue[r][0] > 0 => run[r].status = "PENDING"
      /\ \A e \in Deciders : (e # d /\ decider[e].pc \notin {"idle", "opened"}) => decider[e].run # r
  BY <1>1, <1>2, NoneAreFresh DEF SInv, Fitting, Stories, SerialDecisions
<1>5. run[r].status \in {"AWAITING_APPROVAL", "COMPLETED", "REJECTED"}
  BY <1>1, <1>2, Alone
<1>6. trigger[r].pc = "done" /\ ~(queue[r][0] > 0)
  BY <1>2, <1>4, <1>5, Alone DEF SInv, TypeOK, TriggerState
<1>7. TriggerFits(trigger'[r], run'[r]) /\ ~(queue'[r][0] > 0)
  BY <1>1, <1>6 DEF TriggerFits
<1>8. \A w \in Workers : (worker[w].pc # "idle" /\ worker[w].run = r) =>
                            worker[w].pc = "finished"
  <2> SUFFICES ASSUME NEW w \in Workers, worker[w].pc # "idle", worker[w].run = r
               PROVE  worker[w].pc = "finished"
    OBVIOUS
  <2>1. worker[w].pc \in {"idle", "received", "loaded", "started", "executing", "dispatched",
                         "audited", "finished"}
    BY DEF SInv, TypeOK, WorkerState
  <2> QED
    BY <1>2, <1>5, <2>1, Alone
<1>9. \A w \in Workers : worker'[w].pc # "idle" =>
         \/ worker'[w] = worker[w] /\ worker[w].run # r
         \/ worker'[w].run = r /\ WorkerFits(worker'[w], run'[r], audit'[r])
  BY <1>1, <1>8 DEF WorkerFits
<1>10. ASSUME \A s \in Runs : s # r => run'[s] = run[s] /\ audit'[s] = audit[s],
              Story(run'[r], audit'[r], wf.template),
              \/ decider'[d] = IdleDecider
              \/ decider'[d].run = r /\ DeciderFits(decider'[d], run'[r])
       PROVE  Stories' /\ Fitting'
  <2>1. \A e \in Deciders : decider'[e].pc \notin {"idle", "opened"} =>
            \/ decider'[e] = decider[e] /\ decider[e].run # r
            \/ decider'[e].run = r /\ DeciderFits(decider'[e], run'[r])
    BY <1>1, <1>4, <1>10, IdleTypes
  <2> QED
    BY <1>1, <1>2, <1>3, <1>7, <1>9, <1>10, <2>1, StepAt
<1>11. CASE CommitApproval(d)
  <2>1. /\ decider[d].pc = "loaded" /\ decider[d].verdict = "APPROVED"
        /\ run'[r] = DecidedRow(run[r], d, "APPROVED", "approved")
        /\ audit'[r] = [audit[r] EXCEPT !["APPROVED"] = @ + 1]
        /\ \A s \in Runs : s # r => run'[s] = run[s] /\ audit'[s] = audit[s]
    BY <1>2, <1>11 DEF CommitApproval, Step, AddAudit
  <2>2. decider'[d].pc = "dispatched" /\ decider'[d].run = r /\ decider'[d].verdict = "APPROVED"
    BY <1>2, <1>11 DEF CommitApproval, Step, DeciderState
  <2>3. run[r].status = "AWAITING_APPROVAL" /\ run[r].approval = "PENDING"
    BY <1>4, <2>1 DEF DeciderFits
  <2>4. Story(run'[r], audit'[r], wf.template)
    <3>1. Story(DecidedRow(run[r], d, "APPROVED", "approved"),
                [audit[r] EXCEPT !["APPROVED"] = @ + 1], wf.template)
      BY <1>2, <1>4, <2>3, StoryLogs
    <3> QED
      BY <2>1, <3>1
  <2>5. run'[r].status = "AWAITING_APPROVAL" /\ run'[r].approval = "APPROVED"
    BY <1>2, <2>1, <2>3 DEF DecidedRow, Row
  <2>6. DeciderFits(decider'[d], run'[r])
    BY <2>2, <2>5 DEF DeciderFits
  <2> QED
    BY <1>10, <2>1, <2>2, <2>4, <2>6
<1>12. CASE CompleteApproved(d)
  <2>1. /\ decider[d].pc = "dispatched" /\ decider[d].verdict = "APPROVED"
        /\ run'[r] = CompletedRow(run[r], "approved") /\ UNCHANGED audit
        /\ \A s \in Runs : s # r => run'[s] = run[s]
    BY <1>2, <1>12 DEF CompleteApproved, Step
  <2>2. decider'[d].pc = "decided" /\ decider'[d].run = r /\ decider'[d].verdict = "APPROVED"
    BY <1>2, <1>12 DEF CompleteApproved, Step, DeciderState
  <2>3. run[r].status = "AWAITING_APPROVAL" /\ run[r].approval = "APPROVED"
    BY <1>4, <2>1 DEF DeciderFits
  <2>4. Story(run'[r], audit'[r], wf.template)
    BY <1>2, <1>4, <2>1, <2>3, StoryWrites
  <2>5. run'[r].status = "COMPLETED" /\ run'[r].approval = "APPROVED"
    BY <1>2, <2>1, <2>3 DEF CompletedRow, Row
  <2>6. DeciderFits(decider'[d], run'[r])
    BY <2>2, <2>5 DEF DeciderFits
  <2> QED
    BY <1>10, <2>1, <2>2, <2>4, <2>6
<1>13. CASE CommitRejection(d)
  <2>1. /\ decider[d].pc = "loaded" /\ decider[d].verdict = "REJECTED"
        /\ run'[r] = RejectedRow(run[r], d) /\ UNCHANGED audit
        /\ \A s \in Runs : s # r => run'[s] = run[s]
    BY <1>2, <1>13 DEF CommitRejection, Step
  <2>2. decider'[d].pc = "decided" /\ decider'[d].run = r /\ decider'[d].verdict = "REJECTED"
    BY <1>2, <1>13 DEF CommitRejection, Step, DeciderState
  <2>3. run[r].status = "AWAITING_APPROVAL" /\ run[r].approval = "PENDING"
    BY <1>4, <2>1 DEF DeciderFits
  <2>4. Story(run'[r], audit'[r], wf.template)
    BY <1>2, <1>4, <2>1, <2>3, StoryWrites
  <2>5. run'[r].status = "REJECTED" /\ run'[r].approval = "REJECTED"
    BY <1>2, <2>1, <2>3 DEF RejectedRow, DecidedRow, Row
  <2>6. DeciderFits(decider'[d], run'[r])
    BY <2>2, <2>5 DEF DeciderFits
  <2> QED
    BY <1>10, <2>1, <2>2, <2>4, <2>6
<1>14. CASE LogDecision(d)
  <2> DEFINE kind == IF decider[d].verdict = "APPROVED" THEN "workflow.approve"
                                                         ELSE "workflow.reject"
  <2>1. /\ decider'[d] = IdleDecider /\ UNCHANGED run
        /\ audit' = [audit EXCEPT ![r][kind] = @ + 1]
        /\ kind \in {"workflow.approve", "workflow.reject"}
    BY <1>2, <1>14 DEF LogDecision, AddAudit
  <2> HIDE DEF kind
  <2>2. /\ audit'[r] = [audit[r] EXCEPT ![kind] = @ + 1]
        /\ \A s \in Runs : s # r => audit'[s] = audit[s]
    BY <1>2, <2>1
  <2>3. Story(run'[r], audit'[r], wf.template)
    BY <1>2, <1>4, <2>1, <2>2, StoryLogs
  <2> QED
    BY <1>10, <2>1, <2>2, <2>3
<1>15. CASE DecisionCrash(d)
  <2>1. decider'[d] = IdleDecider /\ UNCHANGED <<run, audit>>
    BY <1>15 DEF DecisionCrash, dbVars, SInv, TypeOK
  <2>2. Story(run'[r], audit'[r], wf.template)
    BY <1>4, <2>1
  <2> QED
    BY <1>10, <2>1, <2>2
<1> QED
  BY <1>11, <1>12, <1>13, <1>14, <1>15 DEF Decide

LEMMA NextServes ==
    ASSUME DeliveredOnce, SInv, SerialDecisions, [Next]_vars
    PROVE  SInv'
<1>1. TypeOK'
  BY NextType DEF SInv
<1>2. CASE UNCHANGED vars
  BY <1>1, <1>2 DEF vars, SInv, Parked, OneMessage, Stories, Fitting
<1>3. CASE Next
  <2>1. Parked' /\ OneMessage'
    BY <1>3, OneMessageStep DEF SInv
  <2>2. CASE DeleteWorkflow
    <3>1. wf'.template = wf.template /\ UNCHANGED <<run, audit, trigger, queue, worker, decider>>
      BY <2>2 DEF DeleteWorkflow, SInv, TypeOK, WorkflowRow
    <3>2. Stories'
      BY <3>1 DEF SInv, Stories
    <3>3. Fitting'
      BY <3>1 DEF SInv, Fitting
    <3> QED
      BY <1>1, <2>1, <3>2, <3>3 DEF SInv
  <2>3. DeleteWorkflow \/ (Stories' /\ Fitting')
    <3>1. ASSUME NEW d \in Deciders,
                 OpenWorkflow(d) \/ Refuse(d) \/ Decide(d) \/ DecisionCrash(d)
          PROVE  Stories' /\ Fitting'
      BY <3>1, VisitOrDecide, VisitServes, DeciderServes
    <3> QED
      BY <1>3, <3>1, TriggerServes, ReceiveServes, WorkerServes, LoadServes DEF Next
  <2> QED
    BY <1>1, <2>1, <2>2, <2>3 DEF SInv
<1> QED
  BY <1>2, <1>3

(* The invariant behind the properties of single delivery and decision.     *)
THEOREM SerialInvariance ==
    ASSUME DeliveredOnce
    PROVE  Spec /\ []SerialDecisions => []SInv
<1>1. Init => SInv
  BY InitServes
<1>2. SInv /\ SerialDecisions /\ [Next]_vars => SInv'
  BY NextServes
<1> QED
  BY <1>1, <1>2, PTL DEF Spec

LEMMA StoriesFit == SInv => VerdictsFit
<1> SUFFICES ASSUME SInv, NEW r \in Runs
             PROVE  /\ VerdictRows(r) <= 1
                    /\ (run[r].status = "COMPLETED" /\ wf.template = "compliance-audit") =>
                          \/ /\ run[r].approval = "NULL" /\ run[r].gate = "passed"
                             /\ audit[r]["PASSED"] = 1 /\ run[r].dispatched /\ ~run[r].error
                          \/ /\ run[r].approval = "APPROVED" /\ run[r].gate = "approved"
                             /\ audit[r]["APPROVED"] = 1 /\ run[r].dispatched /\ ~run[r].error
                    /\ run[r].status = "REJECTED" =>
                          VerdictRows(r) = 0 /\ ~run[r].dispatched /\ run[r].approval = "REJECTED"
  BY DEF VerdictsFit, OneVerdict, RejectedNotDispatched
<1>1. /\ Story(run[r], audit[r], wf.template) /\ run[r].status \in RunStatus
      /\ run[r].error \in BOOLEAN
  BY DEF SInv, Stories, TypeOK, Row
<1>2. \/ Verdict(audit[r], 0, 0) \/ Verdict(audit[r], 1, 0) \/ Verdict(audit[r], 0, 1)
  BY <1>1 DEF Story, RunStatus
<1>3. VerdictRows(r) <= 1
  BY <1>2 DEF Verdict, VerdictRows
<1> QED
  BY <1>1, <1>3 DEF Story, Verdict, VerdictRows

(* With every message handed out once and decisions on a run taken one at   *)
(* a time, a run leaves at most one verdict in the audit log, the one its   *)
(* row shows when it completed; a rejected run leaves none and never        *)
(* reached the dispatch step (_exec_compliance, _dispatch_audit_step,       *)
(* reject_run).  Any number of runs, workers and admins.                    *)
THEOREM VerdictsFitTheRuns ==
    ASSUME DeliveredOnce
    PROVE  Spec /\ []SerialDecisions => []VerdictsFit
BY SerialInvariance, StoriesFit, PTL

-----------------------------------------------------------------------------
(* The approval gate is implemented.                                        *)

PhaseOf(row, log) ==
    IF row.approval = "APPROVED" THEN "approved"
    ELSE IF row.approval = "REJECTED" THEN "rejected"
    ELSE IF log["PASSED"] > 0 THEN "passed"
    ELSE CASE row.status = "NONE" -> "absent"
           [] row.status = "AWAITING_APPROVAL" -> "paused"
           [] row.status = "COMPLETED" -> "finished"
           [] row.status = "FAILED" -> "failed"
           [] OTHER -> "working"

RowsOf(log) == log["PASSED"] + log["APPROVED"]

LEMMA PhaseIs ==
    \A r \in Runs : Phase(r) = PhaseOf(run[r], audit[r]) /\ VerdictRows(r) = RowsOf(audit[r])
BY DEF Phase, PhaseOf, VerdictRows, RowsOf

LEMMA GateMove ==
    ASSUME NEW r \in Runs, NEW from, NEW to,
           \A s \in Runs : s # r => run'[s] = run[s] /\ audit'[s] = audit[s],
           PhaseOf(run[r], audit[r]) = from,
           PhaseOf(run'[r], audit'[r]) = to
    PROVE  /\ RowsOf(audit'[r]) = RowsOf(audit[r]) => Gate!Silently(r, from, to)
           /\ RowsOf(audit'[r]) = RowsOf(audit[r]) + 1 => Gate!WithVerdict(r, from, to)
<1> DEFINE phase == [s \in Runs |-> Phase(s)]
           rows == [s \in Runs |-> VerdictRows(s)]
<1>1. /\ phase = [s \in Runs |-> PhaseOf(run[s], audit[s])]
      /\ rows = [s \in Runs |-> RowsOf(audit[s])]
  BY PhaseIs
<1>2. /\ phase' = [s \in Runs |-> PhaseOf(run'[s], audit'[s])]
      /\ rows' = [s \in Runs |-> RowsOf(audit'[s])]
  BY DEF Phase, PhaseOf, VerdictRows, RowsOf
<1> HIDE DEF phase, rows
<1>3. phase' = [phase EXCEPT ![r] = to]
  <2>1. /\ \A s \in Runs : s # r =>
              PhaseOf(run'[s], audit'[s]) = PhaseOf(run[s], audit[s])
        /\ PhaseOf(run'[r], audit'[r]) = to
    OBVIOUS
  <2>2. [s \in Runs |-> PhaseOf(run'[s], audit'[s])]
          = [[s \in Runs |-> PhaseOf(run[s], audit[s])] EXCEPT ![r] = to]
    BY <2>1, ZenonT(60)
  <2> QED
    BY <1>1, <1>2, <2>2, Zenon
<1>4. RowsOf(audit'[r]) = RowsOf(audit[r]) => rows' = rows
  BY <1>1, <1>2, Zenon
<1>5. RowsOf(audit'[r]) = RowsOf(audit[r]) + 1 => rows' = [rows EXCEPT ![r] = @ + 1]
  <2> SUFFICES ASSUME RowsOf(audit'[r]) = RowsOf(audit[r]) + 1
               PROVE  rows' = [rows EXCEPT ![r] = @ + 1]
    OBVIOUS
  <2>1. [s \in Runs |-> RowsOf(audit'[s])]
          = [[s \in Runs |-> RowsOf(audit[s])] EXCEPT ![r] = RowsOf(audit[r]) + 1]
    BY Zenon
  <2>2. rows[r] = RowsOf(audit[r])
    BY <1>1, Zenon
  <2> QED
    BY <1>1, <1>2, <2>1, <2>2, Zenon
<1>6. phase[r] = PhaseOf(run[r], audit[r])
  BY <1>1
<1> QED
  BY <1>3, <1>4, <1>5, <1>6 DEF phase, rows, Gate!Silently, Gate!WithVerdict, Gate!Move

GateStep == [Gate!Next]_<<[r \in Runs |-> Phase(r)], [r \in Runs |-> VerdictRows(r)]>>

(* A step that leaves the phases and the verdicts alone is a stutter.       *)
LEMMA GateStutter ==
    ASSUME \A s \in Runs : PhaseOf(run'[s], audit'[s]) = PhaseOf(run[s], audit[s]),
           \A s \in Runs : RowsOf(audit'[s]) = RowsOf(audit[s])
    PROVE  GateStep
<1>1. /\ [s \in Runs |-> Phase(s)]' = [s \in Runs |-> PhaseOf(run'[s], audit'[s])]
      /\ [s \in Runs |-> VerdictRows(s)]' = [s \in Runs |-> RowsOf(audit'[s])]
  BY DEF Phase, PhaseOf, VerdictRows, RowsOf
<1>2. /\ [s \in Runs |-> Phase(s)] = [s \in Runs |-> PhaseOf(run[s], audit[s])]
      /\ [s \in Runs |-> VerdictRows(s)] = [s \in Runs |-> RowsOf(audit[s])]
  BY PhaseIs
<1>3. UNCHANGED <<[r \in Runs |-> Phase(r)], [r \in Runs |-> VerdictRows(r)]>>
  BY <1>1, <1>2, Zenon
<1> QED
  BY <1>3 DEF GateStep

LEMMA GateSteps ==
    \A r \in Runs :
        Gate!Submit(r) \/ Gate!Finish(r) \/ Gate!Fail(r) \/ Gate!Pause(r) \/ Gate!Reject(r)
          \/ Gate!Pass(r) \/ Gate!Approve(r) => GateStep
BY DEF GateStep, Gate!Next

(* What the writers make of a row's phase.                                  *)
LEMMA PhaseWrites ==
    ASSUME SInv, NEW r \in Runs
    PROVE  /\ run[r].status = "NONE" =>
                /\ PhaseOf(run[r], audit[r]) = "absent"
                /\ PhaseOf([run[r] EXCEPT !.status = "PENDING"], audit[r]) = "working"
           /\ run[r].status = "PENDING" =>
                /\ PhaseOf(run[r], audit[r]) = "working"
                /\ PhaseOf([run[r] EXCEPT !.status = "RUNNING"], audit[r]) = "working"
                /\ PhaseOf(UnpublishedRow(run[r]), audit[r]) = "failed"
           /\ (run[r].status = "RUNNING" /\ audit[r]["PASSED"] = 0) =>
                /\ PhaseOf(run[r], audit[r]) = "working"
                /\ PhaseOf(PausedRow(run[r]), audit[r]) = "paused"
                /\ PhaseOf(FailedRow(run[r]), audit[r]) = "failed"
                /\ PhaseOf(CompletedRow(run[r], "none"), audit[r]) = "finished"
                /\ PhaseOf(run[r], [audit[r] EXCEPT !["PASSED"] = @ + 1]) = "passed"
           /\ (run[r].status = "RUNNING" /\ audit[r]["PASSED"] = 1) =>
                /\ PhaseOf(run[r], audit[r]) = "passed"
                /\ PhaseOf(CompletedRow(run[r], "passed"), audit[r]) = "passed"
           /\ (run[r].status = "AWAITING_APPROVAL" /\ run[r].approval = "PENDING") =>
                /\ PhaseOf(run[r], audit[r]) = "paused"
                /\ \A d \in Deciders :
                      /\ PhaseOf(RejectedRow(run[r], d), audit[r]) = "rejected"
                      /\ PhaseOf(DecidedRow(run[r], d, "APPROVED", "approved"),
                                 [audit[r] EXCEPT !["APPROVED"] = @ + 1]) = "approved"
           /\ (run[r].status = "AWAITING_APPROVAL" /\ run[r].approval = "APPROVED") =>
                /\ PhaseOf(run[r], audit[r]) = "approved"
                /\ PhaseOf(CompletedRow(run[r], "approved"), audit[r]) = "approved"
           /\ \A kind \in {"workflow.approve", "workflow.reject"} :
                PhaseOf(run[r], [audit[r] EXCEPT ![kind] = @ + 1]) = PhaseOf(run[r], audit[r])
<1>1. /\ run[r] \in Row /\ audit[r] \in [AuditKind -> Nat]
      /\ Story(run[r], audit[r], wf.template)
  BY DEF SInv, TypeOK, Stories
<1> QED
  BY <1>1 DEF Story, Untouched, Verdict, PhaseOf, Row, AuditKind, UnpublishedRow, FailedRow,
              CompletedRow, PausedRow, RejectedRow, DecidedRow

LEMMA RowsWrites ==
    ASSUME NEW log \in [AuditKind -> Nat]
    PROVE  /\ RowsOf([log EXCEPT !["PASSED"] = @ + 1]) = RowsOf(log) + 1
           /\ RowsOf([log EXCEPT !["APPROVED"] = @ + 1]) = RowsOf(log) + 1
           /\ \A kind \in {"workflow.approve", "workflow.reject"} :
                RowsOf([log EXCEPT ![kind] = @ + 1]) = RowsOf(log)
BY DEF RowsOf, AuditKind

LEMMA TriggerGate ==
    ASSUME DeliveredOnce, SInv, NEW r \in Runs,
           CreateRun(r) \/ Trigger(r) \/ TriggerCrash(r)
    PROVE  GateStep
<1>1. /\ run \in [Runs -> Row] /\ run[r] \in Row /\ audit[r] \in [AuditKind -> Nat]
      /\ TriggerFits(trigger[r], run[r]) /\ Story(run[r], audit[r], wf.template)
  BY DEF SInv, TypeOK, Fitting, Stories
<1>2. CASE CreateRun(r)
  <2>1. /\ UNCHANGED audit /\ run'[r] = [run[r] EXCEPT !.status = "PENDING"]
        /\ \A s \in Runs : s # r => run'[s] = run[s]
        /\ run[r].status = "NONE"
    BY <1>1, <1>2 DEF CreateRun, TriggerFits
  <2>2. PhaseOf(run[r], audit[r]) = "absent" /\ PhaseOf(run'[r], audit'[r]) = "working"
    BY <1>1, <2>1, PhaseWrites
  <2>3. Gate!Silently(r, "absent", "working")
    BY <2>1, <2>2, GateMove
  <2> QED
    BY <2>3, GateSteps DEF Gate!Submit
<1>3. CASE FailUnpublished(r)
  <2>1. /\ UNCHANGED audit /\ run'[r] = UnpublishedRow(run[r])
        /\ \A s \in Runs : s # r => run'[s] = run[s]
        /\ run[r].status = "PENDING"
    BY <1>1, <1>3 DEF FailUnpublished, TriggerFits
  <2>2. PhaseOf(run[r], audit[r]) = "working" /\ PhaseOf(run'[r], audit'[r]) = "failed"
    BY <1>1, <2>1, PhaseWrites
  <2>3. Gate!Silently(r, "working", "failed")
    BY <2>1, <2>2, GateMove
  <2> QED
    BY <2>3, GateSteps DEF Gate!Fail
<1>4. CASE MarkWorkflowPending(r) \/ Publish(r) \/ PublishRaises(r) \/ TriggerCrash(r)
  <2>1. UNCHANGED <<run, audit>>
    BY <1>4 DEF MarkWorkflowPending, Publish, PublishRaises, TriggerCrash, dbVars
  <2> QED
    BY <2>1, GateStutter
<1> QED
  BY <1>2, <1>3, <1>4 DEF Trigger

LEMMA WorkerGate ==
    ASSUME DeliveredOnce, SInv, NEW w \in Workers,
           Execute(w) \/ Retry(w) \/ ChildKilled(w) \/ Redeliver(w)
    PROVE  GateStep
<1> DEFINE r == worker[w].run
<1>1. Execute(w) \/ ChildKilled(w)
  BY WorkerMoves DEF SInv
<1>2. /\ r \in Runs /\ run \in [Runs -> Row] /\ run[r] \in Row
      /\ audit \in [Runs -> [AuditKind -> Nat]] /\ audit[r] \in [AuditKind -> Nat]
      /\ "db" \notin Faults /\ "redeliver" \notin Faults
  BY BusyStep DEF SInv, TypeOK, DeliveredOnce
<1>3. WorkerFits(worker[w], run[r], audit[r]) /\ Story(run[r], audit[r], wf.template)
  BY <1>2, BusyStep DEF SInv, Fitting, Stories
<1>4. /\ worker[w].pc = "loaded" => run[r].status = "PENDING"
      /\ worker[w].pc = "executing" => run[r].status = "RUNNING" /\ audit[r]["PASSED"] = 0
      /\ worker[w].pc = "audited" => run[r].status = "RUNNING" /\ audit[r]["PASSED"] = 1
  BY <1>3 DEF WorkerFits
<1>5. \A row : run' = [run EXCEPT ![r] = row] =>
         run'[r] = row /\ \A s \in Runs : s # r => run'[s] = run[s]
  BY <1>2
<1>6. CASE StartRun(w)
  <2>1. /\ UNCHANGED audit /\ run'[r] = [run[r] EXCEPT !.status = "RUNNING"]
        /\ \A s \in Runs : s # r => run'[s] = run[s]
        /\ run[r].status = "PENDING"
    BY <1>2, <1>4, <1>6 DEF StartRun, Advance
  <2>2. PhaseOf(run[r], audit[r]) = "working" /\ PhaseOf(run'[r], audit'[r]) = "working"
    BY <1>2, <1>3, <2>1, PhaseWrites
  <2> QED
    BY <2>1, <2>2, GateStutter
<1>7. CASE DispatchPassed(w)
  <2>1. /\ UNCHANGED run /\ audit'[r] = [audit[r] EXCEPT !["PASSED"] = @ + 1]
        /\ \A s \in Runs : s # r => audit'[s] = audit[s]
        /\ run[r].status = "RUNNING" /\ audit[r]["PASSED"] = 0
    BY <1>2, <1>4, <1>7 DEF DispatchPassed, Advance, AddAudit
  <2>2. PhaseOf(run[r], audit[r]) = "working" /\ PhaseOf(run'[r], audit'[r]) = "passed"
    BY <1>2, <1>3, <2>1, PhaseWrites
  <2>3. Gate!WithVerdict(r, "working", "passed")
    BY <1>2, <2>1, <2>2, GateMove, RowsWrites
  <2> QED
    BY <1>2, <2>3, GateSteps DEF Gate!Pass
<1>8. CASE CompletePassed(w)
  <2>1. /\ UNCHANGED audit /\ run'[r] = CompletedRow(run[r], "passed")
        /\ \A s \in Runs : s # r => run'[s] = run[s]
        /\ run[r].status = "RUNNING" /\ audit[r]["PASSED"] = 1
    BY <1>2, <1>4, <1>5, <1>8 DEF CompletePassed, Finish, Advance
  <2>2. PhaseOf(run[r], audit[r]) = "passed" /\ PhaseOf(run'[r], audit'[r]) = "passed"
    BY <1>2, <1>3, <2>1, PhaseWrites
  <2> QED
    BY <2>1, <2>2, GateStutter
<1>9. CASE CompleteOther(w)
  <2>1. /\ UNCHANGED audit /\ run'[r] = CompletedRow(run[r], "none")
        /\ \A s \in Runs : s # r => run'[s] = run[s]
        /\ run[r].status = "RUNNING" /\ audit[r]["PASSED"] = 0
    BY <1>2, <1>4, <1>5, <1>9 DEF CompleteOther, Finish, Advance
  <2>2. PhaseOf(run[r], audit[r]) = "working" /\ PhaseOf(run'[r], audit'[r]) = "finished"
    BY <1>2, <1>3, <2>1, PhaseWrites
  <2>3. Gate!Silently(r, "working", "finished")
    BY <1>2, <2>1, <2>2, GateMove
  <2> QED
    BY <1>2, <2>3, GateSteps DEF Gate!Finish
<1>10. CASE Pause(w)
  <2>1. /\ UNCHANGED audit /\ run'[r] = PausedRow(run[r])
        /\ \A s \in Runs : s # r => run'[s] = run[s]
        /\ run[r].status = "RUNNING" /\ audit[r]["PASSED"] = 0
    BY <1>2, <1>4, <1>5, <1>10 DEF Pause, Finish, Advance
  <2>2. PhaseOf(run[r], audit[r]) = "working" /\ PhaseOf(run'[r], audit'[r]) = "paused"
    BY <1>2, <1>3, <2>1, PhaseWrites
  <2>3. Gate!Silently(r, "working", "paused")
    BY <1>2, <2>1, <2>2, GateMove
  <2> QED
    BY <1>2, <2>3, GateSteps DEF Gate!Pause
<1>11. CASE FailRun(w)
  <2>1. /\ UNCHANGED audit /\ run'[r] = FailedRow(run[r])
        /\ \A s \in Runs : s # r => run'[s] = run[s]
        /\ run[r].status = "RUNNING" /\ audit[r]["PASSED"] = 0
    BY <1>2, <1>4, <1>5, <1>11 DEF FailRun, Finish, Advance
  <2>2. PhaseOf(run[r], audit[r]) = "working" /\ PhaseOf(run'[r], audit'[r]) = "failed"
    BY <1>2, <1>3, <2>1, PhaseWrites
  <2>3. Gate!Silently(r, "working", "failed")
    BY <1>2, <2>1, <2>2, GateMove
  <2> QED
    BY <1>2, <2>3, GateSteps DEF Gate!Fail
<1>12. CASE LoadRun(w) \/ Reload(w) \/ Ack(w) \/ ChildKilled(w)
  <2>1. UNCHANGED <<run, audit>>
    BY <1>12 DEF LoadRun, Reload, Ack, ChildKilled, dbVars
  <2> QED
    BY <2>1, GateStutter
<1> QED
  BY <1>1, <1>6, <1>7, <1>8, <1>9, <1>10, <1>11, <1>12 DEF Execute

LEMMA DeciderGate ==
    ASSUME SInv, NEW d \in Deciders, decider[d].pc # "opened", Decide(d) \/ DecisionCrash(d)
    PROVE  GateStep
<1> DEFINE r == decider[d].run
<1>1. /\ r \in Runs /\ run \in [Runs -> Row] /\ run[r] \in Row
      /\ audit \in [Runs -> [AuditKind -> Nat]] /\ audit[r] \in [AuditKind -> Nat]
      /\ decider[d].pc \notin {"idle", "opened"}
  BY BusyStep DEF SInv, TypeOK, DecisionCrash
<1>2. DeciderFits(decider[d], run[r]) /\ Story(run[r], audit[r], wf.template)
  BY <1>1 DEF SInv, Fitting, Stories
<1>3. CASE CommitApproval(d)
  <2>1. /\ decider[d].pc = "loaded"
        /\ run'[r] = DecidedRow(run[r], d, "APPROVED", "approved")
        /\ audit'[r] = [audit[r] EXCEPT !["APPROVED"] = @ + 1]
        /\ \A s \in Runs : s # r => run'[s] = run[s] /\ audit'[s] = audit[s]
    BY <1>1, <1>3 DEF CommitApproval, Step, AddAudit
  <2>2. run[r].status = "AWAITING_APPROVAL" /\ run[r].approval = "PENDING"
    BY <1>2, <2>1 DEF DeciderFits
  <2>3. PhaseOf(run[r], audit[r]) = "paused" /\ PhaseOf(run'[r], audit'[r]) = "approved"
    <3>1. /\ PhaseOf(run[r], audit[r]) = "paused"
          /\ PhaseOf(DecidedRow(run[r], d, "APPROVED", "approved"),
                     [audit[r] EXCEPT !["APPROVED"] = @ + 1]) = "approved"
      BY <1>1, <2>2, PhaseWrites
    <3> QED
      BY <2>1, <3>1
  <2>4. Gate!WithVerdict(r, "paused", "approved")
    BY <1>1, <2>1, <2>3, GateMove, RowsWrites
  <2> QED
    BY <1>1, <2>4, GateSteps DEF Gate!Approve
<1>4. CASE CompleteApproved(d)
  <2>1. /\ decider[d].pc = "dispatched" /\ UNCHANGED audit
        /\ run'[r] = CompletedRow(run[r], "approved")
        /\ \A s \in Runs : s # r => run'[s] = run[s]
    BY <1>1, <1>4 DEF CompleteApproved, Step
  <2>2. run[r].status = "AWAITING_APPROVAL" /\ run[r].approval = "APPROVED"
    BY <1>2, <2>1 DEF DeciderFits
  <2>3. PhaseOf(run[r], audit[r]) = "approved" /\ PhaseOf(run'[r], audit'[r]) = "approved"
    <3>1. /\ PhaseOf(run[r], audit[r]) = "approved"
          /\ PhaseOf(CompletedRow(run[r], "approved"), audit[r]) = "approved"
      BY <1>1, <2>2, PhaseWrites
    <3> QED
      BY <2>1, <3>1
  <2> QED
    BY <2>1, <2>3, GateStutter
<1>5. CASE CommitRejection(d)
  <2>1. /\ decider[d].pc = "loaded" /\ UNCHANGED audit
        /\ run'[r] = RejectedRow(run[r], d)
        /\ \A s \in Runs : s # r => run'[s] = run[s]
    BY <1>1, <1>5 DEF CommitRejection, Step
  <2>2. run[r].status = "AWAITING_APPROVAL" /\ run[r].approval = "PENDING"
    BY <1>2, <2>1 DEF DeciderFits
  <2>3. PhaseOf(run[r], audit[r]) = "paused" /\ PhaseOf(run'[r], audit'[r]) = "rejected"
    <3>1. /\ PhaseOf(run[r], audit[r]) = "paused"
          /\ PhaseOf(RejectedRow(run[r], d), audit[r]) = "rejected"
      BY <1>1, <2>2, PhaseWrites
    <3> QED
      BY <2>1, <3>1
  <2>4. Gate!Silently(r, "paused", "rejected")
    BY <1>1, <2>1, <2>3, GateMove
  <2> QED
    BY <1>1, <2>4, GateSteps DEF Gate!Reject
<1>6. CASE LogDecision(d)
  <2> DEFINE kind == IF decider[d].verdict = "APPROVED" THEN "workflow.approve"
                                                         ELSE "workflow.reject"
  <2>1. /\ UNCHANGED run /\ audit' = [audit EXCEPT ![r][kind] = @ + 1]
        /\ kind \in {"workflow.approve", "workflow.reject"}
    BY <1>6 DEF LogDecision, AddAudit
  <2> HIDE DEF kind
  <2>2. /\ audit'[r] = [audit[r] EXCEPT ![kind] = @ + 1]
        /\ \A s \in Runs : s # r => audit'[s] = audit[s]
    BY <1>1, <2>1
  <2>3. /\ PhaseOf(run'[r], audit'[r]) = PhaseOf(run[r], audit[r])
        /\ RowsOf(audit'[r]) = RowsOf(audit[r])
    BY <1>1, <1>2, <2>1, <2>2, PhaseWrites, RowsWrites
  <2> QED
    BY <2>1, <2>2, <2>3, GateStutter
<1>7. CASE DecisionCrash(d)
  <2>1. UNCHANGED <<run, audit>>
    BY <1>7 DEF DecisionCrash, dbVars
  <2> QED
    BY <2>1, GateStutter
<1> QED
  BY <1>3, <1>4, <1>5, <1>6, <1>7 DEF Decide

LEMMA GateInit == Init => Gate!Init
<1> SUFFICES ASSUME Init PROVE Gate!Init
  OBVIOUS
<1>1. \A r \in Runs : Phase(r) = "absent" /\ VerdictRows(r) = 0
  BY DEF Init, Phase, VerdictRows, NoRow, AuditKind
<1> QED
  BY <1>1 DEF Gate!Init

LEMMA GateNext == ASSUME DeliveredOnce, SInv, [Next]_vars PROVE GateStep
<1>1. CASE UNCHANGED vars
  BY <1>1, GateStutter DEF vars
<1>2. CASE UNCHANGED <<run, audit>>
  BY <1>2, GateStutter
<1>3. ASSUME NEW d \in Deciders, OpenWorkflow(d) \/ Refuse(d) \/ Decide(d) \/ DecisionCrash(d)
      PROVE  GateStep
  <2>1. CASE Visit(d)
    <3>1. UNCHANGED <<run, audit>>
      BY <2>1, VisitMoves DEF SInv, dbVars
    <3> QED
      BY <1>2, <3>1
  <2> QED
    BY <1>3, <2>1, VisitOrDecide, DeciderGate
<1>4. CASE Next
  BY <1>2, <1>3, <1>4, TriggerGate, WorkerGate
  DEF Next, DeleteWorkflow, Receive, LoadPendingRun, dbVars
<1> QED
  BY <1>1, <1>4

(* The handlers and the executor implement the approval gate: each run is   *)
(* submitted, paused, passed, approved, rejected, finished or failed once,  *)
(* and every other step is invisible.                                       *)
THEOREM GateIsImplemented ==
    ASSUME DeliveredOnce
    PROVE  Spec /\ []SerialDecisions => ImplementsGate
<1>1. SInv /\ [Next]_vars =>
         [Gate!Next]_<<[r \in Runs |-> Phase(r)], [r \in Runs |-> VerdictRows(r)]>>
  BY GateNext DEF GateStep
<1> QED
  BY <1>1, GateInit, SerialInvariance, PTL DEF Spec, ImplementsGate, Gate!Spec

-----------------------------------------------------------------------------
(* The decision log and the workflow's status; here no API process may die  *)
(* inside a handler either.                                                 *)

HandlersFinish == Faults \subseteq {"kill"}

LEMMA FinishingIsDelivering == ASSUME HandlersFinish PROVE DeliveredOnce
BY DEF HandlersFinish, DeliveredOnce

LEMMA LogStepAt ==
    ASSUME Logged, NEW r \in Runs,
           \A s \in Runs : s # r => run'[s] = run[s] /\ audit'[s] = audit[s],
           \A s \in Runs : s # r => (Open(s)' <=> Open(s)),
           LogFits(run'[r], audit'[r], Open(r)')
    PROVE  Logged'
<1> SUFFICES ASSUME NEW s \in Runs PROVE LogFits(run'[s], audit'[s], Open(s)')
  BY DEF Logged
<1>1. CASE s = r
  BY <1>1
<1>2. CASE s # r
  BY <1>2 DEF Logged, LogFits
<1> QED
  BY <1>1, <1>2

(* A step that leaves the deciders alone, and of a row's decision and log   *)
(* changes nothing that matters.                                            *)
LEMMA LogKept ==
    ASSUME Logged, UNCHANGED decider,
           \A r \in Runs :
              /\ audit'[r]["workflow.approve"] = audit[r]["workflow.approve"]
              /\ audit'[r]["workflow.reject"] = audit[r]["workflow.reject"]
              /\ \/ run'[r].approval = run[r].approval
                 \/ run'[r].approval \notin Verdicts /\ run[r].approval \notin Verdicts
    PROVE  Logged'
<1>1. \A r \in Runs : Open(r)' <=> Open(r)
  BY DEF Open
<1> QED
  BY <1>1 DEF Logged, LogFits, Verdicts

LEMMA TriggerLogs ==
    ASSUME SInv, Logged, NEW r \in Runs, DeliveredOnce,
           CreateRun(r) \/ Trigger(r) \/ TriggerCrash(r)
    PROVE  Logged'
<1>1. UNCHANGED <<audit, decider>>
  BY DEF CreateRun, Trigger, MarkWorkflowPending, Publish, PublishRaises, FailUnpublished,
         TriggerCrash, dbVars
<1>2. run \in [Runs -> Row] /\ run[r] \in Row
  BY DEF SInv, TypeOK
<1>3. \/ UNCHANGED run
      \/ run' = [run EXCEPT ![r] = [run[r] EXCEPT !.status = "PENDING"]]
      \/ run' = [run EXCEPT ![r] = UnpublishedRow(run[r])]
  BY <1>2 DEF CreateRun, Trigger, MarkWorkflowPending, Publish, PublishRaises, FailUnpublished,
         TriggerCrash, dbVars
<1>4. /\ [run[r] EXCEPT !.status = "PENDING"].approval = run[r].approval
      /\ UnpublishedRow(run[r]).approval = run[r].approval
  BY <1>2 DEF Row, UnpublishedRow
<1>5. \A s \in Runs : run'[s].approval = run[s].approval
  BY <1>2, <1>3, <1>4
<1> QED
  BY <1>1, <1>5, LogKept

LEMMA WorkerLogs ==
    ASSUME SInv, Logged, NEW w \in Workers, DeliveredOnce,
           Execute(w) \/ Retry(w) \/ ChildKilled(w) \/ Redeliver(w)
    PROVE  Logged'
<1> DEFINE r == worker[w].run
<1>1. /\ r \in Runs /\ run \in [Runs -> Row] /\ run[r] \in Row
      /\ audit \in [Runs -> [AuditKind -> Nat]]
  BY BusyStep DEF SInv, TypeOK
<1>2. UNCHANGED decider /\ (UNCHANGED audit \/ AddAudit(r, "PASSED"))
  BY DEF Execute, LoadRun, StartRun, Reload, Finish, DispatchPassed, CompletePassed, CompleteOther, Pause, FailRun, Ack,
         Retry, ChildKilled, Redeliver, Advance, dbVars
<1>3. \A s \in Runs : /\ audit'[s]["workflow.approve"] = audit[s]["workflow.approve"]
                      /\ audit'[s]["workflow.reject"] = audit[s]["workflow.reject"]
  BY <1>1, <1>2 DEF AddAudit, AuditKind
<1>4. CASE UNCHANGED run
  BY <1>2, <1>3, <1>4, LogKept
<1>5. CASE StartRun(w)
  <2>1. run' = [run EXCEPT ![r] = [run[r] EXCEPT !.status = "RUNNING"]]
    BY <1>1, <1>5 DEF StartRun, DeliveredOnce
  <2>2. \A s \in Runs : run'[s].approval = run[s].approval
    BY <1>1, <2>1 DEF Row
  <2> QED
    BY <1>2, <1>3, <2>2, LogKept
<1>6. CASE CompletePassed(w) \/ CompleteOther(w) \/ Pause(w) \/ FailRun(w)
  <2>1. \/ run' = [run EXCEPT ![r] = CompletedRow(run[r], "passed")]
        \/ run' = [run EXCEPT ![r] = CompletedRow(run[r], "none")]
        \/ run' = [run EXCEPT ![r] = PausedRow(run[r])]
        \/ run' = [run EXCEPT ![r] = FailedRow(run[r])]
    BY <1>1, <1>6 DEF CompletePassed, Finish, CompleteOther, Pause, FailRun
  <2>2. /\ CompletedRow(run[r], "passed").approval = run[r].approval
        /\ CompletedRow(run[r], "none").approval = run[r].approval
        /\ PausedRow(run[r]).approval = "PENDING"
        /\ FailedRow(run[r]).approval = run[r].approval
    BY <1>1 DEF Row, CompletedRow, PausedRow, FailedRow, UnpublishedRow
  <2>3. run'[r].approval \in {run[r].approval, "PENDING"}
        /\ \A s \in Runs : s # r => run'[s] = run[s]
    BY <1>1, <2>1, <2>2
  <2>4. worker[w].pc \in {"executing", "audited"}
    BY <1>6 DEF CompletePassed, Finish, CompleteOther, Pause, FailRun, Advance, DeliveredOnce
  <2>5. run[r].status = "RUNNING"
    BY <1>1, <2>4, Alone
  <2>6. run[r].approval = "NULL"
    BY <1>1, <2>5 DEF SInv, Stories, Story, Untouched
  <2>7. run'[r].approval \notin Verdicts /\ run[r].approval \notin Verdicts
    BY <2>3, <2>6 DEF Verdicts
  <2> QED
    BY <1>2, <1>3, <2>3, <2>7, LogKept
<1> QED
  BY <1>4, <1>5, <1>6
  DEF Execute, LoadRun, Reload, DispatchPassed, Ack, Retry, ChildKilled, Redeliver, dbVars

LEMMA DeciderLogs ==
    ASSUME SInv, SerialDecisions, Logged, NEW d \in Deciders, HandlersFinish,
           decider[d].pc # "opened",
           Decide(d) \/ DecisionCrash(d)
    PROVE  Logged'
<1>0. PICK r \in Runs : r = decider[d].run
  BY BusyStep DEF SInv, TypeOK, DecisionCrash
<1>1. /\ r = decider[d].run /\ run \in [Runs -> Row] /\ run[r] \in Row
      /\ audit \in [Runs -> [AuditKind -> Nat]] /\ audit[r] \in [AuditKind -> Nat]
      /\ decider \in [Deciders -> DeciderState] /\ decider[d].pc \notin {"idle", "opened"}
      /\ "api" \notin Faults
  BY <1>0, BusyStep DEF SInv, TypeOK, HandlersFinish, DecisionCrash
<1>2. DeciderFits(decider[d], run[r])
  BY <1>1 DEF SInv, Fitting
<1>3. Open(r)
  BY <1>1 DEF Open
<1>4. LogFits(run[r], audit[r], TRUE)
  BY <1>1, <1>3 DEF Logged, LogFits
<1>5. ASSUME decider'[d].run = r, \A e \in Deciders : e # d => decider'[e] = decider[e]
      PROVE  \A s \in Runs : Open(s)' <=> Open(s)
  BY <1>1, <1>5 DEF Open
<1>6. CASE CommitApproval(d) \/ CompleteApproved(d) \/ CommitRejection(d)
  <2>1. decider'[d].run = r /\ \A e \in Deciders : e # d => decider'[e] = decider[e]
    <3>1. PICK to : decider' = [decider EXCEPT ![d].pc = to]
      BY <1>6 DEF CommitApproval, CompleteApproved, CommitRejection, Step
    <3> QED
      BY <1>1, <3>1 DEF DeciderState
  <2>2. \A s \in Runs : Open(s)' <=> Open(s)
    BY <1>5, <2>1
  <2>3. Open(r)'
    BY <1>1, <1>3, <2>2
  <2>4. /\ \A s \in Runs : s # r => run'[s] = run[s] /\ audit'[s] = audit[s]
        /\ audit'[r]["workflow.approve"] = audit[r]["workflow.approve"]
        /\ audit'[r]["workflow.reject"] = audit[r]["workflow.reject"]
    <3>1. UNCHANGED audit \/ AddAudit(r, "APPROVED")
      BY <1>1, <1>6 DEF CommitApproval, CompleteApproved, CommitRejection
    <3>2. \A s \in Runs : s # r => run'[s] = run[s]
      BY <1>1, <1>6 DEF CommitApproval, CompleteApproved, CommitRejection
    <3> QED
      BY <1>1, <3>1, <3>2 DEF AddAudit, AuditKind
  <2>5. LogFits(run'[r], audit'[r], Open(r)')
    BY <1>4, <2>3, <2>4 DEF LogFits
  <2> QED
    BY <1>1, <2>2, <2>4, <2>5, LogStepAt
<1>7. CASE LogDecision(d)
  <2>1. /\ decider' = [decider EXCEPT ![d] = IdleDecider] /\ UNCHANGED run
        /\ decider[d].pc = "decided"
    BY <1>7 DEF LogDecision
  <2>2. decider'[d].run = NoRun /\ \A e \in Deciders : e # d => decider'[e] = decider[e]
    BY <1>1, <2>1 DEF IdleDecider
  <2>3. \A e \in Deciders : e # d => decider[e].run # r
    BY <1>1, NoneAreFresh DEF SInv, Parked, SerialDecisions
  <2>4. ~Open(r)'
    BY <1>1, <2>2, <2>3, NoneAreFresh DEF Open
  <2>5. \A s \in Runs : s # r => (Open(s)' <=> Open(s))
    BY <1>1, <2>2, NoneAreFresh DEF Open
  <2>6. run[r].approval = decider[d].verdict
    BY <1>2, <2>1 DEF DeciderFits
  <2>7. CASE decider[d].verdict = "APPROVED"
    <3>1. AddAudit(r, "workflow.approve")
      BY <1>1, <1>7, <2>7 DEF LogDecision
    <3>2. /\ \A s \in Runs : s # r => audit'[s] = audit[s]
          /\ audit'[r]["workflow.approve"] = audit[r]["workflow.approve"] + 1
          /\ audit'[r]["workflow.reject"] = audit[r]["workflow.reject"]
      BY <1>1, <3>1 DEF AddAudit, AuditKind
    <3>3. LogFits(run'[r], audit'[r], Open(r)')
      BY <1>4, <2>1, <2>4, <2>6, <2>7, <3>2 DEF LogFits
    <3> QED
      BY <1>1, <2>1, <2>5, <3>2, <3>3, LogStepAt
  <2>8. CASE decider[d].verdict = "REJECTED"
    <3>1. AddAudit(r, "workflow.reject")
      BY <1>1, <1>7, <2>8 DEF LogDecision
    <3>2. /\ \A s \in Runs : s # r => audit'[s] = audit[s]
          /\ audit'[r]["workflow.reject"] = audit[r]["workflow.reject"] + 1
          /\ audit'[r]["workflow.approve"] = audit[r]["workflow.approve"]
      BY <1>1, <3>1 DEF AddAudit, AuditKind
    <3>3. LogFits(run'[r], audit'[r], Open(r)')
      BY <1>4, <2>1, <2>4, <2>6, <2>8, <3>2 DEF LogFits
    <3> QED
      BY <1>1, <2>1, <2>5, <3>2, <3>3, LogStepAt
  <2>9. decider[d].verdict \in Verdicts
    BY <1>1 DEF DeciderState
  <2> QED
    BY <2>7, <2>8, <2>9 DEF Verdicts
<1> QED
  BY <1>1, <1>6, <1>7 DEF Decide, DecisionCrash

LEMMA NextLogs ==
    ASSUME HandlersFinish, SInv, SerialDecisions, Logged, [Next]_vars
    PROVE  Logged'
<1>1. CASE UNCHANGED <<run, audit, decider>>
  BY <1>1, LogKept
<1>2. ASSUME NEW d \in Deciders, NEW r \in Runs, NEW v \in Verdicts, LoadPendingRun(d, r, v)
      PROVE  Logged'
  <2>1. /\ UNCHANGED <<run, audit>> /\ Decidable(r) /\ decider[d].pc = "opened"
        /\ \A e \in Deciders : e # d => decider'[e] = decider[e]
        /\ decider'[d] = [pc |-> "loaded", run |-> r, verdict |-> v,
                          wfSeen |-> decider[d].wfSeen]
    BY <1>2, LoadMoves DEF SInv, dbVars
  <2>2. decider[d].run = NoRun /\ decider'[d].run = r
    BY <2>1 DEF SInv, Parked
  <2>3. \A s \in Runs : s # r => (Open(s)' <=> Open(s))
    BY <2>1, <2>2, NoneAreFresh DEF Open
  <2>4. LogFits(run'[r], audit'[r], Open(r)')
    BY <2>1 DEF Decidable, Logged, LogFits
  <2> QED
    BY <2>1, <2>3, <2>4, LogStepAt
<1>3. ASSUME NEW d \in Deciders, OpenWorkflow(d) \/ Refuse(d) \/ Decide(d) \/ DecisionCrash(d)
      PROVE  Logged'
  <2>1. CASE Visit(d)
    <3>1. /\ UNCHANGED <<run, audit>> /\ decider'[d].run = NoRun /\ decider[d].run = NoRun
          /\ \A e \in Deciders : e # d => decider'[e] = decider[e]
      BY <2>1, VisitMoves DEF SInv, Parked, dbVars
    <3>2. \A s \in Runs : Open(s)' <=> Open(s)
      BY <3>1 DEF Open
    <3> QED
      BY <3>1, <3>2 DEF Logged, LogFits
  <2> QED
    BY <1>3, <2>1, VisitOrDecide, DeciderLogs
<1>4. UNCHANGED vars => UNCHANGED <<run, audit, decider>>
  BY DEF vars
<1>5. CASE Next
  BY <1>1, <1>2, <1>3, <1>5, TriggerLogs, WorkerLogs, FinishingIsDelivering
  DEF Next, DeleteWorkflow, Receive, dbVars
<1> QED
  BY <1>1, <1>4, <1>5

(* When no handler dies, the decision log agrees with the runs: one         *)
(* workflow.approve entry per approved run, one workflow.reject entry per   *)
(* rejected one, and none for any other (approve_run, reject_run).          *)
THEOREM DecisionsAreLogged ==
    ASSUME HandlersFinish
    PROVE  Spec /\ []SerialDecisions => []DecisionLogged
<1>1. Init => Logged
  BY InitServes
<1>2. SInv /\ SerialDecisions /\ Logged /\ [Next]_vars => Logged'
  BY NextLogs
<1>3. Logged => DecisionLogged
  BY DEF Logged, LogFits, Open, DecisionLogged
<1>4. Spec /\ []SerialDecisions => []SInv
  BY SerialInvariance, FinishingIsDelivering
<1> QED
  BY <1>1, <1>2, <1>3, <1>4, PTL DEF Spec

(* Runs that have ended by a decision or a completion keep their row.       *)
EndsStay ==
    \A r \in Runs : run[r].status \in {"COMPLETED", "REJECTED"} =>
        run'[r].status = run[r].status /\ run'[r].approval = run[r].approval

(* No handler holds a status of the workflow that it did not hold before or *)
(* has not just loaded.                                                     *)
ReadingStays ==
    \A d \in Deciders : decider'[d].pc \in Reading =>
        \/ decider[d].pc \in Reading /\ decider'[d].wfSeen = decider[d].wfSeen
        \/ decider'[d].wfSeen = wf.status

StaysBehind(status) ==
    status \in {"COMPLETED", "REJECTED"} => \E r \in Runs : run'[r].status = status

LEMMA BehindStays ==
    ASSUME EndsStay
    PROVE  \A status : Behind(status) => StaysBehind(status)
BY DEF EndsStay, Behind, StaysBehind

LEMMA RememberedStays ==
    ASSUME EndsStay, ReadingStays, Remembered, StaysBehind(wf'.status)
    PROVE  Remembered'
<1>1. ASSUME NEW d \in Deciders, decider'[d].pc \in Reading
      PROVE  StaysBehind(decider'[d].wfSeen)
  <2>1. Behind(decider'[d].wfSeen)
    BY <1>1 DEF Remembered, ReadingStays
  <2> QED
    BY <2>1, BehindStays
<1> QED
  BY <1>1 DEF Remembered, Behind, StaysBehind, Reading

(* Writing a status makes its run the last writer.                          *)
LEMMA WriterReflected ==
    ASSUME Reflected, EndsStay, ReadingStays, NEW r \in Runs, run'[r].status = wf'.status,
           \A w \in Workers : ~(worker'[w].run = r /\ worker'[w].pc \in Holding)
    PROVE  Reflected'
<1>1. LastWriter(r)'
  BY DEF LastWriter, Holding
<1>2. StaysBehind(wf'.status)
  BY DEF StaysBehind
<1>3. Remembered'
  BY <1>2, RememberedStays DEF Reflected
<1> QED
  BY <1>1, <1>3 DEF Reflected

(* A step that does not write the workflow's status keeps it accounted for, *)
(* if it keeps the last writer or records a skipped decision.               *)
LEMMA ReflectionKept ==
    ASSUME Reflected, wf'.status = wf.status, EndsStay, ReadingStays,
           Unmarked => Unmarked',
           \A r \in Runs : LastWriter(r) => LastWriter(r)' \/ Skipped'
    PROVE  Reflected'
<1>1. Remembered'
  <2>1. StaysBehind(wf'.status)
    BY BehindStays DEF Reflected, Remembered
  <2> QED
    BY <2>1, RememberedStays DEF Reflected
<1>2. Skipped => Skipped'
  BY DEF Skipped, SkippedBy, EndsStay
<1> QED
  BY <1>1, <1>2 DEF Reflected

(* Steps that touch neither the rows nor what the workers hold.             *)
LEMMA ReflectionFrame ==
    ASSUME Reflected, UNCHANGED <<run, trigger>>, wf'.status = wf.status, ReadingStays,
           \A w \in Workers : worker'[w].pc \in Holding =>
              \/ worker'[w].run = worker[w].run /\ worker'[w].wfSeen = wf.status
              \/ worker'[w] = worker[w]
    PROVE  Reflected'
<1>1. Unmarked => Unmarked'
  BY DEF Unmarked
<1>2. EndsStay
  BY DEF EndsStay
<1>3. \A r \in Runs : LastWriter(r) => LastWriter(r)'
  BY DEF LastWriter
<1> QED
  BY <1>1, <1>2, <1>3, ReflectionKept

LEMMA TriggerReflects ==
    ASSUME HandlersFinish, SInv, Reflected, NEW r \in Runs,
           CreateRun(r) \/ Trigger(r) \/ TriggerCrash(r)
    PROVE  Reflected'
<1>1. /\ run \in [Runs -> Row] /\ run[r] \in Row /\ trigger \in [Runs -> TriggerState]
      /\ TriggerFits(trigger[r], run[r]) /\ wf \in WorkflowRow
      /\ "api" \notin Faults /\ DeliveredOnce
  BY FinishingIsDelivering DEF SInv, TypeOK, Fitting, HandlersFinish
<1>2. UNCHANGED <<worker, decider>> /\ trigger[r].pc # "done"
  BY <1>1, TriggerMoves DEF SInv
<1>3. ReadingStays
  BY <1>2 DEF ReadingStays
<1>4. \A w \in Workers : ~(worker'[w].run = r /\ worker'[w].pc \in Holding)
  BY <1>2 DEF SInv, OneMessage, Holding
<1>5. CASE CreateRun(r)
  <2>1. /\ UNCHANGED wf /\ run[r].status = "NONE"
        /\ \A s \in Runs : s # r => run'[s] = run[s] /\ trigger'[s] = trigger[s]
        /\ trigger'[r].pc = "created" /\ trigger'[r].wfSeen = wf.status
    BY <1>1, <1>5 DEF CreateRun, TriggerFits
  <2>2. Unmarked => Unmarked'
    BY <2>1 DEF Unmarked
  <2>3. wf.status # "NONE"
    BY <1>1 DEF WorkflowRow, WorkflowStatus
  <2>4. \A s \in Runs : LastWriter(s) => LastWriter(s)'
    BY <1>2, <2>1, <2>3 DEF LastWriter
  <2>5. EndsStay
    BY <2>1 DEF EndsStay
  <2> QED
    BY <1>3, <2>1, <2>2, <2>4, <2>5, ReflectionKept
<1>6. CASE MarkWorkflowPending(r)
  <2>1. /\ UNCHANGED run /\ run[r].status = "PENDING" /\ trigger[r].pc = "created"
        /\ wf' = [wf EXCEPT !.status = IF trigger[r].wfSeen = "PENDING" THEN @ ELSE "PENDING"]
    BY <1>1, <1>6 DEF MarkWorkflowPending, TriggerFits, SetStatusUnlessSeen
  <2>2. EndsStay
    BY <2>1 DEF EndsStay
  <2>3. CASE trigger[r].wfSeen = "PENDING"
    <3>1. wf'.status = wf.status
      BY <1>1, <2>1, <2>3 DEF WorkflowRow
    <3>2. ~Unmarked
      BY <2>1, <2>3 DEF Unmarked
    <3>3. \A s \in Runs : LastWriter(s) => LastWriter(s)'
      BY <1>2, <2>1, <3>1 DEF LastWriter
    <3> QED
      BY <1>3, <2>2, <3>1, <3>2, <3>3, ReflectionKept
  <2>4. CASE trigger[r].wfSeen # "PENDING"
    <3>1. wf'.status = "PENDING"
      BY <1>1, <2>1, <2>4 DEF WorkflowRow
    <3> QED
      BY <1>3, <1>4, <2>1, <2>2, <3>1, WriterReflected
  <2> QED
    BY <2>3, <2>4
<1>7. CASE Publish(r) \/ PublishRaises(r)
  <2>1. UNCHANGED <<wf, run>> /\ trigger[r].pc = "marked"
    BY <1>7 DEF Publish, PublishRaises, dbVars
  <2>2. ~Unmarked
    BY <2>1 DEF Unmarked
  <2>3. \A s \in Runs : LastWriter(s) => LastWriter(s)'
    BY <1>2, <2>1 DEF LastWriter
  <2>4. EndsStay
    BY <2>1 DEF EndsStay
  <2> QED
    BY <1>3, <2>1, <2>2, <2>3, <2>4, ReflectionKept
<1>8. CASE FailUnpublished(r)
  <2>1. /\ run[r].status = "PENDING" /\ run' = [run EXCEPT ![r] = UnpublishedRow(run[r])]
        /\ wf' = [wf EXCEPT !.status = "FAILED"]
    BY <1>1, <1>8 DEF FailUnpublished, TriggerFits, SetStatus
  <2>2. run'[r].status = "FAILED" /\ wf'.status = "FAILED"
    BY <1>1, <2>1, RowStatuses DEF WorkflowRow
  <2>3. EndsStay
    BY <1>1, <2>1 DEF EndsStay
  <2> QED
    BY <1>3, <1>4, <2>2, <2>3, WriterReflected
<1> QED
  BY <1>1, <1>5, <1>6, <1>7, <1>8 DEF Trigger, TriggerCrash

LEMMA WorkerReflects ==
    ASSUME DeliveredOnce, SInv, Reflected, NEW w \in Workers,
           Execute(w) \/ Retry(w) \/ ChildKilled(w) \/ Redeliver(w)
    PROVE  Reflected'
<1> DEFINE r == worker[w].run
<1>1. /\ r \in Runs /\ run \in [Runs -> Row] /\ run[r] \in Row /\ wf \in WorkflowRow
      /\ worker[w].pc # "idle" /\ "redeliver" \notin Faults /\ "db" \notin Faults
  BY BusyStep DEF SInv, TypeOK, DeliveredOnce
<1>2. /\ UNCHANGED <<trigger, decider>>
      /\ \A v \in Workers : v # w => worker'[v] = worker[v]
  BY WorkerMoves DEF SInv
<1>3. ReadingStays
  BY <1>2 DEF ReadingStays
<1>4. trigger[r].pc = "done"
  BY <1>1 DEF SInv, OneMessage
<1>5. ASSUME UNCHANGED <<wf, run>>,
             worker'[w].pc \in Holding => worker'[w].run = r /\ worker'[w].wfSeen = wf.status
      PROVE  Reflected'
  BY <1>2, <1>3, <1>5, ReflectionFrame
<1>6. ASSUME NEW row \in Row, run' = [run EXCEPT ![r] = row],
             SetStatusUnlessSeen(row.status, worker[w].wfSeen),
             worker[w].pc \in Holding,
             row.status # run[r].status, run[r].status \in {"PENDING", "RUNNING"},
             worker'[w].pc \notin Holding
      PROVE  Reflected'
  <2>1. run'[r] = row /\ \A s \in Runs : s # r => run'[s] = run[s]
    BY <1>1, <1>6
  <2>2. EndsStay
    BY <1>6, <2>1 DEF EndsStay
  <2>3. \A v \in Workers : ~(worker'[v].run = r /\ worker'[v].pc \in Holding)
    BY <1>1, <1>2, <1>6 DEF SInv, OneMessage, Holding
  <2>4. CASE worker[w].wfSeen = row.status
    <3>1. wf'.status = wf.status
      BY <1>1, <1>6, <2>4 DEF SetStatusUnlessSeen, WorkflowRow
    <3>2. ~LastWriter(r)
      BY <1>1, <1>6, <2>4 DEF LastWriter
    <3>3. ~Unmarked
      BY <1>1, <1>4 DEF Unmarked
    <3>4. \A s \in Runs : LastWriter(s) => LastWriter(s)'
      BY <1>2, <1>6, <2>1, <3>1, <3>2 DEF LastWriter
    <3> QED
      BY <1>3, <2>2, <3>1, <3>3, <3>4, ReflectionKept
  <2>5. CASE worker[w].wfSeen # row.status
    <3>1. wf'.status = row.status
      BY <1>1, <1>6, <2>5 DEF SetStatusUnlessSeen, WorkflowRow
    <3> QED
      BY <1>1, <1>3, <2>1, <2>2, <2>3, <3>1, WriterReflected
  <2> QED
    BY <2>4, <2>5
<1>7. /\ worker[w].pc \in {"received", "loaded"} => run[r].status = "PENDING"
      /\ worker[w].pc \in {"executing", "dispatched", "audited"} => run[r].status = "RUNNING"
  BY <1>1, Alone
<1>8. CASE StartRun(w)
  <2> DEFINE row == [run[r] EXCEPT !.status = "RUNNING"]
  <2>1. Advance(w, "loaded", "started", "NONE")
    BY <1>8 DEF StartRun
  <2>2. worker[w].pc = "loaded" /\ worker'[w].pc = "started"
    BY <2>1, AdvanceMoves DEF SInv, TypeOK
  <2>3. /\ run' = [run EXCEPT ![r] = row]
        /\ SetStatusUnlessSeen("RUNNING", worker[w].wfSeen)
    BY <1>1, <1>8 DEF StartRun
  <2>4. row \in Row /\ row.status = "RUNNING" /\ run[r].status = "PENDING"
    BY <1>1, <1>7, <2>2, RowTypes DEF Row
  <2> HIDE DEF row
  <2>5. SetStatusUnlessSeen(row.status, worker[w].wfSeen)
    BY <2>3, <2>4
  <2>6. worker[w].pc \in Holding /\ worker'[w].pc \notin Holding
    BY <2>2 DEF Holding
  <2> QED
    BY <1>6, <2>3, <2>4, <2>5, <2>6
<1>9. ASSUME NEW row \in Row, row.status # "RUNNING",
             Finish(w, "executing", row) \/ Finish(w, "audited", row)
      PROVE  Reflected'
  <2>1. PICK from \in {"executing", "audited"} : Finish(w, from, row)
    BY <1>9
  <2>2. /\ Advance(w, from, "finished", "NONE") /\ run' = [run EXCEPT ![r] = row]
        /\ SetStatusUnlessSeen(row.status, worker[w].wfSeen)
    BY <2>1 DEF Finish
  <2>3. worker[w].pc = from /\ worker'[w].pc = "finished"
    BY <2>2, AdvanceMoves DEF SInv, TypeOK
  <2>4. worker[w].pc \in Holding /\ worker'[w].pc \notin Holding /\ run[r].status = "RUNNING"
    BY <1>7, <2>3 DEF Holding
  <2> QED
    BY <1>6, <1>9, <2>2, <2>4
<1>10. CASE CompletePassed(w) \/ CompleteOther(w) \/ Pause(w) \/ FailRun(w)
  <2>1. /\ CompletedRow(run[r], "passed") \in Row /\ CompletedRow(run[r], "none") \in Row
        /\ PausedRow(run[r]) \in Row /\ FailedRow(run[r]) \in Row
    BY <1>1, RowTypes
  <2>2. /\ CompletedRow(run[r], "passed").status # "RUNNING"
        /\ CompletedRow(run[r], "none").status # "RUNNING"
        /\ PausedRow(run[r]).status # "RUNNING" /\ FailedRow(run[r]).status # "RUNNING"
    BY <1>1, RowStatuses
  <2>3. \/ Finish(w, "audited", CompletedRow(run[r], "passed"))
        \/ Finish(w, "executing", CompletedRow(run[r], "none"))
        \/ Finish(w, "executing", PausedRow(run[r]))
        \/ Finish(w, "executing", FailedRow(run[r]))
    BY <1>1, <1>10 DEF CompletePassed, CompleteOther, Pause, FailRun
  <2> QED
    BY <1>9, <2>1, <2>2, <2>3
<1>11. CASE LoadRun(w) \/ Reload(w) \/ DispatchPassed(w)
  <2>1. UNCHANGED <<wf, run>>
    BY <1>11 DEF LoadRun, Reload, DispatchPassed, dbVars
  <2>2. PICK from, to, seen : /\ Advance(w, from, to, seen)
                              /\ to \in Holding => seen = wf.status
    BY <1>11 DEF LoadRun, Reload, DispatchPassed, Holding
  <2>3. worker'[w].pc \in Holding => worker'[w].run = r /\ worker'[w].wfSeen = wf.status
    BY <2>2, AdvanceMoves DEF SInv, TypeOK
  <2> QED
    BY <1>5, <2>1, <2>3
<1>12. CASE Ack(w) \/ ChildKilled(w)
  <2>1. UNCHANGED <<wf, run>> /\ worker' = [worker EXCEPT ![w] = IdleWorker]
    BY <1>12 DEF Ack, ChildKilled, dbVars
  <2>2. worker'[w].pc \notin Holding
    BY <2>1, IdleTypes DEF SInv, TypeOK, Holding
  <2> QED
    BY <1>5, <2>1, <2>2
<1> QED
  BY <1>1, <1>8, <1>10, <1>11, <1>12 DEF Execute, Retry, Redeliver

LEMMA ReceiveReflects ==
    ASSUME SInv, Reflected, NEW w \in Workers, NEW r \in Runs, NEW k \in 0..MaxRetries,
           Receive(w, r, k)
    PROVE  Reflected'
<1>1. /\ UNCHANGED <<wf, run, trigger, decider>>
      /\ \A v \in Workers : v # w => worker'[v] = worker[v]
      /\ worker'[w].pc = "received"
  BY ReceiveMoves DEF SInv, dbVars
<1>2. ReadingStays
  BY <1>1 DEF ReadingStays
<1> QED
  BY <1>1, <1>2, ReflectionFrame DEF Holding

(* The handlers that hold no run yet, and the one that loads it.            *)
LEMMA VisitReflects ==
    ASSUME SInv, Reflected, NEW d \in Deciders,
           Visit(d) \/ \E r \in Runs, v \in Verdicts : LoadPendingRun(d, r, v)
    PROVE  Reflected'
<1>1. CASE Visit(d)
  <2>1. /\ UNCHANGED <<wf, run, trigger, worker>>
        /\ \A e \in Deciders : e # d => decider'[e] = decider[e]
        /\ decider'[d].pc \in Reading => decider'[d].wfSeen = wf.status
    BY <1>1, VisitMoves DEF SInv, dbVars, Reading
  <2>2. ReadingStays
    BY <2>1 DEF ReadingStays
  <2> QED
    BY <2>1, <2>2, ReflectionFrame
<1>2. ASSUME NEW r \in Runs, NEW v \in Verdicts, LoadPendingRun(d, r, v) PROVE Reflected'
  <2>1. /\ UNCHANGED <<wf, run, trigger, worker>>
        /\ \A e \in Deciders : e # d => decider'[e] = decider[e]
        /\ decider[d].pc = "opened"
        /\ decider'[d] = [pc |-> "loaded", run |-> r, verdict |-> v,
                          wfSeen |-> decider[d].wfSeen]
    BY <1>2, LoadMoves DEF SInv, dbVars
  <2>2. decider'[d].wfSeen = decider[d].wfSeen
    BY <2>1
  <2>3. ReadingStays
    BY <2>1, <2>2 DEF ReadingStays, Reading
  <2> QED
    BY <2>1, <2>3, ReflectionFrame
<1> QED
  BY <1>1, <1>2

LEMMA DeciderReflects ==
    ASSUME HandlersFinish, SInv, SerialDecisions, Reflected, NEW d \in Deciders,
           decider[d].pc # "opened", Decide(d) \/ DecisionCrash(d)
    PROVE  Reflected'
<1>0. PICK r \in Runs : r = decider[d].run
  BY BusyStep DEF SInv, TypeOK, DecisionCrash
<1>1. /\ run \in [Runs -> Row] /\ run[r] \in Row /\ wf \in WorkflowRow
      /\ decider[d].pc \notin {"idle", "opened"} /\ "api" \notin Faults
  BY <1>0, BusyStep DEF SInv, TypeOK, HandlersFinish, DecisionCrash
<1>2. DeciderFits(decider[d], run[r])
  BY <1>0, <1>1 DEF SInv, Fitting
<1>3. /\ UNCHANGED <<trigger, worker>>
      /\ \A e \in Deciders : e # d => decider'[e] = decider[e]
      /\ \/ decider'[d] = IdleDecider /\ (LogDecision(d) \/ DecisionCrash(d))
         \/ /\ decider'[d].wfSeen = decider[d].wfSeen
            /\ \/ decider'[d].pc = "dispatched" /\ CommitApproval(d)
               \/ decider'[d].pc = "decided" /\ (CompleteApproved(d) \/ CommitRejection(d))
  BY DeciderMoves DEF SInv
<1>4. decider[d].pc \in {"loaded", "dispatched", "decided"}
  BY <1>1 DEF SInv, TypeOK, DeciderState
<1>5. CASE LogDecision(d)
  <2>1. UNCHANGED <<wf, run>> /\ decider' = [decider EXCEPT ![d] = IdleDecider]
    BY <1>5 DEF LogDecision
  <2>2. decider'[d].pc \notin Reading
    BY <2>1, IdleTypes DEF SInv, TypeOK, Reading
  <2>3. ReadingStays
    BY <1>3, <2>2 DEF ReadingStays
  <2> QED
    BY <1>3, <2>1, <2>3, ReflectionFrame
<1>6. CASE CommitApproval(d)
  <2>1. /\ UNCHANGED wf /\ decider[d].pc = "loaded"
        /\ run' = [run EXCEPT ![r] = DecidedRow(run[r], d, "APPROVED", "approved")]
        /\ decider' = [decider EXCEPT ![d].pc = "dispatched"]
    BY <1>0, <1>1, <1>6 DEF CommitApproval, Step
  <2>2. /\ decider'[d].pc = "dispatched" /\ decider'[d].wfSeen = decider[d].wfSeen
    BY <2>1 DEF SInv, TypeOK, DeciderState
  <2>3. /\ run'[r].status = run[r].status /\ run[r].status = "AWAITING_APPROVAL"
        /\ \A s \in Runs : s # r => run'[s] = run[s]
    BY <1>1, <1>2, <2>1, RowStatuses DEF DeciderFits
  <2>4. ReadingStays
    BY <1>3, <2>1, <2>2 DEF ReadingStays, Reading
  <2>5. EndsStay
    BY <2>3 DEF EndsStay
  <2>6. Unmarked => Unmarked'
    BY <1>3, <2>1 DEF Unmarked
  <2>7. \A s \in Runs : LastWriter(s) => LastWriter(s)'
    BY <1>3, <2>1, <2>3 DEF LastWriter
  <2> QED
    BY <2>1, <2>4, <2>5, <2>6, <2>7, ReflectionKept
<1>7. ASSUME NEW s \in {"COMPLETED", "REJECTED"}, decider[d].pc \in {"loaded", "dispatched"},
             SetStatusUnlessSeen(s, decider[d].wfSeen), run'[r].status = s,
             run'[r].approval \in Verdicts,
             \A q \in Runs : q # r => run'[q] = run[q],
             decider'[d].pc = "decided"
      PROVE  Reflected'
  <2>1. wf' = [wf EXCEPT !.status = IF decider[d].wfSeen = s THEN @ ELSE s]
    BY <1>7 DEF SetStatusUnlessSeen
  <2>2. run[r].status = "AWAITING_APPROVAL"
    BY <1>2, <1>7 DEF DeciderFits
  <2>3. EndsStay
    BY <1>7, <2>2 DEF EndsStay
  <2>4. ReadingStays
    BY <1>3, <1>7 DEF ReadingStays, Reading
  <2>5. CASE decider[d].wfSeen = s
    <3>1. wf'.status = wf.status
      BY <1>1, <2>1, <2>5 DEF WorkflowRow
    <3>2. Unmarked => Unmarked'
      BY <1>3, <3>1 DEF Unmarked
    <3>3. PICK q \in Runs : run[q].status = s
      BY <1>7, <2>5 DEF Reflected, Remembered, Behind, Reading
    <3>4. q # r /\ run'[q].status = s
      BY <1>7, <2>2, <3>3
    <3>5. SkippedBy(r, q)'
      BY <1>7, <3>4 DEF SkippedBy
    <3>6. LastWriter(r) => Skipped'
      BY <2>2, <3>1, <3>5 DEF LastWriter, Skipped
    <3>7. \A p \in Runs : p # r => (LastWriter(p) => LastWriter(p)')
      BY <1>3, <1>7, <3>1 DEF LastWriter
    <3> QED
      BY <2>3, <2>4, <3>1, <3>2, <3>6, <3>7, ReflectionKept
  <2>6. CASE decider[d].wfSeen # s
    <3>1. wf'.status = s
      BY <1>1, <2>1, <2>6 DEF WorkflowRow
    <3>2. \A w \in Workers : ~(worker'[w].run = r /\ worker'[w].pc \in Holding)
      BY <1>3, <2>2, Alone DEF Holding
    <3> QED
      BY <1>7, <2>3, <2>4, <3>1, <3>2, WriterReflected
  <2> QED
    BY <2>5, <2>6
<1>8. CASE CompleteApproved(d)
  <2>1. /\ decider[d].pc = "dispatched" /\ SetStatusUnlessSeen("COMPLETED", decider[d].wfSeen)
        /\ \A q \in Runs : q # r => run'[q] = run[q]
        /\ run'[r] = CompletedRow(run[r], "approved")
        /\ decider' = [decider EXCEPT ![d].pc = "decided"]
    BY <1>0, <1>1, <1>8 DEF CompleteApproved, Step
  <2>2. run'[r].status = "COMPLETED" /\ run'[r].approval \in Verdicts
    BY <1>1, <1>2, <2>1 DEF CompletedRow, Row, DeciderFits, Verdicts
  <2>3. decider'[d].pc = "decided"
    BY <2>1 DEF SInv, TypeOK, DeciderState
  <2> QED
    BY <1>7, <2>1, <2>2, <2>3
<1>9. CASE CommitRejection(d)
  <2>1. /\ decider[d].pc = "loaded" /\ SetStatusUnlessSeen("REJECTED", decider[d].wfSeen)
        /\ \A q \in Runs : q # r => run'[q] = run[q]
        /\ run'[r] = RejectedRow(run[r], d)
        /\ decider' = [decider EXCEPT ![d].pc = "decided"]
    BY <1>0, <1>1, <1>9 DEF CommitRejection, Step
  <2>2. run'[r].status = "REJECTED" /\ run'[r].approval \in Verdicts
    BY <1>1, <2>1 DEF RejectedRow, DecidedRow, Row, Verdicts
  <2>3. decider'[d].pc = "decided"
    BY <2>1 DEF SInv, TypeOK, DeciderState
  <2> QED
    BY <1>7, <2>1, <2>2, <2>3
<1> QED
  BY <1>1, <1>5, <1>6, <1>8, <1>9 DEF Decide, DecisionCrash

LEMMA NextReflects ==
    ASSUME HandlersFinish, SInv, SerialDecisions, Reflected, [Next]_vars
    PROVE  Reflected'
<1>1. CASE UNCHANGED vars \/ DeleteWorkflow
  <2>1. UNCHANGED <<run, trigger, decider, worker>> /\ wf'.status = wf.status
    BY <1>1 DEF vars, DeleteWorkflow, SInv, TypeOK, WorkflowRow
  <2>2. ReadingStays
    BY <2>1 DEF ReadingStays
  <2> QED
    BY <2>1, <2>2, ReflectionFrame
<1>2. ASSUME NEW d \in Deciders, OpenWorkflow(d) \/ Refuse(d) \/ Decide(d) \/ DecisionCrash(d)
      PROVE  Reflected'
  BY <1>2, VisitOrDecide, VisitReflects, DeciderReflects
<1>3. CASE Next
  BY <1>1, <1>2, <1>3, TriggerReflects, WorkerReflects, ReceiveReflects, VisitReflects,
     FinishingIsDelivering
  DEF Next
<1> QED
  BY <1>1, <1>3

LEMMA ReflectedMeans == SInv /\ Reflected => WorkflowReflectsARun
<1> SUFFICES ASSUME SInv, Unmarked, \A r \in Runs : ~Attended(r)
             PROVE  \A r \in Runs : run[r].status = "NONE"
  BY DEF WorkflowReflectsARun, Reflected, LastWriter, Skipped
<1> QED
  BY DEF Unmarked, Attended, SInv, Fitting, TriggerFits

(* When no handler dies, a workflow with nothing in flight shows the status *)
(* of one of its runs, although whoever loaded the status it is to write    *)
(* skips the column (run_workflow, _run_workflow_core, approve_run,         *)
(* reject_run).  The exception: a decision on a run can leave the workflow  *)
(* at AWAITING_APPROVAL, when its handler read the workflow while it showed *)
(* another run that had ended the same way.                                 *)
THEOREM WorkflowStatusIsARuns ==
    ASSUME HandlersFinish
    PROVE  Spec /\ []SerialDecisions => []WorkflowReflectsARun
<1>1. Init => Reflected
  BY InitServes
<1>2. SInv /\ SerialDecisions /\ Reflected /\ [Next]_vars => Reflected'
  BY NextReflects
<1>3. Spec /\ []SerialDecisions => []SInv
  BY SerialInvariance, FinishingIsDelivering
<1> QED
  BY <1>1, <1>2, <1>3, ReflectedMeans, PTL DEF Spec
=============================================================================
