---------------------------- MODULE ConnectorSync ----------------------------
(***************************************************************************)
(* One connector: its row, its stored credential, the API handlers that    *)
(* connect, disconnect, check and sync it, and the Celery task that runs   *)
(* the sync.  Every read of the row and every commit is a step, so         *)
(* handlers and tasks interleave as sessions of the database do.  A        *)
(* session writes a column only when the new value differs from the one    *)
(* it loaded (Written below).  An operator with a suffix is a mutation.    *)
(***************************************************************************)
EXTENDS Naturals, ConnectorAdapters

CONSTANTS Requests,        \* API requests that may be in progress at once
          Workers,         \* worker processes
          Adapter,         \* the adapter of the connector's provider
          MaxOps,          \* bound: API requests in all
          MaxRetries,      \* max_retries of the task
          MaxRedeliveries  \* bound: messages delivered twice

ASSUME ConnectorAssumption ==
  /\ Adapter \in Adapters
  /\ {MaxOps, MaxRetries, MaxRedeliveries} \subseteq Nat

VARIABLES conn,       \* the connector's row
          cred,       \* its credential row, or NoCred
          queue,      \* queue[n]: queued sync messages on their n-th retry
          req,        \* req[r]: what request r holds
          task,       \* task[w]: what worker w holds
          stranded,   \* history: a sync was lost while shown as running
          ops, redeliveries

vars == <<conn, cred, queue, req, task, stranded, ops, redeliveries>>

Row == [status: {"connected", "error", "disconnected"},
        reason: {"none", "health", "missing", "sync"},
        last: {"none", "running", "success", "failed"}]
NewRow == [status |-> "connected", reason |-> "none", last |-> "none"]

(* A credential row: its identity, whether it has a refresh token, whether its
   access token has expired. *)
Credential == [id: 0..(MaxOps + 1), refresh: BOOLEAN, expired: BOOLEAN]
NoCred == [id |-> 0, refresh |-> FALSE, expired |-> FALSE]
Stored == cred # NoCred
Expiring == Adapter.refresh # "none"

Operation == {"connect", "callback", "disconnect", "sync", "health"}
NoRequest == [pc |-> "idle", op |-> "health", conn |-> NewRow, cred |-> NoCred]
NoTask == [pc |-> "idle", tries |-> 0, conn |-> NewRow, cred |-> NoCred]

Written_Always(new, seen) == new

(* What a commit leaves of the row: the columns of "new", each written only
   when it differs from the value the session had loaded. *)
Written(new, seen) ==
  [c \in {"status", "reason", "last"} |-> IF new[c] = seen[c] THEN conn[c] ELSE new[c]]

(* connect_connector creates the row, connected and with a credential. *)
Init ==
  /\ conn = NewRow
  /\ cred = [id |-> 1, refresh |-> Expiring, expired |-> FALSE]
  /\ queue = [n \in 0..MaxRetries |-> 0]
  /\ req = [r \in Requests |-> NoRequest]
  /\ task = [w \in Workers |-> NoTask]
  /\ stranded = FALSE
  /\ ops = 0 /\ redeliveries = 0
-----------------------------------------------------------------------------
(* The API. *)

(* A handler loads the connector with its credential.  A sync is refused here
   (400) when the connector is not connected or has no credential. *)
LoadConnector(r, op) ==
  /\ req[r] = NoRequest
  /\ ops < MaxOps
  /\ op = "sync" => conn.status = "connected" /\ Stored
  /\ op = "callback" => Expiring
  /\ req' = [req EXCEPT ![r] = [pc |-> "loaded", op |-> op, conn |-> conn,
                                 cred |-> IF op = "sync" THEN NoCred ELSE cred]]
  /\ ops' = ops + 1
  /\ UNCHANGED <<conn, cred, queue, task, stranded, redeliveries>>

At(r, op, pc) == req[r].op = op /\ req[r].pc = pc
Finish(r) == req' = [req EXCEPT ![r] = NoRequest]
Go(r, pc) == req' = [req EXCEPT ![r] = [@ EXCEPT !.pc = pc, !.cred = NoCred]]

(* A request past its first commit needs nothing of what it loaded any more. *)
Forget(r, pc) == req' = [req EXCEPT ![r] = [NoRequest EXCEPT !.pc = pc, !.op = req[r].op]]

(* An UPDATE of a credential row that is gone raises, and so does the INSERT of
   a second one (connector_id is unique): the handler answers 500. *)
CredentialKept(seen) == cred.id = seen.id

(* Connecting again stores the new token in the credential row it loaded, or
   adds one.  A pasted token leaves refresh token and expiry as they were. *)
Reconnected(op, seen, id) ==
  IF op = "callback" THEN [id |-> id, refresh |-> TRUE, expired |-> FALSE]
  ELSE [id |-> id, refresh |-> seen.refresh, expired |-> seen.expired]

CommitConnect(r) ==
  LET q == req[r] IN
  /\ q.op \in {"connect", "callback"} /\ q.pc = "loaded"
  /\ IF CredentialKept(q.cred)
       THEN /\ cred' = Reconnected(q.op, cred, IF Stored THEN cred.id ELSE ops + 1)
            /\ conn' = Written([q.conn EXCEPT !.status = "connected", !.reason = "none"], q.conn)
       ELSE UNCHANGED <<conn, cred>>
  /\ Finish(r)
  /\ UNCHANGED <<queue, task, stranded, ops, redeliveries>>

(* The DELETE names the credential row the handler loaded; a row that is gone
   is no error. *)
CommitDisconnect(r) ==
  LET q == req[r] IN
  /\ At(r, "disconnect", "loaded")
  /\ cred' = IF Stored /\ CredentialKept(q.cred) THEN NoCred ELSE cred
  /\ conn' = Written([q.conn EXCEPT !.status = "disconnected", !.reason = "none"], q.conn)
  /\ Finish(r)
  /\ UNCHANGED <<queue, task, stranded, ops, redeliveries>>

(* sync_connector: "running" is committed first, then an audit row, which
   nothing here reads, and then the task is published. *)
CommitRunning(r) ==
  /\ At(r, "sync", "loaded")
  /\ conn' = Written([req[r].conn EXCEPT !.last = "running"], req[r].conn)
  /\ Forget(r, "running")
  /\ stranded' = FALSE
  /\ UNCHANGED <<cred, queue, task, ops, redeliveries>>

(* A sync is lost; that matters while the row shows one as running. *)
Lost == stranded' = (stranded \/ conn.last = "running")

Enqueue(n) == queue' = [queue EXCEPT ![n] = @ + 1]

Publish(r) ==
  /\ At(r, "sync", "running")
  /\ Enqueue(0)
  /\ Finish(r)
  /\ UNCHANGED <<conn, cred, task, stranded, ops, redeliveries>>

(* .delay raises; the broker may have taken the message all the same. *)
PublishRaises(r) ==
  /\ At(r, "sync", "running")
  /\ Enqueue(0) \/ UNCHANGED queue
  /\ Forget(r, "unpublished")
  /\ UNCHANGED <<conn, cred, task, stranded, ops, redeliveries>>

FailUnpublished_Swallowed(r) ==
  /\ At(r, "sync", "unpublished")
  /\ UNCHANGED conn
  /\ Finish(r)
  /\ UNCHANGED <<cred, queue, task, stranded, ops, redeliveries>>

FailUnpublished(r) ==
  /\ At(r, "sync", "unpublished")
  /\ conn' = [conn EXCEPT !.last = "failed"]
  /\ Finish(r)
  /\ UNCHANGED <<cred, queue, task, stranded, ops, redeliveries>>

(* connector_health: an expired token is refreshed first, and committed. *)
HealthRefresh(r) ==
  LET q == req[r] IN
  /\ At(r, "health", "loaded")
  /\ q.cred.refresh /\ q.cred.expired
  /\ \/ /\ CredentialKept(q.cred)
        /\ cred' = [cred EXCEPT !.expired = FALSE]
        /\ Go(r, "asking")
     \/ UNCHANGED cred /\ Go(r, "invalid")
     \/ UNCHANGED cred /\ Finish(r)
  /\ UNCHANGED <<conn, queue, task, stranded, ops, redeliveries>>

(* The adapter's health_check, or its absence when there is no credential. *)
AskHealth(r) ==
  LET q == req[r] IN
  /\ \/ At(r, "health", "asking")
     \/ At(r, "health", "loaded") /\ ~(q.cred.refresh /\ q.cred.expired)
  /\ \E response \in Response :
       IF (q.pc = "asking" \/ q.cred # NoCred) /\ TokenValid(response)
         THEN Finish(r) ELSE Go(r, "invalid")
  /\ UNCHANGED <<conn, cred, queue, task, stranded, ops, redeliveries>>

CommitHealth_Swapped(r) ==
  LET q == req[r] IN
  /\ At(r, "health", "invalid")
  /\ conn' = IF q.conn.status = "connected"
               THEN Written([q.conn EXCEPT !.status = "health", !.reason = "error"], q.conn)
               ELSE conn
  /\ Finish(r)
  /\ UNCHANGED <<cred, queue, task, stranded, ops, redeliveries>>

(* A connector that reads connected becomes an error; others are left alone. *)
CommitHealth(r) ==
  LET q == req[r] IN
  /\ At(r, "health", "invalid")
  /\ conn' = IF q.conn.status = "connected"
               THEN Written([q.conn EXCEPT !.status = "error", !.reason = "health"], q.conn)
               ELSE conn
  /\ Finish(r)
  /\ UNCHANGED <<cred, queue, task, stranded, ops, redeliveries>>

(* A query or commit of a handler raises, or the API dies in it.  Lost between
   the commit of "running" and the end of the handler (the audit row's commit,
   the correction after a failed publication), the sync is nobody's. *)
HandlerLost(r) ==
  /\ req[r] # NoRequest
  /\ IF req[r].pc \in {"running", "unpublished"} THEN Lost ELSE UNCHANGED stranded
  /\ Finish(r)
  /\ UNCHANGED <<conn, cred, queue, task, ops, redeliveries>>

RequestStep(r) ==
  \/ \E op \in Operation : LoadConnector(r, op)
  \/ CommitConnect(r) \/ CommitDisconnect(r)
  \/ CommitRunning(r) \/ Publish(r) \/ PublishRaises(r) \/ FailUnpublished(r)
  \/ HealthRefresh(r) \/ AskHealth(r) \/ CommitHealth(r)
-----------------------------------------------------------------------------
(* The worker: sync_connector_task. *)

Receive(w, n) ==
  /\ task[w] = NoTask
  /\ queue[n] > 0
  /\ queue' = [queue EXCEPT ![n] = @ - 1]
  /\ task' = [task EXCEPT ![w] = [pc |-> "received", tries |-> n, conn |-> conn, cred |-> NoCred]]
  /\ UNCHANGED <<conn, cred, req, stranded, ops, redeliveries>>

Acknowledge(w) == task' = [task EXCEPT ![w] = NoTask]

(* The credential is a query of its own; without one the sync is over. *)
LookUpCredential(w) ==
  /\ task[w].pc = "received"
  /\ task' = [task EXCEPT ![w] = [@ EXCEPT !.pc = IF Stored THEN "opened" ELSE "missing",
                                           !.cred = cred]]
  /\ UNCHANGED <<conn, cred, queue, req, stranded, ops, redeliveries>>

CommitMissing(w) ==
  /\ task[w].pc = "missing"
  /\ conn' = Written([status |-> "error", reason |-> "missing", last |-> "failed"], task[w].conn)
  /\ Acknowledge(w)
  /\ UNCHANGED <<cred, queue, req, stranded, ops, redeliveries>>

(* How the sync ended: a ConnectorValidationError and a ConnectorSyncError are
   handled alike, and only a success writes the row it had loaded. *)
Ended(w, outcome) ==
  task' = [task EXCEPT
    ![w] = CASE outcome = "ok" -> [@ EXCEPT !.pc = "ok", !.cred = NoCred]
             [] outcome \in {"invalid", "syncError"} -> [NoTask EXCEPT !.pc = "permanent", !.tries = task[w].tries]
             [] outcome = "raw" -> [NoTask EXCEPT !.pc = "raw", !.tries = task[w].tries]]

(* _ensure_fresh_credential: the refresh is committed, which expires what the
   session had loaded.  The provider may refuse it or fail to answer, and the
   row may be gone. *)
Refresh(w) ==
  LET t == task[w] IN
  /\ t.pc = "opened" /\ t.cred.refresh /\ t.cred.expired
  /\ \/ /\ CredentialKept(t.cred)
        /\ cred' = [cred EXCEPT !.expired = FALSE]
        /\ task' = [task EXCEPT ![w] = [NoTask EXCEPT !.pc = "refreshed", !.tries = t.tries]]
     \/ /\ \E outcome \in {"invalid", "raw"} : Ended(w, outcome)
        /\ UNCHANGED cred
  /\ UNCHANGED <<conn, queue, req, stranded, ops, redeliveries>>

(* The commit expired the connector: the next use of it loads it again. *)
Reload(w) ==
  /\ task[w].pc = "refreshed"
  /\ task' = [task EXCEPT ![w] = [@ EXCEPT !.pc = "syncing", !.conn = conn]]
  /\ UNCHANGED <<conn, cred, queue, req, stranded, ops, redeliveries>>

(* The adapter's sync, whose own steps are the module SourceSync. *)
RunSync(w) ==
  LET t == task[w] IN
  /\ \/ t.pc = "syncing"
     \/ t.pc = "opened" /\ ~(t.cred.refresh /\ t.cred.expired)
  /\ \E outcome \in SyncOutcomes(Adapter) : Ended(w, outcome)
  /\ UNCHANGED <<conn, cred, queue, req, stranded, ops, redeliveries>>

(* A query or commit of the task's own session fails inside its try. *)
StepFails(w) ==
  /\ task[w].pc \in {"received", "missing", "opened", "refreshed", "ok"}
  /\ Ended(w, "raw")
  /\ UNCHANGED <<conn, cred, queue, req, stranded, ops, redeliveries>>

Succeed(w) ==
  /\ task[w].pc = "ok"
  /\ conn' = Written([status |-> "connected", reason |-> "none", last |-> "success"], task[w].conn)
  /\ Acknowledge(w)
  /\ UNCHANGED <<cred, queue, req, stranded, ops, redeliveries>>

(* A permanent failure is written by a session of its own. *)
FailPermanently(w) ==
  /\ task[w].pc = "permanent"
  /\ conn' = [status |-> "error", reason |-> "sync", last |-> "failed"]
  /\ Acknowledge(w)
  /\ UNCHANGED <<cred, queue, req, stranded, ops, redeliveries>>

FailTransiently_KeepsStatus(w) ==
  /\ task[w].pc = "raw"
  /\ UNCHANGED conn
  /\ task' = [task EXCEPT ![w] = [@ EXCEPT !.pc = "retrying"]]
  /\ UNCHANGED <<cred, queue, req, stranded, ops, redeliveries>>

(* Anything else is written too, and then retried, up to MaxRetries times. *)
FailTransiently(w) ==
  /\ task[w].pc = "raw"
  /\ conn' = [conn EXCEPT !.last = "failed"]
  /\ task' = [task EXCEPT ![w] = [@ EXCEPT !.pc = "retrying"]]
  /\ UNCHANGED <<cred, queue, req, stranded, ops, redeliveries>>

Retry(w) ==
  LET t == task[w] IN
  /\ t.pc = "retrying"
  /\ IF t.tries < MaxRetries THEN Enqueue(t.tries + 1) ELSE UNCHANGED queue
  /\ Acknowledge(w)
  /\ UNCHANGED <<conn, cred, req, stranded, ops, redeliveries>>

(* Celery: the broker delivers an unacknowledged message again. *)
Redeliver(w) ==
  /\ task[w] # NoTask
  /\ redeliveries < MaxRedeliveries
  /\ redeliveries' = redeliveries + 1
  /\ Enqueue(task[w].tries)
  /\ UNCHANGED <<conn, cred, req, task, stranded, ops>>

(* A task ends outside every handler of its own and its message is acknowledged:
   its child process is killed, create_all fails before the try, or a query or
   commit fails in an except branch. *)
TaskLost(w) ==
  /\ task[w] # NoTask
  /\ Lost
  /\ Acknowledge(w)
  /\ UNCHANGED <<conn, cred, queue, req, ops, redeliveries>>

WorkerStep(w) ==
  \/ \E n \in 0..MaxRetries : Receive(w, n)
  \/ LookUpCredential(w) \/ CommitMissing(w) \/ Refresh(w) \/ Reload(w) \/ RunSync(w)
  \/ Succeed(w) \/ FailPermanently(w) \/ FailTransiently(w) \/ Retry(w)

(* An access token expires an hour after it was issued. *)
Expire ==
  /\ Stored /\ cred.refresh /\ ~cred.expired
  /\ cred' = [cred EXCEPT !.expired = TRUE]
  /\ UNCHANGED <<conn, queue, req, task, stranded, ops, redeliveries>>

Next ==
  \/ \E r \in Requests : RequestStep(r) \/ HandlerLost(r)
  \/ \E w \in Workers : WorkerStep(w) \/ StepFails(w) \/ Redeliver(w) \/ TaskLost(w)
  \/ Expire

(* A handler that was started ends, and a worker goes on while it has work. *)
Fairness ==
  /\ \A r \in Requests : WF_vars(RequestStep(r) /\ req[r] # NoRequest)
  /\ \A w \in Workers : WF_vars(WorkerStep(w))

Spec == Init /\ [][Next]_vars
FairSpec == Spec /\ Fairness
-----------------------------------------------------------------------------
(* Every variable has its type, the columns of models/connector.py too. *)
TypeOK ==
  /\ conn \in Row
  /\ cred \in Credential
  /\ queue \in [0..MaxRetries -> Nat]
  /\ req \in [Requests -> [pc: {"idle", "loaded", "running", "unpublished", "asking", "invalid"},
                           op: Operation, conn: Row, cred: Credential]]
  /\ task \in [Workers -> [pc: {"idle", "received", "missing", "opened", "refreshed", "syncing",
                                "ok", "permanent", "raw", "retrying"},
                           tries: 0..MaxRetries, conn: Row, cred: Credential]]
  /\ ops \in 0..MaxOps
  /\ redeliveries \in 0..MaxRedeliveries
  /\ stranded \in BOOLEAN

(* A sync shown as running is under way: its message is queued, a worker holds
   one, or the handler that announced it has yet to publish it.  Announcing,
   publishing and the outcome are commits of different processes, and what a
   task writes depends on what it loaded (connectors.py:270, tasks.py:257).  The
   one way out is a sync lost outside every handler, by the API after the commit
   of "running" or by the worker, since the last one was announced: nothing in
   the code looks for it. *)
RunningHasWork ==
  conn.last = "running" =>
    \/ \E n \in 0..MaxRetries : queue[n] > 0
    \/ \E w \in Workers : task[w] # NoTask
    \/ \E r \in Requests : req[r].op = "sync" /\ req[r].pc \in {"running", "unpublished"}
    \/ stranded

(* A disconnected connector reads connected again only by connecting, or by a
   sync that was started on a row that did not read connected: a sync started
   before the disconnect finds status unchanged in its session and leaves the
   column alone (tasks.py:257). *)
StaysDisconnected ==
  [][conn.status = "disconnected" /\ conn'.status = "connected" =>
       \/ \E r \in Requests : req[r].op \in {"connect", "callback"} /\ req'[r] = NoRequest
       \/ \E w \in Workers : /\ task[w].pc = "ok" /\ task'[w] = NoTask
                             /\ task[w].conn.status # "connected"]_vars

(* A secret that was removed comes back only by connecting again: a refresh in
   flight, of a task or of a health check, cannot restore it (tasks.py:167). *)
OnlyConnectStores ==
  [][~Stored /\ Stored' => \E r \in Requests : req[r].op \in {"connect", "callback"} /\ req'[r] = NoRequest]_vars

(* What disconnecting took away comes back by connecting, or as said above. *)
DisconnectHolds == StaysDisconnected /\ OnlyConnectStores

(* Every announced sync comes to a result, whatever is retried, redelivered or
   published ambiguously, unless it is lost as above. *)
Settles == conn.last = "running" ~> (conn.last # "running" \/ stranded)
=============================================================================
