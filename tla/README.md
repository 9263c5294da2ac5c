# EKOA in TLA+

EKOA is a multi-tenant knowledge platform: documents are uploaded into workspaces or synced from
eleven kinds of providers, indexed by workers, searched and discussed with an AI, served to other
tools through an MCP server, and processed by workflows, one of which stops for a human decision.
This directory holds TLA+ models of its stateful parts, TLC configurations that check them on small
instances, and TLAPS proofs of what matters most for every instance.

Paths below are relative to the repository. `PROJECT.json` maps every definition to the lines it
stands for and lists hazards, runs, mutations and theorems.

    tlc -workers 2 -config WorkflowRuns_serial.cfg MCWorkflowRuns
    tlapm WorkflowRuns_proofs.tla

## 1. The system

| component | state it keeps | operations | behaviours that are hard | module |
|---|---|---|---|---|
| Workflow runs, approval gate (`apps/api/routes/workflows.py`, `apps/worker/workflow_executor.py`) | `workflows`, `workflow_runs` rows | create, run, delete, execute, pause, approve, reject | the API and the workers write the same rows in several commits each, without locks or versions | `WorkflowRuns`, `ApprovalGate` |
| Task queue, workers (`apps/worker/main.py`, `tasks.py`) | Celery messages in Redis | publish, deliver, acknowledge late, retry | redelivery, killed children, ambiguous publishing | part of the three modules with tasks |
| Audit log (`services/audit_service.py`) | `audit_logs` | `log_action`, which commits its caller's session | splits the caller's transaction | part of `WorkflowRuns`, `WorkspaceKeys`, `ChatTurn` |
| Notifications, e-mail (`services/notification_service.py`, `email_service.py`) | `notifications` | notify, mark read, send | best effort inside another transaction; a mail server that fails | part of `WorkflowRuns`, `Membership` |
| Organizations, members, invites (`routes/organizations.py`, `routes/invites.py`, `services/invite_service.py`, `dependencies/authz.py`) | `organizations`, `org_members`, `org_invites` | create, delete; invite, revoke, accept; change role, remove | check-then-commit handlers that interleave | `Membership` |
| Workspaces, role overrides (`routes/workspaces.py`) | `workspaces`, `workspace_members` | create, delete, set and clear a role | the override outlives the membership it was granted for | `WorkspaceKeys` |
| Documents, ingestion (`routes/documents.py`, `tasks.py`, `embeddings.py`) | `documents`, `document_versions`, Qdrant points | upload, process with retries, index, delete | status written by the uploader, the task and the ingest workflow; the index never shrinks | `DocumentIngestion`, `SourceSync` |
| Retrieval (`apps/ai/retriever.py`) | two Redis caches | embed, search | results that outlive what they came from; collections that workspaces share | part of `ChatTurn` |
| Connectors, OAuth (`routes/connectors.py`, `oauth.py`, `services/connectors/`, `tasks.py`) | `connectors`, `connector_credentials` | connect, disconnect, check, sync, refresh a token | a sync that ends after a disconnect; concurrent and half-done syncs | `ConnectorSync`, `SourceSync`, `ConnectorAdapters` |
| Authentication (`services/auth_service.py`, `routes/auth.py`; `apps/web/src/lib/api.ts`) | `sessions`; a cookie and `localStorage` | login, rotate, logout; refresh on a 401 | two rotations of one token; tabs that share a cookie | `AuthSessions` |
| Rate limiter (`packages/shared-config/ekoa_config/rate_limit.py`) | per-process deque, or a Redis sorted set | check | the Redis commands are not atomic; window boundary | `RateLimiter` |
| MCP server, keys (`routes/mcp_keys.py`, `apps/mcp_server/`) | `mcp_api_keys` | create, revoke, rotate, verify, record usage | concurrent rotations, use during revocation | `WorkspaceKeys` |
| AI chat (`apps/ai/main.py`, `graph.py`) | `conversations`, `messages`, audit rows, `ai_call_logs` | chat, stream, research loop | turns that interleave at every await; a client that hangs up | `ChatTurn` |
| Activity, analytics, admin overview; the rest of the web front end; migrations, infrastructure; shared packages | none of their own | | | not modelled (section 12) |

How they interact. An API handler commits to PostgreSQL and then publishes a Celery message
(workflows, documents, connectors); a worker reads and writes the same rows in its own session.
Handlers and tasks call the audit and notification services as functions, and both of those commit
the session they are given, with everything it holds. Every handler asks `authz` for the caller's
role first and does not ask again. The task, the ingest workflow and the connectors write the Qdrant
collection that retrieval reads; the MCP server reads it too and shares only the database with the
API. Nothing takes a row lock or compares a version.

Two facts of the sessions recur in every module. The API's (`apps/api/db/engine.py:29`) do not
expire what they loaded on a commit and, like any SQLAlchemy session, write a column only when its
value differs from the one loaded; a worker's session does expire it and loads it again when it next
uses it. What a commit leaves therefore depends on what its session had read, and each module says where that
matters (`SetStatusUnlessSeen`, `Written`).

What makes each correct, in one line each:

- *runs*: nothing passes the approval gate without a recorded decision; the audit log and the row
  agree; an accepted run reaches a pause or an end;
- *members*: an organization keeps its owner; whoever is a member was invited; an invite works once;
- *documents*: a document that waits has something to wait for and settles; one that reads INDEXED is
  in the collection, tagged with its tenant;
- *connectors*: an announced sync comes to a result unless it was lost while shown as running; what disconnecting removed stays away; a remote
  item has one document, with a gapless history, and its newest text is what a search finds;
- *sessions*: a refresh token is exchanged once; a logout ends all that came from its login; a user is
  not signed out by calls of one tab that meet;
- *rate limiter*: no window admits more than the limit (on Redis: while checks do not overlap, and by
  the time at which each began), and a client that waits as told gets through;
- *workspaces, keys*: an override names a member; a replaced key is revoked; the audit log tells the
  life of each key and the row keeps who revoked it;
- *chat*: a turn reads and answers inside its workspace; one that runs to its end is on record, and one
  that was cut short leaves a beginning of its record.

## 2. Plan

| | module | proofs | open |
|---|---|---|---|
| 1 | `WorkflowRuns`, refining `ApprovalGate` | `WorkflowRuns_proofs` | |
| 2 | `Membership` | `Membership_proofs` | |
| 3 | `DocumentIngestion` | `DocumentIngestion_proofs` | |
| 4 | `ConnectorAdapters`, `ConnectorSync` | `ConnectorSync_proofs` | |
| 5 | `SourceSync` | `SourceSync_proofs` | |
| 6 | `RateLimiter` | `SessionsAndLimits_proofs` | |
| 7 | `AuthSessions` | `SessionsAndLimits_proofs` | |
| 8 | `WorkspaceKeys` | `WorkspaceKeys_proofs` | |
| 9 | `ChatTurn` | `ChatTurn_proofs` | |

The order was: first what decides and what is decided (1, 2), then what fills the index (3 to 5),
then what guards the doors (6 to 8), then what reads it all (9). Each module has one run that takes
every fault and interleaving the code handles; `WorkflowRuns` has three, because some of its
properties hold only without faults and its liveness needs a fairness the first does not state. The
modules keep to what the prover can use: constants with named assumptions, one action per read or
commit, no recursive operators. In each module an operator with a suffix (`Written_Always`) is a
mutation: a plausible mistake in that place, which the listed property must catch.

*Deadlock* is not checked in any run: each of these systems comes to rest when its requests are
answered and its bounds are used up, which is no fault.

## 3. WorkflowRuns and ApprovalGate

**Correspondence.** One action is one database transaction or one broker operation. `run` holds the
`workflow_runs` rows; the JSON `steps` are kept as the status of the approval step (`gate`) and
whether step s4 is listed (`dispatched`). `wf` is the workflow's row, `audit` counts the audit rows
that matter by kind, `notified` the runs with an approval notification. The records in `trigger`,
`worker` and `decider` are the handlers and tasks in flight, with what they read earlier.

- `CreateRun`, `MarkWorkflowPending`, `Publish`, `PublishRaises`, `FailUnpublished` are the commits
  of `run_workflow`; `DeleteWorkflow` may come at any point and stops neither messages nor workers.
- `Receive`, `LoadRun`, `StartRun`, `Reload`, then one of `CompleteOther`,
  `DispatchPassed`/`Reload`/`CompletePassed`, `Pause`, `FailRun`, then `Ack`, are the Celery task. It
  does not look at the run's status. `Pause` includes the notification, since `notify_sync` commits the
  session that holds the pause.
- `OpenWorkflow` and `LoadPendingRun`, between which the role of the caller is looked up, begin
  `approve_run` and `reject_run`; `Refuse` is a 403, 404 or 409. `CommitApproval`, `CompleteApproved`,
  `LogDecision` are the former. There are three commits because `log_action` commits what the session
  holds: the decision becomes durable before the run is completed. `CommitRejection`, `LogDecision`
  are the latter.
- All these sessions write the workflow's status only if it differs from what they loaded
  (`SetStatusUnlessSeen`). A handler goes by what it read first (`wfSeen`, from before the authorization);
  a worker's session, expired by each of its commits, by what it read after the last one (`LoadRun`,
  `Reload`, which the ingest executor does again after each document). Only `FailUnpublished` always
  writes, since its session has written PENDING itself. One detail is left out: the support executor reads the
  run's row (`run.input_json`) after the commit, so that a second delivery which finds it completed there
  does not write COMPLETED once more, where `CompleteOther` does.
- Faults are switched by the constant `Faults`: *publish* (`.delay` raises although the broker has
  the message), *redeliver* (late acknowledgement, visibility timeout or a lost worker), *kill* (a
  pool child dies: the message is acknowledged, `task_reject_on_worker_lost` being unset), *db* (a
  commit or query of the worker fails; the task is retried or given up), *api* (the API process
  dies between two commits).

`ApprovalGate` is the promise without any of this: a run works until it ends or pauses, a pause is
decided once, and a verdict row is written exactly when the run passes or is approved.

**Runs.**

| run | bounds | checks |
|---|---|---|
| `faults` | 1 run, 2 workers, 2 admins, every fault, 1 retry, 1 redelivery | `TypeOK`, `GateClosed`, `DispatchAudited` |
| `serial` | 2 runs, 2 workers, 1 admin, no fault | `VerdictsFit`, `DecisionLogged`, `WorkflowReflectsARun`, `ImplementsGate`, `ApprovalCompletes` |
| `live` | 1 run, 2 workers, 2 redeliveries, ambiguous publishing | `Settles` |
| `race` | 1 run, 1 worker, 2 admins, no fault | refutes `RejectedNotDispatched` |

Why these bounds are enough. Runs share only the workflow's row, so what is true of one run among
faults is tested with one run, and what relates runs through that row with two. Two workers and one
redelivery give every overlap of two executions of a message; two admins every overlap of two
decisions. The counters of audit rows and messages are bounded by the retry and redelivery bounds.
All three templates are initial states. `faults` has 1.39 million distinct
states, `serial` 291 and `live` 919 thousand, both without symmetry because they check liveness.
`faults` uses the symmetry of workers and admins and a `VIEW` (`GuardsAndGates`), which leaves out the
workflow's status and what was seen of it, the notifications, and how many audit rows there are of a
kind: no guard reads any of these, they enter nothing but themselves, and `GateClosed` and
`DispatchAudited` ask only whether a row is there. What relates the workflow's status to the runs is
checked by `serial`, without a view. Deadlock is not checked, since the system comes to rest when
every run is settled.

*Fairness* (`FairSpec`): a handler that has begun goes on, a worker goes on with its task, an idle
worker takes a queued message: uvicorn and Celery schedule those without further input. No
fairness is put on triggering, deciding, deletion or a fault. Progress is claimed only without
*kill*, *db* and *api*: a child killed or retries exhausted leave a run RUNNING, an API crash before
`.delay` leaves it PENDING, and no watchdog in the code picks such a run up.

**What the code does not do.** One text of the repository is refuted by a run; four more departures
the model shows as well are left in prose, since one short run each would say nothing else.

- `race`: two decisions that both loaded the pending run both commit; a REJECTED run can have the
  audit row, or the completed step s4, of an approval.
- A redelivered message executes a paused run again (`tests/test_phase5.py:111` expects a paused run
  to wait for a decision); if it then finds no sensitive data, because documents are gone or
  unreadable, the run completes while its approval is PENDING.
- After a decision the workflow may go on saying AWAITING_APPROVAL. The handler reads the workflow before
  it asks for the role and the run (`routes/workflows.py:396-398`). If it read COMPLETED, of another run,
  and this run is paused only then, its own COMPLETED equals what it loaded and is not written. That
  takes one admin and no fault. `WorkflowReflectsARun` states this as its one exception, with the other
  run that has ended the same way (`SkippedBy`); in every other rest the workflow shows one of its runs.
- The pause does not reset `completed_at`, against the docstring at `workflow_executor.py:350`.
- A handler that dies between the commits of an approval (`routes/workflows.py:395`) leaves an
  approved run that is not completed, and that no handler accepts any more.

Two lesser exposures of the same code have no property: a document that cannot be parsed is skipped
with a warning, so an audit over unreadable documents passes (`workflow_executor.py:187`), and a
workflow deleted while its run is paused leaves a run nobody can decide (`routes/workflows.py:149`).

**Proved**, for all constants satisfying the named assumptions (`WorkflowRuns_proofs`):
`TypeCorrect`, `GateStaysClosed`, `DispatchIsAudited`, `ApproverIsRecorded`, `NotifiedRunsWereGated`.
None of the last four is inductive alone. The invariant `IInv` adds, per run, what a write may rely
on (a paused row is undecided, an approver stands exactly by a verdict, what the row shows is in the
log) and, per process, what it still owes: a worker past `DispatchPassed` has its PASSED row, a
decider past `CommitApproval` its APPROVED row. Rows of the log are never removed, which is what
lets a step of one process keep the facts of the others. Each writer's row function gets a lemma
of its own, each action one step, and the temporal theorems follow by PTL.

What the run `serial` checks is proved in a wider setting than the run has: any number of runs,
workers and admins, as long as no two decisions on the *same run* are under way together
(`SerialDecisions`). Nothing in the code enforces that (there are no row locks, and `race` shows what
follows), so it is a hypothesis on the behaviour, `Spec /\ []SerialDecisions`:

- `VerdictsFitTheRuns` (`VerdictsFit`) and `GateIsImplemented` (the refinement of `ApprovalGate`) assume
  `DeliveredOnce`: no ambiguous publication, no redelivery and no failed commit of a worker, while
  children may be killed and the API may die anywhere;
- `DecisionsAreLogged` and `WorkflowStatusIsARuns` (`WorkflowReflectsARun`) assume `HandlersFinish`,
  which besides rules out that the API dies between the commits of one handler.

The invariant behind them (`SInv`) has, besides the types, four parts. `OneMessage`: a run's message is
in one place, its handler, the queue or one worker. `Stories`: what the row and its verdict rows look
like at each status. `Fitting`: what each process at a run knows of the row, which ties the two
together (a worker past its PASSED row finds the run RUNNING, a decider that loaded it finds it still
undecided). `Parked`: an idle process is at no run. `Logged` and `Reflected` extend it: a decision is in
the log unless its decider still is to write it, and either some run was the last to write the
workflow's status or a decision was skipped. For the latter it keeps that behind each COMPLETED or
REJECTED that the column shows or a handler has loaded there is a run that ended so (`Behind`), which
remains true because such runs are never started again (`Remembered`). For the refinement each action is shown to move one run, and its phase by a step of
`ApprovalGate` or not at all (`GateMove`).

*Only model-checked:* `Settles` and `ApprovalCompletes`, which are liveness, and the refutation `race`.

## 4. Membership

**Correspondence.** `role` is the role column of `org_members` per user, `joined` numbers the rows
a user has had (a row that is deleted and inserted again is another row), `invite` the `org_invites`
rows, `request` the handlers in flight. A handler is one action per read or commit:

- `Authorize` is the check of the organization and the caller's role all handlers but
  `accept_invite` begin with; nothing looks at either again. `Abandon` is a 4xx answer or a death of
  the process between two commits.
- `CommitInvite`, then `SendInvite` or `SendFails`: the row is committed before the mail is sent.
- `LoadInvite`, `CommitRevoke`; `LoadPending`, `LookUpMember`, `CommitAccept`, where the unique
  constraint of `org_members` fails the whole commit if the user became a member meanwhile.
- `LoadMember` (the member's row and the count of owners, merged, since the number of owners never
  changes), then `CommitRole` or `CommitRemoval`. An UPDATE of a row that is gone raises, a DELETE
  of one only warns.
- `Expire` is the passing of seven days; it may come at any point.

Each account has its own address, and a token is known once it was mailed. Audit rows, lists and
the e-mail's text are left out, and so is the creation of the organization (the initial state).

**Run.**

| run | bounds | checks |
|---|---|---|
| `members` | 3 users, 2 invites, 2 requests, mail faults | `TypeOK`, `OneOwner`, `MembersWereInvited`, `InviteUsedOnce` |

Two requests are enough for a check of one to be overtaken by a commit of the other; two invites let
one user be invited again after a removal, or two users at once; the third user lets an admin act on
another. The run has 3.06 million distinct states (with symmetry of requests, invites and users).
`InviteUsedOnce` counts: a user has joined at most once for each answered invite and each request
that may still hold one as pending; with one request at a time that is once per invite.

**What the code does not do.** An accept overtaken by a revocation wins, because the status is read
at `invite_service.py:121` and written after the look-up that follows; an accepted invite can be
revoked (`routes/invites.py:106` looks at no status); an invite reported as "The invite was not
created." was (`routes/invites.py:56`, the row is committed before the mail is sent). Not covered by
a property: a caller's role is read once at the start of a handler (`authz.py:89`), so one who is
demoted or removed meanwhile still finishes.

**Proved** (`Membership_proofs`), for any number of users, invites and concurrent requests:
`TypeCorrect`, `ExactlyOneOwner`, `OnlyInvitedMembers`. The owner is safe although the guard is
checked in one step and used in another, because with one owner it refuses the founder outright, so
no request in flight ever holds the founder (`Spares`). An accepted invite belongs to somebody
who joined because a request that will accept one acts for its address and what it saw of the
membership is backed by a row (`Backed`), and a role implies a row (`RowsCounted`). The proof fixes
what the code relies on silently: no handler grants the role owner.

`AnsweredInvitesAreSpent` states `InviteUsedOnce`. That bounds the times a user has joined by a
product and is not inductive, since a request that loaded an invite before it was answered is still
to commit. `Paid` adds those requests (`Claims`) to the rows made so far: an invite, when it is
answered, pays for the request that answers it and for every other that may hold it, and a later
commit spends a claim. Counting needs invites and requests to be finite sets (`FinitelyMany`): they
are rows of a table and calls under way.

## 5. DocumentIngestion

**Correspondence.** `status` is `Document.status`, `points` what the Qdrant collection holds of a
document: nothing, its points with the identifiers of organization and workspace, or its points
without them. An uploaded file never changes, so neither do its chunks. The model is about documents
with some text: one without chunks reads INDEXED with no point, in the code as in its intention.

- `CommitUpload`, `Publish`, `PublishRaises`, `FailUnpublished` are the commits of `upload_document`;
  `UploadDies` is a death of the process, or the audit entry between them that cannot be written.
- `Receive`, `MarkProcessing`, `Parse`, `Index`, `MarkIndexed` are `process_document`; `FailAndRetry`
  is its handler for the embedding model and the vector store, which writes FAILED and retries,
  `DatabaseFails` the `autoretry_for` of everything else, which writes nothing. `Redeliver` and
  `ChildKilled` are Celery's.
- `StartIngest`, `IngestOne`, `CommitIngest`, `SkipIngest` are `execute_ingest` of the workflow
  executor, over every document of a workspace, the deleted ones included. Its upsert names no
  organization and no workspace (`workflow_executor.py:151`).
- Deletion marks a row that nothing here reads, and is left out: the points of a deleted document
  stay, and so do search results cached for five minutes (`retriever.py:117`). That no property
  claims their absence is what the code does.

**Run** `ingest`: one document, two workers, two retries, one redelivery, one fault and two ingest
runs; `TypeOK`, `AwaitedHasWork`, `IndexedIsFound`, `Settles`; 165 715 distinct states. Documents
share no row and no point, so two of them only multiply the states; the theorems cover any number.
Two workers and a redelivery give two tasks on one document at once, two retries a status that is
written FAILED more than once.

*Fairness* (`FairSpec`): a publication that began goes on, and a worker that holds a message or may
take one acts; uvicorn and Celery schedule both. None is put on an upload, an ingest run or a fault,
and `Settles` claims nothing once a process has died or the database refused a commit: no watchdog
picks such a document up.

**Proved** (`DocumentIngestion_proofs`) for any number of documents, workers, retries and faults:
`TypeCorrect`, `IndexedDocumentsAreFound`, `AwaitedDocumentsHaveWork`. The invariant says of each
worker past its upsert that the points are there (`WorkersIndexed`). For the second it must be
sharper than the property: not every worker at a document will write its status, since one that
loaded INDEXED writes INDEXED only if that differs; `Will` names the ones that are sure to.

*Only model-checked:* `Settles`.

## 6. ConnectorSync

**Correspondence.** `conn` is the `connectors` row (status, the kind of its error, the last sync's
status), `cred` the credential row with an identity of its own, since a disconnect and a connect make
another row. `req` and `task` are handlers and Celery tasks, with the row each has loaded.
`LoadConnector` begins every handler; `CommitConnect` (a pasted token, or the OAuth callback),
`CommitDisconnect`, `CommitRunning`/`Publish`/`PublishRaises`/`FailUnpublished` (a sync) and
`HealthRefresh`/`AskHealth`/`CommitHealth` end one; `HandlerLost` is a query or commit that raises in
one, the audit row's between "running" and `.delay` among them, or a death of the API. `Receive`,
`LookUpCredential`, `CommitMissing`, `Refresh`, `Reload`, `RunSync`, then `Succeed`, `FailPermanently`
or `FailTransiently` and `Retry` are `sync_connector_task`, `StepFails` an error of its session inside
the `try`, and `TaskLost` its end outside every handler: in `create_all` before the `try`, in an except
branch, or with its process. `Written` is what a commit leaves of a row the session had loaded. How a sync can end comes from
`ConnectorAdapters`: one record for each of the eleven adapters, saying what it makes of an answer
that is refused, unauthorized or missing, and whether its tokens expire.

**Run** `connectors`: two requests at a time and three in all, one worker, Google Drive (a stable
refresh token, so every branch exists), one retry, one redelivery, and handlers and tasks lost at any
step and any number of times; `TypeOK`, `RunningHasWork`, `DisconnectHolds`, `Settles`; 1.46 million
states. Three requests are a sync, a
disconnect and a connect in every order beside a task and its retry. *Fairness* is as in section 5,
for handlers that were started and for workers.

**What the code does not do.** Nothing looks for a sync that was lost. If the audit row cannot be written
or the API dies between the commit of "running" (`routes/connectors.py:271`) and `.delay` (300), if the
correction after a failed `.delay` fails (306), or if the task ends outside its handlers (`tasks.py:221`,
a database error in 278-311, a killed child), the row reads running for ever, unless another writer
happens to change it. `stranded` records that this has happened since the last announcement, and
`RunningHasWork` and `Settles` claim everything but that. A sync that began on a row in error and ends after a disconnect makes
the row read connected without a credential: `DisconnectHolds` claims the contrary only for syncs
that loaded "connected", which leave the column alone. A health check turns a connected row into an
error and nothing but a sync or a connect turns it back (`routes/connectors.py:414`). The rotated
refresh token of the Microsoft providers is not stored (`_microsoft_common.py:106`), so an instance
with such an adapter is faithful only as long as the provider keeps accepting the old one.

**Proved** (`ConnectorSync_proofs`) for any number of requests, workers, retries and faults, and for
every adapter: `TypeCorrect`, `RunningSyncsHaveWork`, `DisconnectsHold`. A task at hand does not
mean that "running" will be cleared: one that loaded the row as "success" or "failed" may leave the
column alone. The invariant names those that report in any case (`WillReport`) and shows that
whenever the row reads running there is one, or a message that will load it as running, or the sync
is `stranded`. For the
credential it needs that every copy in flight can be told from none by its identity.

*Only model-checked:* `Settles`.

## 7. SourceSync

**Correspondence.** The loop that all adapters share: `Open` lists, `Consider` compares an item by
checksum with the newest version of its document, `Index` numbers the version and upserts its
points, `Commit` is the one commit at the end, `Abort` the rollback (of rows: points stay). `Edit` is
the provider's side, `DeleteDocument` a user's. An adapter's record says whether texts come with the
listing, what becomes of one that cannot be got, and what its checksum covers.

**Run** `source_sync`: one item, two workers, three texts of no, one and two chunks, three documents,
two edits, three syncs, one deletion, and one adapter of each kind the loop can tell apart (GitHub,
Google Drive, Jira, OneDrive, Teams, Outlook; the other five differ from one of these in nothing the
loop sees); `TypeOK`, `OneLiveDocument`, `VersionHistory`, `IndexSound`; 1.74 million states. Items
share no document, which is why one is enough; three syncs are what it takes for a version to follow
one that followed an aborted one.

**What the code does not do.** Nothing keeps two syncs of one connector apart
(`github.py:246`; `document_versions` has no unique constraint). All properties of this module are
claimed as long as two syncs never overlapped; the model shows two documents for one item and two
versions of one number as soon as they do. A shorter version leaves the tail of the longer one in the
collection (`embeddings.py:80`), so `IndexSound` speaks of the newest version's chunks and not of
all that a search finds. `list_documents` pages by offset over a column with ties.

**Proved** (`SourceSync_proofs`) for any number of items, texts, workers, documents, edits, syncs and
deletions, and for every adapter: `TypeCorrect`, `OneDocumentPerItem`, `HistoriesHold`,
`IndexIsSound`. The types hold whatever happens (`TypesOK`: among them, that a number given to a
document is never given again, that a document that exists has a version, and that nothing held or
committed is a placeholder unless the adapter indexes them). What else is true is true until two
syncs overlap, and only together (`Orderly`): one sync runs at most; what it has made can be
committed (`Ready`: one version for each item and each document, which continues its document or
begins one of an item that has none, and which the points already show); every document's versions
are in sequence (`History`); and one with no version pending and no aborted sync over it is covered
by its last (`Follows`). `Ready` is what makes the commit safe although the collection was written
item by item before it.

## 8. RateLimiter

**Correspondence.** `CheckMemory` is `RateLimiter.check`, atomic under its lock; `Prune`, `Count`,
`Oldest`, `Add`, `Expire` are the commands of `RedisRateLimiter.acheck`, between which other requests
run and time passes. Time is in ticks, so that a window is not a whole number of the moments at which
things happen. Members of the sorted set are taken to be distinct: they are made of the time and a
counter of the process, so two coincide only if two processes are at the same number at the same time. A request passes the general limit and, for a login, its route's.

**Run** `limiter`: both backends, two processes, limits of two and one, a window of two seconds in ticks
of half a second, checks that take up to a second, three requests, seven ticks, one failed command;
`LimiterTypeOK`, `AdmittedBounded`, `RetryAfterSuffices`; 4.64 million states. The window is longer than
the smallest Retry-After, so that one second is not always enough; seven ticks are most of two windows,
and every admission of the second can meet one of the first; three requests are one more than the
larger limit.

**What the code does not do.** The Redis backend is to behave "exactly as the in-memory
implementation" does (`rate_limit.py:88-89`). The model shows where it does not, and the properties claim
no more than holds:

- A check of Redis judges and records by the time it read before its first command
  (`rate_limit.py:104`), and may let its request through later. `AdmittedBounded` counts an admission at
  that time, as the set's scores do. By the later one two admissions may be closer than a window at a
  limit of one: a check begun at 0 that adds at 1 second, and one begun at 3 that finds it gone, in a
  window of 3.
- Checks that overlap all count before any adds, so the limit may be exceeded by one for each check
  under way besides the first. That bound holds over the window less the time a check may take
  (`Sure`), and not over all of it, since a check that began later may prune what still counts for one
  that began earlier.
- Once a window has exceeded its limit, or a command has failed, Retry-After may be too short: with a
  window of 6 seconds and a limit of two, entries of times 0, 3 and 3 refuse a request at 5 for two
  seconds, and at 7 two are left. `RetryAfterSuffices` is claimed on Redis as long as neither has
  happened, in memory always.
- An entry one window old still counts in memory and no longer in Redis. The key may vanish between
  `ZADD` and `EXPIRE`, and a failed `EXPIRE` leaves a key that never does (`rate_limit.py:117`); both
  are in the model, and the bounds are claimed without them.

**Proved** (second half of `SessionsAndLimits_proofs`) for any number of processes, requests and
faults, any limits, window and length of a tick: `LimiterTypes` (`LimiterTypeOK`), `WindowsAreBounded`
(`AdmittedBounded`), `RetryAfterIsEnough` (`RetryAfterSuffices`). `admitted` is a history that grows,
while the limiter looks only at what it keeps, so the invariants tie the two together.

- The loop that prunes a deque ends and leaves its end (`LoopEnds`, `PrunedEnd`); Retry-After, rounded
  to seconds, lasts until the oldest entry is out of the window (`WaitsLongEnough`).
- Memory (`InBucket`): of the attempts admitted since any time still in the window, there are no more
  than entries in the deque, less a prefix of older ones. With no prefix this bounds the window that
  ends now, since a deque never exceeds its limit.
- Redis: an attempt that surely counts has its entry (`Entered`), and attempts are numbered, so that
  the attempts of a window map one to one into the set. The entries of the set, and the checks that
  have counted and not yet added, together stay within the limit, or exceed it by fewer than there are
  processes (`SetBounded`). `Kept` says that a key outlives its entries by a second, unless a check is
  about to set its expiry.
- A step admits nothing in the past (`PastStays`), so that a window once bounded stays so.
- Retry-After: on Redis, as in memory, what refused a client is still there in full, the oldest entry
  due to leave in time (`Stuck`), or has begun to leave (`Left`), when time has passed and every check
  records a later one.

Both `WindowsAreBounded` and `RetryAfterIsEnough` assume `MaxDelay <= Second`: a check of Redis, from the
reading of the clock to the last command, takes no longer than the second by which
`EXPIRE int(window) + 1` exceeds the window (`rate_limit.py:117`). During a slower check the key may
expire under an entry that its reading of the clock still counts, and TLC refutes `AdmittedBounded` for a
delay of three ticks and a second of two. The run has a delay of a second exactly.

## 9. AuthSessions

**Correspondence.** `session` are the rows of `sessions`; a row's number stands for its refresh token
and the access token issued with it. The browser's state is `cookie`, `access` (`localStorage`), and
per tab a page, a promise and its forms. `Fetch`, `Answered`, `Unauthorized`, `Refreshed`,
`NotRefreshed` are `apiFetch` and `refreshAccessToken`; `LoadSession`, `CommitRotation` are
`rotate_refresh_token`; `Login`, `CommitLogin`, `LoggedIn`, `Logout`, `CommitLogout`, `LoggedOut` the
forms with their handlers; `TurnedAway` and `SubmitFails` a rate limit or a lost message.
`ProfileFails` is the shell's: it asks for `/auth/me` when it is mounted and takes any error for a
sign-out (`AppShell.tsx:51-60`), where other callers of `apiFetch` show it.

**Run** `sessions`: two tabs, two calls in one and one in the other, three sessions, two forms, two
expiries, one loss; `TypeOK`, `RotatedOnce`, `LogoutEnds`, `KeptSignedIn`; 2.73 million states. Two
calls in one tab are what shares a promise, the second tab what does not.

**What the code does not do.** Two tabs, a lost answer or a 429 sign the user out (`api.ts:335`): the
cookie they present has been exchanged; so does any error of `/auth/me`, a 500 included
(`AppShell.tsx:57`). `KeptSignedIn` therefore speaks of tabs that are not at it at
once, and of answers that are neither lost nor errors. A logout with an expired access token leaves cookie and session as they are (`api.ts:7`,
`routes/auth.py:140`); `LogoutEnds` speaks of a logout that was answered 204.

**Proved** (first half of `SessionsAndLimits_proofs`) for any number of tabs, calls and sessions: `TypeCorrect`, which
includes that whoever awaits a refresh awaits one under way, and `RotatesOnce`. Each promise belongs
to the tab that settles it (`WaitsOK`); a row with a successor is revoked and, unless two rotations
have met, at most one has read it and none once it has a successor (`Alone`).

`LogoutEndsTheLogin` and `StaysSignedIn` state `LogoutEnds` and `KeptSignedIn`. Both speak of a browser
in which no two tabs were refreshing at once and no answer was lost or an error, and rest on what is true of it
(`CalmInv`): one refresh or form is under way at a time; of one login's chain of rows only the last is
unrevoked; and the browser holds the token of that row, unless an answer that carries it is on its
way. A logout answered 204 then revoked the last row of its chain, which nothing follows, and a
refresh presents a token that is still good, so that only an expiry of the session ends it.

## 10. WorkspaceKeys

**Correspondence.** One workspace, its overrides and its keys. `Arrive`, `Load`, `Authorize`,
`CheckTarget`, `LoadOverride` are the reads all handlers begin with, `Commit...` their commits and
`Audit` the commit of `log_action`; `RequestDies` falls between the two, and `Logged` excuses the key
whose request died there. The three or four queries of an authorization are one step, `Authorize`: no
property depends on what changes between them. `Verify`, `RecordUsage`,
`CallFails` are the MCP server's. Roles in the organization change at any time, as `Membership` lets
them: the last admin stays.

**Run** `keys`: two users, two requests at once and three in all, one tool call, two keys, one change
of a role or expiry, one fault; `TypeOK`, `ReplacedIsRevoked`, `Logged`, `OverrideHadMember`,
`RevokerKept`; 5.1 million states. Two keys are one rotation; two requests are two rotations, or a
rotation and a revocation, of one key at once.

**What the code does not do.** Rotating a revoked key issues an active one; keys of a deleted
workspace go on working, since `Verify` looks at neither workspace nor creator; two requests that
had one key in hand may overwrite who revoked it (`contested`); an override outlives its membership;
a tool call that fails leaves no audit row, though `docs/mcp-server.md:22` says that every call does.

**Proved** (`WorkspaceKeys_proofs`): `TypeCorrect`, `ReplacedKeysAreRevoked`, `LifecycleIsLogged`,
`OverridesNameMembers`, `RevokersStay`. What a request loaded may be stale; the invariant says how
far: a key that was loaded active and is revoked now has been in the hands of two requests (`Met`),
and a target that was a member when it was checked is in `wasMember` from then on.

## 11. ChatTurn

**Correspondence.** A turn is admitted, opens its conversation, runs through the nodes of the graph
(`Security`, `Planner`, `Memory`, the three status nodes, the retrieval loop, `Synthesize`) and is
recorded (`AppendAnswer`, `StreamEnds`, `RecordGuardrailAudit`, `WriteAiCallLog`); `CutShort` ends it
anywhere. `Collection` may map two workspaces to one collection, as names built from eight digits of
an identifier can; `Search` filters by workspace, `StoreInCache` and `CacheHit` share results between
turns. An answer is the set of its sources and whether it has a text, a history its length.

**Run** `chat`: two turns, two users, two workspaces that share a collection, two conversations, two
documents, one query, two research passes; `TypeOK`, `Isolated`, `OnRecord`; 2.72 million states. One
query is the worst case for the cache, two turns for everything that turns share. `TypeOK` includes
that a research turn searches at most `MaxResearchPasses` times. `OnRecord` has three parts: a call log
stands only beside the rest (`LoggedInFull`), a turn that ran to its end has its answer and its log
(`RepliesAreRecorded`), and what a turn has stored, wherever it was cut short, is a beginning of its
record (`RecordedInOrder`).

**What the code does not do.** A streamed turn routed to the workflow, analytics or notification node
ends without the synthesize node, so its answer is neither sent nor stored and its flags are not
audited, against the docstrings at `apps/ai/main.py:229-234` and `445-446`. An answer of which nothing is
left without spaces and its line of citations is sent as a message (`main.py:512`), but `if
final_answer:` (526) neither stores nor audits it; `chat_sync` puts "No answer generated." in its place.
And a stream sends an answer before it stores it, so that one a client has may be missing from the
record if the turn is cut short in between. `OnRecord` therefore claims an answer's record of
synchronous turns and synthesized texts only, and only of turns that run to their end. The answer of
the notification node counts the notifications of all of a user's workspaces (`graph.py:506-561`);
`Isolated` is about documents, history and sources. The web front end never sends `conversation_id` back; memory is
compacted only on the way to "qa"; with Gemini only the last message is sent. Messages are kept as a
set, because `created_at` is the start of the transaction and orders them no further.

**Proved** (`ChatTurn_proofs`) for any number of turns, workspaces and documents, and any layout of
the collections: `TypeCorrect`, `TurnsAreIsolated`, `AnswersAreOnRecord`. The invariant carries two
things along: what a turn holds at each place belongs to its workspace, and so does each cached
result to the workspace of its key (`CacheOwned`); what has been recorded so far at each place
(`Recorded`), from which the order of the record follows.

## 12. Not modelled

The activity, analytics and admin endpoints are read-only; the web front end beyond `lib/api.ts` is a
client of the API without a protocol of its own; migrations and deployment files declare what the
models already say; shared packages are schemas, settings and formatting. Within modelled components
the contents of prompts, answers, mails and documents are abstracted, parsing and chunking may
succeed or fail, and registration, the creation of an organization (whose slug a unique constraint
decides) and of a workspace are initial states. Libraries (hashing, signing, SMTP, Celery, Qdrant)
appear only as the code uses them.

Out of the prover's reach are liveness, and so `Settles` and `ApprovalCompletes` stay with TLC.
