------------------------ MODULE ConnectorSync_proofs ------------------------
(***************************************************************************)
(* What ConnectorSync guarantees for every number of requests, workers,    *)
(* retries, redeliveries and lost syncs, and for every adapter.            *)
(***************************************************************************)
EXTENDS ConnectorSync, TLAPS

-----------------------------------------------------------------------------
(* The inductive invariant.                                                 *)

RequestState ==
  [pc: {"idle", "loaded", "running", "unpublished", "asking", "invalid"},
   op: Operation, conn: Row, cred: Credential]
TaskState ==
  [pc: {"idle", "received", "missing", "opened", "refreshed", "syncing", "ok", "permanent",
        "raw", "retrying"},
   tries: 0..MaxRetries, conn: Row, cred: Credential]

(* A stored credential can be told from none by its identity, and so can every
   copy of it that a request or a task has loaded. *)
Identified(c) == c # NoCred => c.id # 0
AllIdentified ==
  /\ Identified(cred)
  /\ \A r \in Requests : Identified(req[r].cred)
  /\ \A w \in Workers : Identified(task[w].cred)

(* Not every task clears "running": one that loaded the row as "success" or
   "failed" may leave the column alone.  This one will not, or is about to load
   the row again. *)
WillReport(t) == \/ t.conn.last = "running" /\ t.pc # "retrying"
                 \/ t.pc \in {"permanent", "raw", "refreshed"}
Announced(q) == q.op = "sync" /\ q.pc \in {"running", "unpublished"}
Queued == \E n \in 0..MaxRetries : queue[n] > 0
ReportToCome ==
  conn.last = "running" =>
    \/ Queued \/ stranded
    \/ \E w \in Workers : WillReport(task[w])
    \/ \E r \in Requests : Announced(req[r])

IInv == TypeOK /\ AllIdentified /\ ReportToCome

-----------------------------------------------------------------------------
(* The records.                                                             *)

LEMMA WrittenTyped ==
  ASSUME conn \in Row, NEW new \in Row, NEW seen \in Row
  PROVE  /\ Written(new, seen) \in Row
         /\ Written(new, seen).status = IF new.status = seen.status THEN conn.status ELSE new.status
         /\ Written(new, seen).last = IF new.last = seen.last THEN conn.last ELSE new.last
BY DEF Written, Row

LEMMA LastKept ==
  ASSUME conn \in Row, NEW new \in Row, NEW seen \in Row, new.last = seen.last,
         conn' = Written(new, seen)
  PROVE  conn' \in Row /\ conn'.last = conn.last
BY WrittenTyped

LEMMA NothingHeld ==
  /\ NewRow \in Row /\ NewRow.last = "none"
  /\ NoCred \in Credential /\ Identified(NoCred)
  /\ NoRequest \in RequestState /\ NoRequest.cred = NoCred /\ ~Announced(NoRequest)
  /\ NoTask \in TaskState /\ NoTask.cred = NoCred /\ ~WillReport(NoTask)
<1>1. NewRow \in Row /\ NewRow.last = "none"
  BY DEF NewRow, Row
<1>2. NoCred \in Credential /\ Identified(NoCred)
  BY ConnectorAssumption DEF NoCred, Credential, Identified
<1>3. NoRequest \in RequestState /\ NoRequest.cred = NoCred /\ ~Announced(NoRequest)
  BY <1>1, <1>2 DEF NoRequest, RequestState, Operation, Announced
<1>4. NoTask \in TaskState /\ NoTask.cred = NoCred /\ ~WillReport(NoTask)
  BY <1>1, <1>2, ConnectorAssumption DEF NoTask, TaskState, WillReport
<1> QED
  BY <1>1, <1>2, <1>3, <1>4

LEMMA Held ==
  ASSUME IInv
  PROVE  /\ conn \in Row /\ cred \in Credential /\ Identified(cred)
         /\ queue \in [0..MaxRetries -> Nat] /\ ops \in 0..MaxOps
         /\ redeliveries \in 0..MaxRedeliveries /\ stranded \in BOOLEAN
         /\ req \in [Requests -> RequestState]
         /\ \A r \in Requests : req[r] \in RequestState /\ Identified(req[r].cred)
         /\ task \in [Workers -> TaskState]
         /\ \A w \in Workers : task[w] \in TaskState /\ Identified(task[w].cred)
BY DEF IInv, TypeOK, AllIdentified, RequestState, TaskState

LEMMA StrandedKept ==
  ASSUME IInv, stranded' = stranded
  PROVE  stranded' \in BOOLEAN /\ (stranded => stranded')
BY DEF IInv, TypeOK

LEMMA Enqueued ==
  ASSUME IInv, NEW n \in 0..MaxRetries, Enqueue(n)
  PROVE  queue' \in [0..MaxRetries -> Nat] /\ Queued'
BY Held DEF Enqueue, Queued

-----------------------------------------------------------------------------
(* What every step has to keep.                                             *)

LEMMA RequestChanges ==
  ASSUME IInv, NEW r \in Requests, NEW x \in RequestState, req' = [req EXCEPT ![r] = x],
         Identified(x.cred), conn' \in Row, cred' \in Credential, Identified(cred'),
         queue' \in [0..MaxRetries -> Nat], task' = task, ops' \in 0..MaxOps,
         redeliveries' = redeliveries, stranded' \in BOOLEAN, Queued => Queued',
         stranded => stranded' \/ Announced(x),
         conn'.last = "running" => conn.last = "running" \/ Announced(x),
         Announced(req[r]) => Announced(x) \/ Queued' \/ stranded' \/ conn'.last # "running"
  PROVE  IInv'
<1>1. /\ req' \in [Requests -> RequestState] /\ req'[r] = x
      /\ \A q \in Requests \ {r} : req'[q] = req[q]
  BY Held
<1>2. TypeOK'
  BY <1>1, Held DEF TypeOK, RequestState, TaskState
<1>3. AllIdentified'
  BY <1>1, Held DEF AllIdentified
<1>4. ReportToCome'
  BY <1>1 DEF IInv, ReportToCome
<1> QED
  BY <1>2, <1>3, <1>4 DEF IInv

LEMMA TaskChanges ==
  ASSUME IInv, NEW w \in Workers, NEW x \in TaskState, task' = [task EXCEPT ![w] = x],
         Identified(x.cred), conn' \in Row, cred' \in Credential, Identified(cred'),
         queue' \in [0..MaxRetries -> Nat], req' = req, ops' = ops,
         redeliveries' \in 0..MaxRedeliveries, stranded' \in BOOLEAN, stranded => stranded',
         conn'.last = "running" => conn.last = "running",
         Queued => Queued' \/ WillReport(x) \/ conn'.last # "running",
         WillReport(task[w]) => WillReport(x) \/ Queued' \/ stranded' \/ conn'.last # "running"
  PROVE  IInv'
<1>1. /\ task' \in [Workers -> TaskState] /\ task'[w] = x
      /\ \A v \in Workers \ {w} : task'[v] = task[v]
  BY Held
<1>2. TypeOK'
  BY <1>1, Held DEF TypeOK, RequestState, TaskState
<1>3. AllIdentified'
  BY <1>1, Held DEF AllIdentified
<1>4. ReportToCome'
  BY <1>1 DEF IInv, ReportToCome
<1> QED
  BY <1>2, <1>3, <1>4 DEF IInv

(* A request that ends, or goes on without what it loaded. *)
LEMMA RequestEnds ==
  ASSUME IInv, NEW r \in Requests, Finish(r), conn' \in Row, cred' \in Credential, Identified(cred'),
         UNCHANGED <<queue, task, ops, redeliveries>>, stranded' \in BOOLEAN, stranded => stranded',
         conn'.last = "running" => conn.last = "running",
         ~Announced(req[r]) \/ stranded' \/ conn'.last # "running"
  PROVE  IInv'
<1>1. req' = [req EXCEPT ![r] = NoRequest]
  BY DEF Finish
<1>2. queue' \in [0..MaxRetries -> Nat] /\ ops' \in 0..MaxOps /\ (Queued => Queued')
  BY Held DEF Queued
<1> QED
  BY <1>1, <1>2, NothingHeld, RequestChanges

LEMMA RequestGoesOn ==
  ASSUME IInv, NEW r \in Requests, ~Announced(req[r]),
         NEW pc \in {"asking", "invalid"}, Go(r, pc),
         cred' \in Credential, Identified(cred'),
         UNCHANGED <<conn, queue, task, stranded, ops, redeliveries>>
  PROVE  IInv'
<1> PICK q \in RequestState : q = req[r]
  BY Held
<1> DEFINE x == [q EXCEPT !.pc = pc, !.cred = NoCred]
<1>1. req' = [req EXCEPT ![r] = x]
  BY DEF Go
<1>2. x \in RequestState /\ Identified(x.cred) /\ ~Announced(x)
  BY NothingHeld DEF RequestState, Announced
<1> HIDE DEF x
<1>3. /\ queue' \in [0..MaxRetries -> Nat] /\ ops' \in 0..MaxOps /\ (Queued => Queued')
      /\ conn' \in Row
  BY Held DEF Queued
<1> QED
  BY StrandedKept, <1>1, <1>2, <1>3, RequestChanges

-----------------------------------------------------------------------------
(* The handlers.                                                            *)

LEMMA LoadStep ==
  ASSUME IInv, NEW r \in Requests, NEW op \in Operation, LoadConnector(r, op)
  PROVE  IInv'
<1> PICK c : c = IF op = "sync" THEN NoCred ELSE cred
  OBVIOUS
<1> PICK x : x = [pc |-> "loaded", op |-> op, conn |-> conn, cred |-> c]
  OBVIOUS
<1>0. c \in Credential /\ Identified(c)
  BY Held, NothingHeld
<1>1. x \in RequestState /\ x.cred = c
  BY <1>0, Held DEF RequestState
<1>2. /\ req' = [req EXCEPT ![r] = x] /\ req[r] = NoRequest
      /\ UNCHANGED <<conn, cred, queue, task, stranded, redeliveries>>
  BY DEF LoadConnector
<1>3. ops' \in 0..MaxOps
  BY Held, ConnectorAssumption DEF LoadConnector
<1>4. /\ queue' \in [0..MaxRetries -> Nat] /\ (Queued => Queued') /\ Identified(x.cred)
      /\ conn' \in Row /\ cred' \in Credential /\ Identified(cred')
  BY <1>0, <1>1, <1>2, Held DEF Queued
<1> QED
  BY StrandedKept, <1>1, <1>2, <1>3, <1>4, NothingHeld, RequestChanges

LEMMA ConnectStep ==
  ASSUME IInv, NEW r \in Requests, CommitConnect(r)
  PROVE  IInv'
<1> PICK q \in RequestState : q = req[r] /\ Identified(q.cred)
  BY Held
<1>0. /\ Finish(r) /\ ~Announced(q) /\ UNCHANGED <<queue, task, stranded, ops, redeliveries>>
  BY DEF CommitConnect, Announced
<1>1. CASE UNCHANGED <<conn, cred>>
  BY StrandedKept, <1>0, <1>1, Held, RequestEnds
<1>2. CASE /\ cred' = Reconnected(q.op, cred, IF Stored THEN cred.id ELSE ops + 1)
           /\ conn' = Written([q.conn EXCEPT !.status = "connected", !.reason = "none"], q.conn)
  <2> PICK i : i = IF Stored THEN cred.id ELSE ops + 1
    OBVIOUS
  <2>1. i \in 0..(MaxOps + 1) /\ i # 0
    BY Held, ConnectorAssumption DEF Credential, Stored, Identified
  <2>2. cred' \in Credential /\ Identified(cred')
    BY <1>2, <2>1, Held DEF Reconnected, Credential, Identified
  <2> PICK new : new = [q.conn EXCEPT !.status = "connected", !.reason = "none"]
    OBVIOUS
  <2> PICK old : old = q.conn
    OBVIOUS
  <2>3. new \in Row /\ old \in Row /\ new.last = old.last
    BY DEF RequestState, Row
  <2>4. conn' \in Row /\ conn'.last = conn.last
    BY <1>2, <2>3, Held, LastKept
  <2> QED
    BY StrandedKept, <1>0, <2>2, <2>4, RequestEnds
<1> QED
  BY <1>1, <1>2 DEF CommitConnect

LEMMA DisconnectStep ==
  ASSUME IInv, NEW r \in Requests, CommitDisconnect(r)
  PROVE  IInv'
<1> PICK q \in RequestState : q = req[r] /\ Identified(q.cred)
  BY Held
<1>0. /\ Finish(r) /\ ~Announced(q) /\ UNCHANGED <<queue, task, stranded, ops, redeliveries>>
      /\ conn' = Written([q.conn EXCEPT !.status = "disconnected", !.reason = "none"], q.conn)
  BY DEF CommitDisconnect, At, Announced
<1>1. cred' = NoCred \/ cred' = cred
  BY DEF CommitDisconnect
<1>2. cred' \in Credential /\ Identified(cred')
  BY <1>1, Held, NothingHeld
<1> PICK new : new = [q.conn EXCEPT !.status = "disconnected", !.reason = "none"]
  OBVIOUS
<1> PICK old : old = q.conn
  OBVIOUS
<1>3. new \in Row /\ old \in Row /\ new.last = old.last
  BY DEF RequestState, Row
<1>4. conn' \in Row /\ conn'.last = conn.last
  BY <1>0, <1>3, Held, LastKept
<1> QED
  BY StrandedKept, <1>0, <1>2, <1>4, RequestEnds

LEMMA SyncSteps ==
  ASSUME IInv, NEW r \in Requests,
         CommitRunning(r) \/ Publish(r) \/ PublishRaises(r) \/ FailUnpublished(r)
  PROVE  IInv'
<1> PICK q \in RequestState : q = req[r]
  BY Held
<1>1. ASSUME NEW pc \in {"running", "unpublished"}, q.op = "sync", Forget(r, pc)
      PROVE  \E x \in RequestState : req' = [req EXCEPT ![r] = x] /\ Announced(x) /\ Identified(x.cred)
  <2> PICK x : x = [NoRequest EXCEPT !.pc = pc, !.op = q.op]
    OBVIOUS
  <2>1. x \in RequestState /\ x.cred = NoCred /\ x.op = "sync" /\ x.pc = pc
    BY <1>1, NothingHeld DEF NoRequest, RequestState
  <2> QED
    BY <1>1, <2>1, NothingHeld DEF Forget, Announced
<1>2. CASE CommitRunning(r)
  <2>1. PICK x \in RequestState : req' = [req EXCEPT ![r] = x] /\ Announced(x) /\ Identified(x.cred)
    BY <1>1, <1>2 DEF CommitRunning, At
  <2> PICK new : new = [q.conn EXCEPT !.last = "running"]
    OBVIOUS
  <2>2. new \in Row /\ q.conn \in Row
    BY DEF RequestState, Row
  <2>3. conn' \in Row
    BY <1>2, <2>2, Held, WrittenTyped DEF CommitRunning
  <2>4. /\ UNCHANGED <<cred, queue, task, ops, redeliveries>> /\ stranded' \in BOOLEAN
        /\ queue' \in [0..MaxRetries -> Nat] /\ (Queued => Queued') /\ ops' \in 0..MaxOps
        /\ cred' \in Credential /\ Identified(cred')
    BY <1>2, Held DEF CommitRunning, Queued
  <2> QED
    BY <2>1, <2>3, <2>4, RequestChanges
<1>3. CASE Publish(r)
  <2>1. /\ req' = [req EXCEPT ![r] = NoRequest]
        /\ UNCHANGED <<conn, cred, task, stranded, ops, redeliveries>> /\ Enqueue(0)
    BY <1>3 DEF Publish, Finish
  <2>2. /\ queue' \in [0..MaxRetries -> Nat] /\ Queued'
        /\ cred' \in Credential /\ Identified(cred') /\ conn' \in Row /\ ops' \in 0..MaxOps
    BY <2>1, Held, Enqueued, ConnectorAssumption
  <2> QED
    BY StrandedKept, <2>1, <2>2, NothingHeld, RequestChanges
<1>4. CASE PublishRaises(r)
  <2>1. PICK x \in RequestState : req' = [req EXCEPT ![r] = x] /\ Announced(x) /\ Identified(x.cred)
    BY <1>1, <1>4 DEF PublishRaises, At
  <2>2. UNCHANGED <<conn, cred, task, stranded, ops, redeliveries>> /\ (Enqueue(0) \/ UNCHANGED queue)
    BY <1>4 DEF PublishRaises
  <2>3. queue' \in [0..MaxRetries -> Nat] /\ (Queued => Queued')
    <3>1. CASE Enqueue(0)
      <4>1. 0 \in 0..MaxRetries
        BY ConnectorAssumption
      <4> QED
        BY <3>1, <4>1, Enqueued
    <3>2. CASE UNCHANGED queue
      BY <3>2, Held DEF Queued
    <3> QED
      BY <2>2, <3>1, <3>2
  <2>4. ops' \in 0..MaxOps /\ cred' \in Credential /\ Identified(cred') /\ conn' \in Row
    BY <2>2, Held
  <2> QED
    BY StrandedKept, <2>1, <2>2, <2>3, <2>4, RequestChanges
<1>5. CASE FailUnpublished(r)
  <2>1. /\ conn' = [conn EXCEPT !.last = "failed"] /\ Finish(r)
        /\ UNCHANGED <<cred, queue, task, stranded, ops, redeliveries>>
    BY <1>5 DEF FailUnpublished
  <2>2. conn' \in Row /\ conn'.last = "failed"
    BY <2>1, Held DEF Row
  <2>3. cred' \in Credential /\ Identified(cred')
    BY <2>1, Held
  <2> QED
    BY StrandedKept, <2>1, <2>2, <2>3, RequestEnds
<1> QED
  BY <1>2, <1>3, <1>4, <1>5

LEMMA HealthSteps ==
  ASSUME IInv, NEW r \in Requests, HealthRefresh(r) \/ AskHealth(r) \/ CommitHealth(r)
  PROVE  IInv'
<1> PICK q \in RequestState : q = req[r] /\ Identified(q.cred)
  BY Held
<1>0. ~Announced(q) /\ UNCHANGED <<queue, task, stranded, ops, redeliveries>>
  BY DEF HealthRefresh, AskHealth, CommitHealth, At, Announced
<1>1. CASE HealthRefresh(r)
  <2>1. cred' \in Credential /\ Identified(cred') /\ UNCHANGED conn /\ conn \in Row
    <3>1. CASE cred' = cred
      BY <1>1, <3>1, Held DEF HealthRefresh
    <3>2. CASE CredentialKept(q.cred) /\ cred' = [cred EXCEPT !.expired = FALSE]
      <4>1. q.cred # NoCred
        BY <1>1 DEF HealthRefresh, NoCred
      <4>2. cred.id # 0
        BY <3>2, <4>1 DEF CredentialKept, Identified
      <4> QED
        BY <1>1, <3>2, <4>2, Held DEF HealthRefresh, Credential, Identified
    <3> QED
      BY <1>1, <3>1, <3>2 DEF HealthRefresh
  <2>2. Go(r, "asking") \/ Go(r, "invalid") \/ Finish(r)
    BY <1>1 DEF HealthRefresh
  <2> QED
    BY StrandedKept, <1>0, <2>1, <2>2, RequestGoesOn, RequestEnds
<1>2. CASE AskHealth(r)
  <2>1. cred' \in Credential /\ Identified(cred') /\ UNCHANGED <<conn, cred>> /\ conn \in Row
    BY <1>2, Held DEF AskHealth
  <2>2. Go(r, "invalid") \/ Finish(r)
    BY <1>2 DEF AskHealth
  <2> QED
    BY StrandedKept, <1>0, <2>1, <2>2, RequestGoesOn, RequestEnds
<1>3. CASE CommitHealth(r)
  <2> PICK new : new = [q.conn EXCEPT !.status = "error", !.reason = "health"]
    OBVIOUS
  <2> PICK old : old = q.conn
    OBVIOUS
  <2>1. new \in Row /\ old \in Row /\ new.last = old.last
    BY DEF RequestState, Row
  <2>2. conn' = conn \/ conn' = Written(new, old)
    BY <1>3 DEF CommitHealth
  <2>3. conn' \in Row /\ conn'.last = conn.last
    BY <2>1, <2>2, Held, LastKept
  <2>4. Finish(r) /\ cred' \in Credential /\ Identified(cred')
    BY <1>3, Held DEF CommitHealth
  <2> QED
    BY StrandedKept, <1>0, <2>3, <2>4, RequestEnds
<1> QED
  BY <1>1, <1>2, <1>3

LEMMA LostStep ==
  ASSUME IInv, NEW r \in Requests, HandlerLost(r)
  PROVE  IInv'
<1> PICK q \in RequestState : q = req[r]
  BY Held
<1>1. /\ Finish(r) /\ UNCHANGED <<conn, cred, queue, task, ops, redeliveries>>
      /\ Announced(q) => Lost
      /\ Lost \/ UNCHANGED stranded
  BY DEF HandlerLost, Announced
<1>2. /\ stranded' \in BOOLEAN /\ (stranded => stranded')
      /\ Announced(q) => stranded' \/ conn'.last # "running"
  <2>1. CASE Lost
    BY <1>1, <2>1, Held DEF Lost
  <2>2. CASE UNCHANGED stranded /\ ~Announced(q)
    BY <2>2, StrandedKept
  <2> QED
    BY <1>1, <2>1, <2>2
<1>3. conn' \in Row /\ cred' \in Credential /\ Identified(cred')
  BY <1>1, Held
<1> QED
  BY <1>1, <1>2, <1>3, RequestEnds

-----------------------------------------------------------------------------
(* The worker.                                                              *)

LEMMA SyncEnds == SyncOutcomes(Adapter) \subseteq Outcome
<1>1. Adapter.infra \in Outcome
  BY ConnectorAssumption DEF Adapters, Outcome, GitHub, Jira, Confluence, Notion, Slack, GoogleDrive,
       GoogleSheets, GoogleCalendar, Outlook, OneDrive, MsTeams
<1>2. \A p, l \in Response : Opening(Adapter, p, l) \in Outcome
  BY DEF Opening, Probe, Listing, Response, Outcome
<1>3. "raw" \in Outcome
  BY DEF Outcome
<1> QED
  BY <1>1, <1>2, <1>3 DEF SyncOutcomes

LEMMA EndedTyped ==
  ASSUME IInv, NEW w \in Workers, NEW outcome \in Outcome, Ended(w, outcome),
         task[w].pc \in {"opened", "syncing"} \/ outcome = "raw"
  PROVE  \E x \in TaskState :
           /\ task' = [task EXCEPT ![w] = x] /\ Identified(x.cred)
           /\ WillReport(task[w]) => WillReport(x)
<1> PICK t \in TaskState : t = task[w]
  BY Held
<1>1. CASE outcome = "ok"
  <2> PICK x : x = [t EXCEPT !.pc = "ok", !.cred = NoCred]
    OBVIOUS
  <2>1. task' = [task EXCEPT ![w] = x]
    BY <1>1 DEF Ended
  <2>2. x \in TaskState /\ x.cred = NoCred /\ x.conn = t.conn /\ x.pc = "ok"
    BY NothingHeld DEF TaskState
  <2>3. task[w].pc \in {"opened", "syncing"}
    BY <1>1
  <2> QED
    <3>1. WillReport(task[w]) => WillReport(x)
      BY <2>2, <2>3 DEF WillReport
    <3> QED
      BY <2>1, <2>2, <3>1, NothingHeld
<1>2. CASE outcome \in {"invalid", "syncError"}
  <2> PICK x : x = [NoTask EXCEPT !.pc = "permanent", !.tries = t.tries]
    OBVIOUS
  <2>1. task' = [task EXCEPT ![w] = x]
    BY <1>2 DEF Ended
  <2>2. x \in TaskState /\ x.cred = NoCred /\ x.pc = "permanent"
    BY NothingHeld DEF TaskState, NoTask
  <2> QED
    BY <2>1, <2>2, NothingHeld DEF WillReport
<1>3. CASE outcome = "raw"
  <2> PICK x : x = [NoTask EXCEPT !.pc = "raw", !.tries = t.tries]
    OBVIOUS
  <2>1. task' = [task EXCEPT ![w] = x]
    BY <1>3 DEF Ended
  <2>2. x \in TaskState /\ x.cred = NoCred /\ x.pc = "raw"
    BY NothingHeld DEF TaskState, NoTask
  <2> QED
    BY <2>1, <2>2, NothingHeld DEF WillReport
<1> QED
  BY <1>1, <1>2, <1>3 DEF Outcome

(* A task that is over, its outcome on the row or its retry in the queue. *)
LEMMA TaskEnds ==
  ASSUME IInv, NEW w \in Workers, Acknowledge(w), conn' \in Row,
         UNCHANGED <<cred, req, stranded, ops, redeliveries>>,
         queue' \in [0..MaxRetries -> Nat], Queued => Queued',
         conn'.last = "running" => conn.last = "running" /\ ~WillReport(task[w])
  PROVE  IInv'
<1>1. /\ task' = [task EXCEPT ![w] = NoTask] /\ cred' \in Credential /\ Identified(cred')
      /\ redeliveries' \in 0..MaxRedeliveries /\ stranded' \in BOOLEAN /\ (stranded => stranded')
  BY Held, ConnectorAssumption DEF Acknowledge
<1> QED
  BY <1>1, NothingHeld, TaskChanges

LEMMA ReceiveStep ==
  ASSUME IInv, NEW w \in Workers, NEW n \in 0..MaxRetries, Receive(w, n)
  PROVE  IInv'
<1> PICK x : x = [pc |-> "received", tries |-> n, conn |-> conn, cred |-> NoCred]
  OBVIOUS
<1>1. x \in TaskState /\ x.cred = NoCred /\ x.conn = conn
  BY Held, NothingHeld DEF TaskState
<1>2. /\ task' = [task EXCEPT ![w] = x] /\ task[w] = NoTask
      /\ UNCHANGED <<conn, cred, req, stranded, ops, redeliveries>>
  BY DEF Receive
<1>3. queue' \in [0..MaxRetries -> Nat]
  BY Held DEF Receive
<1>4. conn'.last # "running" \/ WillReport(x)
  BY <1>1, <1>2 DEF WillReport
<1>5. /\ conn' \in Row /\ cred' \in Credential /\ Identified(cred')
      /\ redeliveries' \in 0..MaxRedeliveries /\ stranded' \in BOOLEAN /\ (stranded => stranded')
  BY <1>2, Held, ConnectorAssumption
<1> QED
  BY <1>1, <1>2, <1>3, <1>4, <1>5, NothingHeld, TaskChanges

(* A task goes on, with the row it had loaded or none. *)
LEMMA TaskGoesOn ==
  ASSUME IInv, NEW w \in Workers, NEW x \in TaskState, task' = [task EXCEPT ![w] = x],
         Identified(x.cred), UNCHANGED <<queue, req, stranded, ops, redeliveries>>,
         conn' \in Row, cred' \in Credential, Identified(cred'),
         conn'.last = "running" => conn.last = "running",
         WillReport(task[w]) => WillReport(x) \/ conn'.last # "running"
  PROVE  IInv'
<1>1. /\ queue' \in [0..MaxRetries -> Nat] /\ (Queued => Queued')
      /\ redeliveries' \in 0..MaxRedeliveries /\ stranded' \in BOOLEAN /\ (stranded => stranded')
  BY Held DEF Queued
<1> QED
  BY <1>1, TaskChanges

LEMMA LookUpStep ==
  ASSUME IInv, NEW w \in Workers, LookUpCredential(w)
  PROVE  IInv'
<1> PICK t \in TaskState : t = task[w]
  BY Held
<1> PICK pc : pc = IF Stored THEN "opened" ELSE "missing"
  OBVIOUS
<1> PICK x : x = [t EXCEPT !.pc = pc, !.cred = cred]
  OBVIOUS
<1>1. /\ task' = [task EXCEPT ![w] = x] /\ t.pc = "received"
      /\ UNCHANGED <<conn, cred, queue, req, stranded, ops, redeliveries>>
  BY DEF LookUpCredential
<1>2. pc \in {"opened", "missing"}
  OBVIOUS
<1>3. x \in TaskState /\ x.cred = cred /\ x.conn = t.conn
  BY <1>2, Held DEF TaskState
<1>4. WillReport(t) => WillReport(x)
  BY <1>1, <1>3 DEF WillReport
<1>5. conn' \in Row /\ cred' \in Credential /\ Identified(cred') /\ Identified(x.cred)
  BY <1>1, <1>3, Held
<1> QED
  BY <1>1, <1>3, <1>4, <1>5, TaskGoesOn

LEMMA MissingStep ==
  ASSUME IInv, NEW w \in Workers, CommitMissing(w)
  PROVE  IInv'
<1> PICK t \in TaskState : t = task[w]
  BY Held
<1> PICK new : new = [status |-> "error", reason |-> "missing", last |-> "failed"]
  OBVIOUS
<1>1. /\ conn' = Written(new, t.conn) /\ Acknowledge(w) /\ t.pc = "missing"
      /\ UNCHANGED <<cred, queue, req, stranded, ops, redeliveries>>
      /\ queue' \in [0..MaxRetries -> Nat] /\ (Queued => Queued')
  BY Held DEF CommitMissing, Queued
<1>2. new \in Row /\ t.conn \in Row /\ new.last = "failed"
  BY DEF Row, TaskState
<1>3. conn' \in Row /\ conn'.last = IF new.last = t.conn.last THEN conn.last ELSE new.last
  BY <1>1, <1>2, Held, WrittenTyped
<1>4. conn'.last = "running" => conn.last = "running" /\ ~WillReport(t)
  BY <1>1, <1>2, <1>3 DEF WillReport
<1> QED
  BY <1>1, <1>3, <1>4, TaskEnds

LEMMA EndStep ==
  ASSUME IInv, NEW w \in Workers, NEW outcome \in Outcome, Ended(w, outcome),
         task[w].pc \in {"opened", "syncing"} \/ outcome = "raw",
         UNCHANGED <<conn, cred, queue, req, stranded, ops, redeliveries>>
  PROVE  IInv'
<1>1. PICK x \in TaskState : /\ task' = [task EXCEPT ![w] = x] /\ Identified(x.cred)
                             /\ WillReport(task[w]) => WillReport(x)
  BY EndedTyped
<1>2. /\ conn' \in Row /\ cred' \in Credential /\ Identified(cred')
      /\ queue' \in [0..MaxRetries -> Nat] /\ (Queued => Queued')
      /\ redeliveries' \in 0..MaxRedeliveries /\ stranded' \in BOOLEAN /\ (stranded => stranded')
  BY Held, ConnectorAssumption DEF Queued
<1> QED
  BY <1>1, <1>2, TaskChanges

LEMMA FailsStep ==
  ASSUME IInv, NEW w \in Workers, StepFails(w)
  PROVE  IInv'
<1>1. "raw" \in Outcome /\ Ended(w, "raw")
  BY DEF Outcome, StepFails
<1> QED
  BY <1>1, EndStep DEF StepFails

LEMMA ReloadStep ==
  ASSUME IInv, NEW w \in Workers, Reload(w)
  PROVE  IInv'
<1> PICK t \in TaskState : t = task[w] /\ Identified(t.cred)
  BY Held
<1> PICK x : x = [t EXCEPT !.pc = "syncing", !.conn = conn]
  OBVIOUS
<1>1. /\ task' = [task EXCEPT ![w] = x]
      /\ UNCHANGED <<conn, cred, queue, req, stranded, ops, redeliveries>>
  BY DEF Reload
<1>2. x \in TaskState /\ x.cred = t.cred /\ x.conn = conn
  BY Held DEF TaskState
<1>3. conn'.last # "running" \/ WillReport(x)
  BY <1>1, <1>2 DEF WillReport
<1>4. conn' \in Row /\ cred' \in Credential /\ Identified(cred')
  BY <1>1, Held
<1> QED
  BY <1>1, <1>2, <1>3, <1>4, TaskGoesOn

LEMMA SyncStep ==
  ASSUME IInv, NEW w \in Workers, Refresh(w) \/ RunSync(w)
  PROVE  IInv'
<1> PICK t \in TaskState : t = task[w] /\ Identified(t.cred)
  BY Held
<1>1. CASE RunSync(w)
  <2>1. PICK outcome \in SyncOutcomes(Adapter) : Ended(w, outcome)
    BY <1>1 DEF RunSync
  <2>2. /\ task[w].pc \in {"opened", "syncing"}
        /\ UNCHANGED <<conn, cred, queue, req, stranded, ops, redeliveries>>
    BY <1>1 DEF RunSync
  <2> QED
    BY <2>1, <2>2, SyncEnds, EndStep
<1>2. CASE Refresh(w)
  <2>0. task[w].pc = "opened" /\ UNCHANGED <<conn, queue, req, stranded, ops, redeliveries>>
    BY <1>2 DEF Refresh
  <2>1. CASE UNCHANGED cred /\ \E outcome \in {"invalid", "raw"} : Ended(w, outcome)
    <3>1. PICK outcome \in Outcome : Ended(w, outcome)
      BY <2>1 DEF Outcome
    <3> QED
      BY <2>0, <2>1, <3>1, EndStep
  <2>2. CASE /\ CredentialKept(t.cred) /\ cred' = [cred EXCEPT !.expired = FALSE]
             /\ task' = [task EXCEPT ![w] = [NoTask EXCEPT !.pc = "refreshed", !.tries = t.tries]]
    <3> PICK x : x = [NoTask EXCEPT !.pc = "refreshed", !.tries = t.tries]
      OBVIOUS
    <3>1. task' = [task EXCEPT ![w] = x]
      BY <2>2
    <3>2. x \in TaskState /\ x.cred = NoCred /\ x.pc = "refreshed"
      BY NothingHeld DEF TaskState, NoTask
    <3>3. t.cred # NoCred
      BY <1>2 DEF Refresh, NoCred
    <3>4. cred.id # 0
      BY <2>2, <3>3 DEF CredentialKept, Identified
    <3>5. cred' \in Credential /\ Identified(cred')
      BY <2>2, <3>4, Held DEF Credential, Identified
    <3>6. WillReport(x) /\ conn' \in Row /\ conn' = conn
      BY <2>0, <3>2, Held DEF WillReport
    <3> QED
      BY <2>0, <3>1, <3>2, <3>5, <3>6, NothingHeld, TaskGoesOn
  <2> QED
    BY <1>2, <2>1, <2>2 DEF Refresh
<1> QED
  BY <1>1, <1>2

LEMMA OutcomeSteps ==
  ASSUME IInv, NEW w \in Workers,
         Succeed(w) \/ FailPermanently(w) \/ FailTransiently(w) \/ Retry(w)
  PROVE  IInv'
<1> PICK t \in TaskState : t = task[w]
  BY Held
<1>0. UNCHANGED <<cred, req, stranded, ops, redeliveries>>
  BY DEF Succeed, FailPermanently, FailTransiently, Retry
<1>1. CASE Succeed(w)
  <2> PICK new : new = [status |-> "connected", reason |-> "none", last |-> "success"]
    OBVIOUS
  <2>1. conn' = Written(new, t.conn) /\ UNCHANGED queue /\ t.pc = "ok" /\ Acknowledge(w)
    BY <1>1 DEF Succeed
  <2>2. new \in Row /\ t.conn \in Row /\ new.last = "success"
    BY DEF Row, TaskState
  <2>3. conn' \in Row /\ conn'.last = IF new.last = t.conn.last THEN conn.last ELSE new.last
    BY <2>1, <2>2, Held, WrittenTyped
  <2>4. conn'.last = "running" => conn.last = "running" /\ ~WillReport(t)
    BY <2>1, <2>2, <2>3 DEF WillReport
  <2>5. queue' \in [0..MaxRetries -> Nat] /\ (Queued => Queued')
    BY <2>1, Held DEF Queued
  <2> QED
    BY <1>0, <2>1, <2>3, <2>4, <2>5, TaskEnds
<1>2. CASE FailPermanently(w)
  <2>1. conn' \in Row /\ conn'.last = "failed" /\ UNCHANGED queue /\ Acknowledge(w)
    BY <1>2 DEF FailPermanently, Row
  <2>2. queue' \in [0..MaxRetries -> Nat] /\ (Queued => Queued')
    BY <2>1, Held DEF Queued
  <2> QED
    BY <1>0, <2>1, <2>2, TaskEnds
<1>3. CASE FailTransiently(w)
  <2> PICK x : x = [t EXCEPT !.pc = "retrying"]
    OBVIOUS
  <2>1. task' = [task EXCEPT ![w] = x] /\ UNCHANGED queue
    BY <1>3 DEF FailTransiently
  <2>2. x \in TaskState /\ x.cred = t.cred
    BY DEF TaskState
  <2>3. conn' \in Row /\ conn'.last = "failed"
    BY <1>3, Held DEF FailTransiently, Row
  <2>4. cred' \in Credential /\ Identified(cred') /\ Identified(x.cred)
    BY <1>0, <2>2, Held
  <2> QED
    BY <1>0, <2>1, <2>2, <2>3, <2>4, TaskGoesOn
<1>4. CASE Retry(w)
  <2>1. queue' \in [0..MaxRetries -> Nat] /\ (Queued => Queued')
    <3>1. CASE t.tries < MaxRetries
      <4>1. t.tries + 1 \in 0..MaxRetries /\ Enqueue(t.tries + 1)
        BY <1>4, <3>1, ConnectorAssumption DEF Retry, TaskState
      <4> QED
        BY <4>1, Enqueued
    <3>2. CASE ~(t.tries < MaxRetries)
      BY <1>4, <3>2, Held DEF Retry, Queued
    <3> QED
      BY <3>1, <3>2
  <2>2. ~WillReport(t) /\ UNCHANGED conn /\ Acknowledge(w) /\ conn' \in Row
    BY <1>4, Held DEF WillReport, Retry
  <2> QED
    BY <1>0, <2>1, <2>2, TaskEnds
<1> QED
  BY <1>1, <1>2, <1>3, <1>4

LEMMA BrokerSteps ==
  ASSUME IInv, NEW w \in Workers, Redeliver(w) \/ TaskLost(w)
  PROVE  IInv'
<1> PICK t \in TaskState : t = task[w] /\ Identified(t.cred)
  BY Held
<1>1. CASE Redeliver(w)
  <2>1. /\ UNCHANGED <<conn, cred, req, task, stranded, ops>> /\ Enqueue(t.tries)
        /\ redeliveries' \in 0..MaxRedeliveries
    BY <1>1, Held, ConnectorAssumption DEF Redeliver
  <2>2. queue' \in [0..MaxRetries -> Nat] /\ Queued'
    BY <2>1, Enqueued DEF TaskState
  <2>3. task' = [task EXCEPT ![w] = t]
    BY <2>1, Held
  <2>4. /\ conn' \in Row /\ cred' \in Credential /\ Identified(cred')
        /\ stranded' \in BOOLEAN /\ (stranded => stranded')
    BY <2>1, Held, ConnectorAssumption
  <2> QED
    BY <2>1, <2>2, <2>3, <2>4, TaskChanges
<1>2. CASE TaskLost(w)
  <2>1. /\ UNCHANGED <<conn, cred, queue, req, ops, redeliveries>>
        /\ task' = [task EXCEPT ![w] = NoTask]
        /\ stranded' \in BOOLEAN /\ (stranded => stranded')
        /\ stranded' \/ conn'.last # "running"
    BY <1>2, Held DEF TaskLost, Lost, Acknowledge
  <2>2. /\ conn' \in Row /\ cred' \in Credential /\ Identified(cred')
        /\ queue' \in [0..MaxRetries -> Nat] /\ (Queued => Queued')
        /\ redeliveries' \in 0..MaxRedeliveries
    BY <2>1, Held DEF Queued
  <2> QED
    BY <2>1, <2>2, NothingHeld, TaskChanges
<1> QED
  BY <1>1, <1>2

-----------------------------------------------------------------------------
(* The theorems.                                                            *)

LEMMA InitInv == ASSUME Init PROVE IInv
<1>1. cred \in Credential /\ cred.id = 1 /\ Identified(cred)
  <2>1. Expiring \in BOOLEAN
    BY DEF Expiring
  <2> QED
    BY <2>1, ConnectorAssumption DEF Init, Credential, Identified
<1>2. TypeOK
  <2>0. stranded \in BOOLEAN
    BY DEF Init
  <2>1. ops \in 0..MaxOps /\ redeliveries \in 0..MaxRedeliveries
    BY ConnectorAssumption DEF Init
  <2>2. queue \in [0..MaxRetries -> Nat] /\ conn \in Row
    BY NothingHeld DEF Init
  <2>3. req \in [Requests -> RequestState] /\ task \in [Workers -> TaskState]
    BY NothingHeld DEF Init
  <2> QED
    BY <1>1, <2>0, <2>1, <2>2, <2>3 DEF TypeOK, RequestState, TaskState
<1>3. AllIdentified
  BY <1>1, NothingHeld DEF Init, AllIdentified
<1>4. ReportToCome
  BY NothingHeld DEF Init, ReportToCome
<1> QED
  BY <1>2, <1>3, <1>4 DEF IInv

LEMMA StepInv == ASSUME IInv, [Next]_vars PROVE IInv'
<1>1. ASSUME NEW r \in Requests, RequestStep(r) PROVE IInv'
  BY <1>1, LoadStep, ConnectStep, DisconnectStep, SyncSteps, HealthSteps DEF RequestStep
<1>2. ASSUME NEW w \in Workers, WorkerStep(w) PROVE IInv'
  BY <1>2, ReceiveStep, LookUpStep, MissingStep, SyncStep, ReloadStep, OutcomeSteps
  DEF WorkerStep
<1>3. CASE Expire
  <2>1. /\ cred' = [cred EXCEPT !.expired = TRUE] /\ Stored
        /\ UNCHANGED <<conn, queue, req, task, stranded, ops, redeliveries>>
    BY <1>3 DEF Expire
  <2>2. cred' \in Credential /\ Identified(cred')
    BY <2>1, Held DEF Stored, Identified, Credential
  <2> QED
    BY <2>1, <2>2 DEF IInv, TypeOK, AllIdentified, ReportToCome, Queued
<1>4. CASE UNCHANGED vars
  BY <1>4 DEF vars, IInv, TypeOK, AllIdentified, ReportToCome, Queued
<1> QED
  BY <1>1, <1>2, <1>3, <1>4, BrokerSteps, LostStep, FailsStep DEF Next

LEMMA Invariant == Spec => []IInv
BY InitInv, StepInv, PTL DEF Spec

(* Every variable has its type, the columns of the connector's row and of the
   loaded copies of it too (models/connector.py). *)
THEOREM TypeCorrect == Spec => []TypeOK
<1>1. IInv => TypeOK
  BY DEF IInv
<1> QED
  BY <1>1, Invariant, PTL

(* A sync shown as running is under way, whatever is retried, redelivered or
   published ambiguously and whoever else writes the row, unless a handler or a
   task was lost outside every except branch while it was shown, since the last
   sync was announced (connectors.py:270, tasks.py:257). *)
THEOREM RunningSyncsHaveWork == Spec => []RunningHasWork
<1>1. ASSUME IInv PROVE RunningHasWork
  <2>1. \A w \in Workers : WillReport(task[w]) => task[w] # NoTask
    BY NothingHeld
  <2> QED
    BY <1>1, <2>1 DEF IInv, ReportToCome, RunningHasWork, Queued, Announced
<1> QED
  BY <1>1, Invariant, PTL

-----------------------------------------------------------------------------
(* What disconnecting took away.                                            *)

Connects(r) == req[r].op \in {"connect", "callback"} /\ req'[r] = NoRequest
OldSyncEnds(w) == task[w].pc = "ok" /\ task'[w] = NoTask /\ task[w].conn.status # "connected"

LEMMA RequestKeeps ==
  ASSUME IInv, NEW r \in Requests, RequestStep(r)
  PROVE  \/ Connects(r)
         \/ /\ conn'.status = "connected" => conn.status = "connected"
            /\ Stored' => Stored
<1> PICK q \in RequestState : q = req[r] /\ Identified(q.cred)
  BY Held
<1> USE DEF Stored
<1>1. CASE CommitConnect(r)
  BY <1>1, Held DEF CommitConnect, Finish, Connects
<1>2. CASE CommitDisconnect(r)
  <2> PICK new : new = [q.conn EXCEPT !.status = "disconnected", !.reason = "none"]
    OBVIOUS
  <2>1. new \in Row /\ q.conn \in Row /\ new.status = "disconnected"
    BY DEF RequestState, Row
  <2>2. conn' = Written(new, q.conn) /\ (cred' = NoCred \/ cred' = cred)
    BY <1>2 DEF CommitDisconnect
  <2> QED
    BY <2>1, <2>2, Held, WrittenTyped
<1>3. CASE CommitRunning(r)
  <2>1. PICK new : new = [q.conn EXCEPT !.last = "running"]
    OBVIOUS
  <2>2. PICK old : old = q.conn
    OBVIOUS
  <2>3. new \in Row /\ old \in Row /\ new.status = old.status
    BY <2>1, <2>2 DEF RequestState, Row
  <2>4. conn' = Written(new, old) /\ cred' = cred
    BY <1>3, <2>1, <2>2 DEF CommitRunning
  <2>5. Written(new, old).status = conn.status
    BY <2>3, Held, WrittenTyped
  <2> QED
    BY <2>4, <2>5
<1>4. CASE FailUnpublished(r)
  BY <1>4, Held DEF FailUnpublished, Row
<1>5. CASE HealthRefresh(r)
  <2>1. q.cred # NoCred
    BY <1>5 DEF HealthRefresh, NoCred
  <2>2. CredentialKept(q.cred) => Stored
    BY <2>1 DEF CredentialKept, Identified, NoCred
  <2> QED
    BY <1>5, <2>2 DEF HealthRefresh
<1>6. CASE CommitHealth(r)
  <2> PICK new : new = [q.conn EXCEPT !.status = "error", !.reason = "health"]
    OBVIOUS
  <2>1. new \in Row /\ q.conn \in Row /\ new.status = "error"
    BY DEF RequestState, Row
  <2>2. (conn' = conn \/ conn' = Written(new, q.conn)) /\ cred' = cred
    BY <1>6 DEF CommitHealth
  <2>3. Written(new, q.conn).status # "connected" \/ conn.status = "connected"
    BY <2>1, Held, WrittenTyped
  <2> QED
    BY <2>2, <2>3
<1>7. CASE UNCHANGED <<conn, cred>>
  BY <1>7
<1>8. (\E op \in Operation : LoadConnector(r, op)) \/ Publish(r) \/ PublishRaises(r) \/ AskHealth(r)
      => UNCHANGED <<conn, cred>>
  BY DEF LoadConnector, Publish, PublishRaises, AskHealth
<1> QED
  BY <1>1, <1>2, <1>3, <1>4, <1>5, <1>6, <1>7, <1>8 DEF RequestStep

LEMMA WorkerKeeps ==
  ASSUME IInv, NEW w \in Workers, WorkerStep(w)
  PROVE  /\ conn'.status = "connected" => conn.status = "connected" \/ OldSyncEnds(w)
         /\ Stored' => Stored
<1> PICK t \in TaskState : t = task[w] /\ Identified(t.cred)
  BY Held
<1> USE DEF Stored
<1>1. CASE CommitMissing(w)
  <2> PICK new : new = [status |-> "error", reason |-> "missing", last |-> "failed"]
    OBVIOUS
  <2>1. new \in Row /\ t.conn \in Row /\ new.status = "error"
    BY DEF TaskState, Row
  <2>2. conn' = Written(new, t.conn) /\ cred' = cred
    BY <1>1 DEF CommitMissing
  <2> QED
    BY <2>1, <2>2, Held, WrittenTyped
<1>2. CASE Refresh(w)
  <2>1. t.cred # NoCred
    BY <1>2 DEF Refresh, NoCred
  <2>2. CredentialKept(t.cred) => Stored
    BY <2>1 DEF CredentialKept, Identified, NoCred
  <2> QED
    BY <1>2, <2>2 DEF Refresh
<1>3. CASE Succeed(w)
  <2> PICK new : new = [status |-> "connected", reason |-> "none", last |-> "success"]
    OBVIOUS
  <2>1. new \in Row /\ t.conn \in Row /\ new.status = "connected"
    BY DEF TaskState, Row
  <2>2. conn' = Written(new, t.conn) /\ cred' = cred
    BY <1>3 DEF Succeed
  <2>3. t.conn.status # "connected" => OldSyncEnds(w)
    BY <1>3, Held DEF Succeed, Acknowledge, OldSyncEnds
  <2> QED
    BY <2>1, <2>2, <2>3, Held, WrittenTyped
<1>4. CASE FailPermanently(w)
  BY <1>4 DEF FailPermanently
<1>5. CASE FailTransiently(w)
  BY <1>5, Held DEF FailTransiently, Row
<1>6. (\E n \in 0..MaxRetries : Receive(w, n)) \/ LookUpCredential(w) \/ Reload(w) \/ RunSync(w)
         \/ Retry(w) => UNCHANGED <<conn, cred>>
  BY DEF Receive, LookUpCredential, Reload, RunSync, Retry
<1> QED
  BY <1>1, <1>2, <1>3, <1>4, <1>5, <1>6 DEF WorkerStep

LEMMA OthersKeep ==
  ASSUME IInv, \/ Expire
               \/ \E r \in Requests : HandlerLost(r)
               \/ \E w \in Workers : StepFails(w) \/ Redeliver(w) \/ TaskLost(w)
  PROVE  UNCHANGED conn /\ (Stored' => Stored)
BY DEF Expire, HandlerLost, StepFails, Redeliver, TaskLost, Stored

(* A connector that was disconnected reads connected again, and a removed secret
   is stored again, only by connecting; or, for the status, by a sync that began
   on a row that did not read connected (tasks.py:167, tasks.py:257). *)
THEOREM DisconnectsHold == Spec => DisconnectHolds
<1>1. ASSUME IInv, [Next]_vars
      PROVE  [conn.status = "disconnected" /\ conn'.status = "connected" =>
                \/ \E r \in Requests : req[r].op \in {"connect", "callback"} /\ req'[r] = NoRequest
                \/ \E w \in Workers : /\ task[w].pc = "ok" /\ task'[w] = NoTask
                                      /\ task[w].conn.status # "connected"]_vars
  BY <1>1, RequestKeeps, WorkerKeeps, OthersKeep DEF Next, Connects, OldSyncEnds
<1>2. ASSUME IInv, [Next]_vars
      PROVE  [~Stored /\ Stored' =>
                \E r \in Requests : req[r].op \in {"connect", "callback"} /\ req'[r] = NoRequest]_vars
  BY <1>2, RequestKeeps, WorkerKeeps, OthersKeep DEF Next, Connects
<1> QED
  BY <1>1, <1>2, Invariant, PTL DEF Spec, DisconnectHolds, StaysDisconnected, OnlyConnectStores
=============================================================================
