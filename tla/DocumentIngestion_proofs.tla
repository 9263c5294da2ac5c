----------------------- MODULE DocumentIngestion_proofs -----------------------
(***************************************************************************)
(* What DocumentIngestion guarantees for every number of documents and     *)
(* workers, and for any number of retries, redeliveries, ingest runs and   *)
(* faults.                                                                 *)
(***************************************************************************)
EXTENDS DocumentIngestion, TLAPS

-----------------------------------------------------------------------------
(* What a worker may hold.                                                  *)

TaskPcs == {"idle", "received", "processing", "parsed", "indexed", "ingesting", "upserted"}
TaskState == [pc : TaskPcs, doc : Docs \cup {NoDoc}, tries : 0..MaxRetries, seen : Status,
              todo : SUBSET Docs]

IngestPcs == {"ingesting", "upserted"}

Held(t) ==
  /\ t \in TaskState
  /\ t.pc = "idle" <=> t = NoTask
  /\ t.pc # "idle" => t.doc \in Docs
  /\ t.pc \in {"ingesting", "upserted"} <=> t.todo # {}

Point == {"none", "tagged", "untagged"}

TypesOK ==
  /\ status \in [Docs -> Status]
  /\ points \in [Docs -> Point]
  /\ upload \in [Docs -> {"idle", "committed", "raised"}]
  /\ queue \in [0..MaxRetries -> [Docs -> Nat]]
  /\ task \in [Workers -> TaskState]
  /\ \A w \in Workers : Held(task[w])
  /\ faults \in Nat

(* A document in the collection, as retrieval needs it unless an ingest run has
   been at it; a worker that will report success has put it there. *)
Found(d) == points[d] # "none" /\ (d \notin ingested => points[d] = "tagged")
WorkersIndexed == \A w \in Workers :
  /\ task[w].pc = "indexed" => Found(task[w].doc)
  /\ task[w].pc = "upserted" => Found(task[w].doc)
DocsFound == \A d \in Docs : status[d] = "INDEXED" => Found(d)

(* A worker that is sure to write the status of d, if nothing fails. *)
Will(w, d) ==
  /\ task[w].doc = d
  /\ \/ task[w].pc \in {"received", "processing"}
     \/ task[w].pc \in {"parsed", "indexed"} /\ task[w].seen # "INDEXED"

Queued(d) == \E n \in 0..MaxRetries : queue[n][d] > 0
Expected(d) == upload[d] # "idle" \/ Queued(d) \/ \E w \in Workers : Will(w, d)
AwaitedExpected == faults = 0 => \A d \in Docs : Awaited(d) => Expected(d)

IInv == TypesOK /\ WorkersIndexed /\ DocsFound /\ AwaitedExpected

-----------------------------------------------------------------------------
(* The records of a worker.                                                 *)

LEMMA IdleHeld == NoTask.pc = "idle" /\ NoTask.doc = NoDoc /\ Held(NoTask)
<1>1. 0 \in 0..MaxRetries
  BY IngestionAssumption
<1>2. NoTask \in TaskState
  BY <1>1 DEF NoTask, TaskState, TaskPcs, Status
<1> QED
  BY <1>2 DEF NoTask, Held

(* The record of a task that moves on. *)
Moved(t, pc, seen) == [t EXCEPT !.pc = pc, !.seen = seen]

LEMMA MovedHeld ==
  ASSUME NEW t, Held(t), t.pc # "idle", NEW pc \in TaskPcs \ {"idle"}, NEW seen \in Status,
         (t.pc = "ingesting" /\ pc = "upserted") \/ (t.pc \notin IngestPcs /\ pc \notin IngestPcs),
         NEW s, s = Moved(t, pc, seen)
  PROVE  Held(s) /\ s.pc = pc /\ s.doc = t.doc /\ s.seen = seen /\ s.todo = t.todo
<1>1. t \in TaskState
  BY DEF Held
<1>2. s \in TaskState /\ s.pc = pc /\ s.doc = t.doc /\ s.seen = seen /\ s.todo = t.todo
  BY <1>1 DEF Moved, TaskState
<1>3. s # NoTask
  BY <1>2, IdleHeld
<1> QED
  BY <1>2, <1>3 DEF Held, IngestPcs

Given(d, n, seen) == [NoTask EXCEPT !.pc = "received", !.doc = d, !.tries = n, !.seen = seen]

LEMMA GivenHeld ==
  ASSUME NEW d \in Docs, NEW n \in 0..MaxRetries, NEW seen \in Status,
         NEW s, s = Given(d, n, seen)
  PROVE  Held(s) /\ s.pc = "received" /\ s.doc = d
<1>1. NoTask \in TaskState /\ "received" \in TaskPcs
  BY IdleHeld DEF Held, TaskPcs
<1>2. s \in TaskState /\ s.pc = "received" /\ s.doc = d /\ s.todo = {}
  BY <1>1 DEF Given, TaskState, NoTask
<1>3. s # NoTask
  BY <1>2, IdleHeld
<1> QED
  BY <1>2, <1>3 DEF Held

Ingesting(t, d, rest, seen) ==
  [t EXCEPT !.pc = "ingesting", !.doc = d, !.todo = rest, !.seen = seen]

LEMMA IngestingHeld ==
  ASSUME NEW t, Held(t), NEW rest \in SUBSET Docs, NEW d \in rest, NEW seen \in Status,
         NEW s, s = Ingesting(t, d, rest, seen)
  PROVE  Held(s) /\ s.pc = "ingesting" /\ s.doc = d
<1>1. t \in TaskState /\ "ingesting" \in TaskPcs
  BY DEF Held, TaskPcs
<1>2. s \in TaskState /\ s.pc = "ingesting" /\ s.doc = d /\ s.todo = rest
  BY <1>1 DEF Ingesting, TaskState
<1>3. s # NoTask
  BY <1>2, IdleHeld
<1> QED
  BY <1>2, <1>3 DEF Held

-----------------------------------------------------------------------------
(* What each kind of step has to keep.                                      *)

LEMMA TaskMoved ==
  ASSUME TypesOK, NEW w \in Workers, NEW s, Held(s), task' = [task EXCEPT ![w] = s]
  PROVE  /\ task' \in [Workers -> TaskState] /\ \A v \in Workers : Held(task'[v])
         /\ task'[w] = s /\ \A v \in Workers \ {w} : task'[v] = task[v]
BY DEF TypesOK, Held

LEMMA Enqueued ==
  ASSUME TypesOK, NEW e \in Docs, NEW n \in 0..MaxRetries, Enqueue(e, n)
  PROVE  /\ queue' \in [0..MaxRetries -> [Docs -> Nat]]
         /\ Queued(e)' /\ \A d \in Docs : Queued(d) => Queued(d)'
<1> DEFINE N == 0..MaxRetries
<1> HIDE DEF N
<1>1. queue \in [N -> [Docs -> Nat]] /\ n \in N
  BY DEF TypesOK, N
<1>2. queue' = [queue EXCEPT ![n][e] = @ + 1]
  BY DEF Enqueue
<1>3. /\ queue' \in [N -> [Docs -> Nat]] /\ queue'[n][e] > 0
      /\ \A m \in N, d \in Docs : queue[m][d] > 0 => queue'[m][d] > 0
  BY <1>1, <1>2
<1> QED
  BY <1>1, <1>3 DEF Queued, N

(* The rest of the state after a step that leaves the workers alone. *)
LEMMA UploadInv ==
  ASSUME IInv, task' = task, points' = points, ingested' = ingested, NEW e \in Docs,
         status' \in [Docs -> Status], upload' \in [Docs -> {"idle", "committed", "raised"}],
         queue' \in [0..MaxRetries -> [Docs -> Nat]], faults' \in Nat,
         \A d \in Docs : status'[d] = "INDEXED" => status[d] = "INDEXED",
         faults' = 0 => /\ faults = 0
                        /\ \A d \in Docs \ {e} : status'[d] = status[d] /\ upload'[d] = upload[d]
                        /\ \A d \in Docs : Queued(d) => Queued(d)'
                        /\ Awaited(e)' => Queued(e)' \/ upload'[e] # "idle"
                             \/ (Awaited(e) /\ (upload[e] = "idle" \/ Queued(e)))
  PROVE  IInv'
<1>1. TypesOK'
  BY DEF IInv, TypesOK
<1>2. WorkersIndexed' /\ DocsFound'
  BY DEF IInv, TypesOK, WorkersIndexed, DocsFound, Found
<1>3. AwaitedExpected'
  BY DEF IInv, AwaitedExpected, Expected, Awaited, Will
<1> QED
  BY <1>1, <1>2, <1>3 DEF IInv

(* The same for a step of worker w. *)
LEMMA WorkerInv ==
  ASSUME IInv, NEW w \in Workers, NEW s, Held(s), task' = [task EXCEPT ![w] = s],
         upload' = upload, faults' \in Nat, points' \in [Docs -> Point],
         status' \in [Docs -> Status], queue' \in [0..MaxRetries -> [Docs -> Nat]],
         \A d \in Docs : Found(d) => Found(d)',
         s.pc \in {"indexed", "upserted"} => Found(s.doc)',
         \A d \in Docs : status'[d] = "INDEXED" => status[d] = "INDEXED" \/ Found(d)',
         faults' = 0 => /\ faults = 0
                        /\ \A d \in Docs : Awaited(d)' =>
                             \/ Will(w, d)' \/ Queued(d)'
                             \/ Awaited(d) /\ ~Will(w, d) /\ (Queued(d) => Queued(d)')
  PROVE  IInv'
<1>1. /\ task' \in [Workers -> TaskState] /\ \A v \in Workers : Held(task'[v])
      /\ task'[w] = s /\ \A v \in Workers \ {w} : task'[v] = task[v]
  BY TaskMoved DEF IInv
<1>2. TypesOK'
  BY <1>1 DEF IInv, TypesOK
<1>3. WorkersIndexed'
  <2>1. ASSUME NEW v \in Workers \ {w}, task[v].pc \in {"indexed", "upserted"}
        PROVE  Found(task[v].doc)'
    BY <2>1, <1>1 DEF IInv, WorkersIndexed, TypesOK, Held
  <2> QED
    BY <1>1, <2>1 DEF WorkersIndexed, Found
<1>4. DocsFound'
  BY DEF IInv, DocsFound
<1>5. AwaitedExpected'
  <2> SUFFICES ASSUME faults' = 0, NEW d \in Docs, Awaited(d)' PROVE Expected(d)'
    BY DEF AwaitedExpected
  <2>1. CASE Will(w, d)' \/ Queued(d)'
    BY <2>1 DEF Expected
  <2>2. CASE Awaited(d) /\ ~Will(w, d) /\ (Queued(d) => Queued(d)')
    <3>1. Expected(d)
      BY <2>2 DEF IInv, AwaitedExpected
    <3>2. \A v \in Workers \ {w} : Will(v, d) => Will(v, d)'
      BY <1>1 DEF Will
    <3> QED
      BY <2>2, <3>1, <3>2 DEF Expected
  <2> QED
    BY <2>1, <2>2
<1> QED
  BY <1>2, <1>3, <1>4, <1>5 DEF IInv

LEMMA Retried ==
  ASSUME TypesOK, NEW w \in Workers, task[w].doc \in Docs, Retry(w)
  PROVE  /\ queue' \in [0..MaxRetries -> [Docs -> Nat]]
         /\ \A d \in Docs : Queued(d) => Queued(d)'
         /\ task' = [task EXCEPT ![w] = NoTask]
<1>1. task[w].tries \in 0..MaxRetries
  BY DEF TypesOK, TaskState
<1>2. CASE task[w].tries < MaxRetries
  <2>1. task[w].tries + 1 \in 0..MaxRetries
    BY <1>1, <1>2, IngestionAssumption
  <2>2. Enqueue(task[w].doc, task[w].tries + 1)
    BY <1>2 DEF Retry
  <2> QED
    BY <2>1, <2>2, Enqueued DEF Retry, Acknowledge
<1>3. CASE ~(task[w].tries < MaxRetries)
  BY <1>3 DEF Retry, Acknowledge, TypesOK, Queued
<1> QED
  BY <1>2, <1>3

-----------------------------------------------------------------------------
(* The invariant is inductive.                                              *)

LEMMA InitInv == Init => IInv
<1> SUFFICES ASSUME Init PROVE IInv
  OBVIOUS
<1>1. TypesOK
  <2>1. queue \in [0..MaxRetries -> [Docs -> Nat]]
    BY DEF Init
  <2>2. NoTask \in TaskState
    BY IdleHeld DEF Held
  <2> QED
    BY <2>1, <2>2, IdleHeld DEF Init, TypesOK, Status, Point
<1>2. WorkersIndexed /\ DocsFound /\ AwaitedExpected
  BY IdleHeld DEF Init, WorkersIndexed, DocsFound, AwaitedExpected, Awaited
<1> QED
  BY <1>1, <1>2 DEF IInv

LEMMA UploadSteps ==
  ASSUME IInv, NEW d \in Docs, UploadStep(d) \/ UploadDies(d)
  PROVE  IInv'
<1>0. /\ TypesOK /\ status \in [Docs -> Status] /\ 0 \in 0..MaxRetries
      /\ upload \in [Docs -> {"idle", "committed", "raised"}] /\ faults \in Nat
      /\ queue \in [0..MaxRetries -> [Docs -> Nat]]
  BY IngestionAssumption DEF IInv, TypesOK
<1>1. CASE CommitUpload(d)
  <2>1. /\ status' = [status EXCEPT ![d] = "PENDING"] /\ upload' = [upload EXCEPT ![d] = "committed"]
        /\ task' = task /\ points' = points /\ ingested' = ingested /\ queue' = queue
        /\ faults' = faults
    BY <1>1 DEF CommitUpload, SetStatus, counters
  <2>2. /\ status' \in [Docs -> Status]
        /\ upload' \in [Docs -> {"idle", "committed", "raised"}] /\ upload'[d] # "idle"
    BY <1>0, <2>1 DEF Status
  <2>3. \A e \in Docs : status'[e] = "INDEXED" => status[e] = "INDEXED"
    BY <1>0, <2>1
  <2>4. \A e \in Docs : Queued(e) => Queued(e)'
    BY <2>1 DEF Queued
  <2> QED
    BY <1>0, <2>1, <2>2, <2>3, <2>4, UploadInv
<1>2. CASE Publish(d)
  <2>1. /\ upload' = [upload EXCEPT ![d] = "idle"] /\ Enqueue(d, 0)
        /\ task' = task /\ points' = points /\ ingested' = ingested /\ status' = status
        /\ faults' = faults
    BY <1>2 DEF Publish, counters
  <2>2. upload' \in [Docs -> {"idle", "committed", "raised"}]
    BY <1>0, <2>1
  <2>3. /\ queue' \in [0..MaxRetries -> [Docs -> Nat]] /\ Queued(d)'
        /\ \A e \in Docs : Queued(e) => Queued(e)'
    BY <1>0, <2>1, Enqueued
  <2> QED
    BY <1>0, <2>1, <2>2, <2>3, UploadInv
<1>3. CASE PublishRaises(d)
  <2>1. /\ upload' = [upload EXCEPT ![d] = "raised"] /\ (Enqueue(d, 0) \/ queue' = queue)
        /\ task' = task /\ points' = points /\ ingested' = ingested /\ status' = status
        /\ faults' = faults
    BY <1>3 DEF PublishRaises, counters
  <2>2. upload' \in [Docs -> {"idle", "committed", "raised"}] /\ upload'[d] # "idle"
    BY <1>0, <2>1
  <2>3. /\ queue' \in [0..MaxRetries -> [Docs -> Nat]]
        /\ \A e \in Docs : Queued(e) => Queued(e)'
    <3>1. CASE Enqueue(d, 0)
      BY <1>0, <3>1, Enqueued
    <3>2. CASE queue' = queue
      BY <1>0, <3>2 DEF Queued
    <3> QED
      BY <2>1, <3>1, <3>2
  <2> QED
    BY <1>0, <2>1, <2>2, <2>3, UploadInv
<1>4. CASE FailUnpublished(d)
  <2>1. /\ upload' = [upload EXCEPT ![d] = "idle"] /\ status' = [status EXCEPT ![d] = "ENQUEUE_FAILED"]
        /\ task' = task /\ points' = points /\ ingested' = ingested /\ queue' = queue
        /\ faults' = faults
    BY <1>4 DEF FailUnpublished, SetStatus, counters
  <2>2. /\ status' \in [Docs -> Status] /\ ~Awaited(d)'
        /\ upload' \in [Docs -> {"idle", "committed", "raised"}]
    BY <1>0, <2>1 DEF Status, Awaited
  <2>3. \A e \in Docs : status'[e] = "INDEXED" => status[e] = "INDEXED"
    BY <1>0, <2>1
  <2>4. \A e \in Docs : Queued(e) => Queued(e)'
    BY <2>1 DEF Queued
  <2> QED
    BY <1>0, <2>1, <2>2, <2>3, <2>4, UploadInv
<1>5. CASE UploadDies(d)
  <2>1. /\ upload' = [upload EXCEPT ![d] = "idle"] /\ faults' = faults + 1
        /\ task' = task /\ points' = points /\ ingested' = ingested /\ queue' = queue
        /\ status' = status
    BY <1>5 DEF UploadDies
  <2>2. upload' \in [Docs -> {"idle", "committed", "raised"}] /\ faults' \in Nat /\ faults' # 0
    BY <1>0, <2>1
  <2> QED
    BY <1>0, <2>1, <2>2, UploadInv
<1> QED
  BY <1>1, <1>2, <1>3, <1>4, <1>5 DEF UploadStep

LEMMA RedeliverInv ==
  ASSUME IInv, NEW w \in Workers, Redeliver(w)
  PROVE  IInv'
<1>1. /\ task[w].doc \in Docs /\ task[w].tries \in 0..MaxRetries
  BY DEF IInv, TypesOK, TaskState, Redeliver
<1>2. /\ Enqueue(task[w].doc, task[w].tries) /\ faults' = faults /\ upload' = upload
      /\ task' = task /\ points' = points /\ ingested' = ingested /\ status' = status
  BY DEF Redeliver
<1>3. /\ queue' \in [0..MaxRetries -> [Docs -> Nat]] /\ Queued(task[w].doc)'
      /\ \A e \in Docs : Queued(e) => Queued(e)'
  BY <1>1, <1>2, Enqueued DEF IInv
<1> QED
  BY <1>1, <1>2, <1>3, UploadInv DEF IInv, TypesOK

(* The steps of process_document. *)
LEMMA ProcessSteps ==
  ASSUME IInv, NEW w \in Workers,
         \/ \E n \in 0..MaxRetries, d \in Docs : Receive(w, n, d)
         \/ MarkProcessing(w) \/ Parse(w) \/ Index(w) \/ FailAndRetry(w) \/ MarkIndexed(w)
         \/ DatabaseFails(w) \/ ChildKilled(w)
  PROVE  IInv'
<1> DEFINE t == task[w]
<1>0. /\ TypesOK /\ status \in [Docs -> Status] /\ points \in [Docs -> Point] /\ faults \in Nat
      /\ queue \in [0..MaxRetries -> [Docs -> Nat]] /\ task \in [Workers -> TaskState]
      /\ Held(t) /\ t \in TaskState
  BY DEF IInv, TypesOK
<1> PICK doc : doc = t.doc
  OBVIOUS
<1>1. t.pc # "idle" => doc \in Docs
  BY <1>0 DEF Held
<1>2. Held(NoTask) /\ NoTask.pc = "idle" /\ NoTask.doc \notin Docs
  BY IdleHeld, IngestionAssumption
<1>3. ASSUME NEW n \in 0..MaxRetries, NEW d \in Docs, Receive(w, n, d) PROVE IInv'
  <2> DEFINE s == Given(d, n, status[d])
  <2>1. /\ t = NoTask /\ queue[n][d] > 0 /\ queue' = [queue EXCEPT ![n][d] = @ - 1]
        /\ task' = [task EXCEPT ![w] = s] /\ faults' = faults /\ upload' = upload
        /\ points' = points /\ ingested' = ingested /\ status' = status
    BY <1>3 DEF Receive, Given, counters
  <2>2. Held(s) /\ s.pc = "received" /\ s.doc = d
    BY <1>0, GivenHeld
  <2> HIDE DEF s
  <2>3. task'[w] = s
    BY <1>0, <2>1, <2>2, TaskMoved
  <2>4. Will(w, d)'
    BY <2>2, <2>3 DEF Will
  <2>5. \A e \in Docs : ~Will(w, e)
    BY <1>2, <2>1 DEF Will
  <2>6. /\ queue' \in [0..MaxRetries -> [Docs -> Nat]]
        /\ \A e \in Docs \ {d} : Queued(e) => Queued(e)'
    <3> DEFINE N == 0..MaxRetries
    <3> HIDE DEF N
    <3>1. queue \in [N -> [Docs -> Nat]] /\ n \in N
      BY <1>0 DEF N
    <3>2. /\ queue' \in [N -> [Docs -> Nat]]
          /\ \A m \in N, e \in Docs \ {d} : queue'[m][e] = queue[m][e]
      BY <2>1, <3>1
    <3> QED
      BY <3>1, <3>2 DEF Queued, N
  <2>7. \A e \in Docs : (Found(e) => Found(e)') /\ (Awaited(e)' <=> Awaited(e))
    BY <2>1 DEF Found, Awaited
  <2> QED
    BY <1>0, <2>1, <2>2, <2>4, <2>5, <2>6, <2>7, WorkerInv
<1>4. CASE MarkProcessing(w)
  <2> DEFINE s == Moved(t, "processing", t.seen)
  <2>1. t.pc = "received" /\ task' = [task EXCEPT ![w].pc = "processing"]
    BY <1>4 DEF MarkProcessing
  <2>2. /\ task' = [task EXCEPT ![w] = s] /\ faults' = faults /\ upload' = upload
        /\ points' = points /\ ingested' = ingested /\ queue' = queue
        /\ status' \in {status, [status EXCEPT ![doc] = "PROCESSING"]}
    BY <1>0, <1>4, <2>1
       DEF MarkProcessing, Moved, TaskState, counters, SetStatus, SetStatusUnlessSeen
  <2>3. Held(s) /\ s.pc = "processing" /\ s.doc = doc
    <3>1. t.seen \in Status /\ t.pc # "idle" /\ "processing" \in TaskPcs \ {"idle"}
      BY <1>0, <2>1 DEF TaskState, TaskPcs
    <3>2. t.pc \notin IngestPcs /\ "processing" \notin IngestPcs
      BY <2>1 DEF IngestPcs
    <3>3. Held(t)
      BY <1>0
    <3>4. Held(s) /\ s.pc = "processing" /\ s.doc = t.doc /\ s.seen = t.seen
      BY <3>1, <3>2, <3>3, MovedHeld
    <3> QED
      BY <3>4
  <2> HIDE DEF s
  <2>4. task'[w] = s
    BY <1>0, <2>2, <2>3, TaskMoved
  <2>5. Will(w, doc)'
    BY <2>3, <2>4 DEF Will
  <2>6. \A e \in Docs : /\ Found(e) => Found(e)'
                        /\ e # doc => status'[e] = status[e] /\ ~Will(w, e)
                        /\ Queued(e) => Queued(e)'
                        /\ status'[e] = "INDEXED" => status[e] = "INDEXED"
    BY <1>0, <2>2 DEF Found, Queued, Will
  <2>7. status' \in [Docs -> Status]
    BY <1>0, <2>2 DEF Status
  <2> QED
    BY <1>0, <2>2, <2>3, <2>5, <2>6, <2>7, WorkerInv DEF Awaited
<1>5. CASE Parse(w)
  <2>0. /\ t.pc = "processing" /\ doc \in Docs /\ faults' = faults /\ upload' = upload
        /\ points' = points /\ ingested' = ingested /\ queue' = queue
    BY <1>1, <1>5 DEF Parse, counters
  <2>1. CASE task' = [task EXCEPT ![w].pc = "parsed", ![w].seen = status[doc]] /\ status' = status
    <3> DEFINE s == Moved(t, "parsed", status[doc])
    <3>1. task' = [task EXCEPT ![w] = s]
      BY <1>0, <2>1 DEF Moved, TaskState
    <3>2. status[doc] \in Status
      BY <1>0, <2>0
    <3>3. Held(s) /\ s.pc = "parsed" /\ s.doc = doc /\ s.seen = status[doc]
      <4>1. "parsed" \in TaskPcs \ {"idle"} /\ t.pc \notin IngestPcs /\ "parsed" \notin IngestPcs
        BY <2>0 DEF TaskPcs, IngestPcs
      <4> QED
        BY <1>0, <2>0, <3>2, <4>1, MovedHeld
    <3> HIDE DEF s
    <3>4. task'[w] = s
      BY <1>0, <3>1, <3>3, TaskMoved
    <3>5. Awaited(doc) => Will(w, doc)'
      BY <3>3, <3>4 DEF Will, Awaited
    <3>6. \A e \in Docs : /\ Found(e) => Found(e)'
                          /\ e # doc => ~Will(w, e)
                          /\ Queued(e) => Queued(e)'
                          /\ Awaited(e)' <=> Awaited(e)
      BY <2>0, <2>1 DEF Found, Queued, Will, Awaited
    <3> QED
      BY <1>0, <2>0, <2>1, <3>1, <3>3, <3>5, <3>6, WorkerInv
  <2>2. CASE status' = [status EXCEPT ![doc] = "FAILED"] /\ task' = [task EXCEPT ![w] = NoTask]
    <3>1. status' \in [Docs -> Status] /\ ~Awaited(doc)'
      BY <1>0, <2>0, <2>2 DEF Status, Awaited
    <3>2. \A e \in Docs : /\ Found(e) => Found(e)'
                          /\ e # doc => status'[e] = status[e] /\ ~Will(w, e)
                          /\ Queued(e) => Queued(e)'
                          /\ status'[e] = "INDEXED" => status[e] = "INDEXED"
      BY <1>0, <2>0, <2>2 DEF Found, Queued, Will
    <3> QED
      BY <1>0, <1>2, <2>0, <2>2, <3>1, <3>2, WorkerInv DEF Awaited
  <2> QED
    BY <1>5, <2>1, <2>2 DEF Parse, SetStatus, Acknowledge
<1>6. CASE Index(w)
  <2> DEFINE s == Moved(t, "indexed", t.seen)
  <2>1. t.pc = "parsed" /\ task' = [task EXCEPT ![w].pc = "indexed"]
    BY <1>6 DEF Index
  <2>2. /\ task' = [task EXCEPT ![w] = s] /\ faults' = faults /\ upload' = upload
        /\ points' = [points EXCEPT ![doc] = "tagged"] /\ ingested' = ingested
        /\ queue' = queue /\ status' = status
    BY <1>0, <1>6, <2>1 DEF Index, Moved, TaskState, counters
  <2>3. Held(s) /\ s.pc = "indexed" /\ s.doc = doc /\ s.seen = t.seen /\ doc \in Docs
    <3>1. t.seen \in Status /\ t.pc # "idle" /\ "indexed" \in TaskPcs \ {"idle"}
      BY <1>0, <2>1 DEF TaskState, TaskPcs
    <3>2. t.pc \notin IngestPcs /\ "indexed" \notin IngestPcs
      BY <2>1 DEF IngestPcs
    <3>3. Held(t)
      BY <1>0
    <3>4. Held(s) /\ s.pc = "indexed" /\ s.doc = t.doc /\ s.seen = t.seen
      BY <3>1, <3>2, <3>3, MovedHeld
    <3> QED
      BY <1>1, <2>1, <3>4
  <2> HIDE DEF s
  <2>4. task'[w] = s
    BY <1>0, <2>2, <2>3, TaskMoved
  <2>5. points' \in [Docs -> Point] /\ Found(doc)'
    BY <1>0, <2>2, <2>3 DEF Point, Found
  <2>6. \A e \in Docs : /\ Found(e) => Found(e)'
                        /\ Will(w, e) => Will(w, e)'
                        /\ Queued(e) => Queued(e)'
                        /\ Awaited(e)' <=> Awaited(e)
    BY <1>0, <2>1, <2>2, <2>3, <2>4 DEF Found, Queued, Will, Awaited
  <2> QED
    BY <1>0, <2>2, <2>3, <2>5, <2>6, WorkerInv
<1>7. CASE FailAndRetry(w)
  <2>1. /\ doc \in Docs /\ points' \in {points, [points EXCEPT ![doc] = "tagged"]}
        /\ status' = [status EXCEPT ![doc] = "FAILED"] /\ faults' = faults
        /\ upload' = upload /\ ingested' = ingested
    BY <1>1, <1>7 DEF FailAndRetry, SetStatus, counters
  <2>2. /\ queue' \in [0..MaxRetries -> [Docs -> Nat]] /\ task' = [task EXCEPT ![w] = NoTask]
        /\ \A e \in Docs : Queued(e) => Queued(e)'
    BY <1>0, <1>7, <2>1, Retried DEF FailAndRetry
  <2>3. status' \in [Docs -> Status] /\ ~Awaited(doc)' /\ points' \in [Docs -> Point]
    BY <1>0, <2>1 DEF Status, Awaited, Point
  <2>4. \A e \in Docs : /\ Found(e) => Found(e)'
                        /\ e # doc => status'[e] = status[e] /\ ~Will(w, e)
                        /\ status'[e] = "INDEXED" => status[e] = "INDEXED"
    BY <1>0, <2>1 DEF Found, Will
  <2> QED
    BY <1>0, <1>2, <2>1, <2>2, <2>3, <2>4, WorkerInv DEF Awaited
<1>8. CASE MarkIndexed(w)
  <2>1. /\ t.pc = "indexed" /\ doc \in Docs /\ task' = [task EXCEPT ![w] = NoTask]
        /\ IF t.seen = "INDEXED" THEN status' = status
                                 ELSE status' = [status EXCEPT ![doc] = "INDEXED"]
        /\ points' = points /\ queue' = queue /\ faults' = faults
        /\ upload' = upload /\ ingested' = ingested
    BY <1>1, <1>8 DEF MarkIndexed, SetStatus, SetStatusUnlessSeen, Acknowledge, counters
  <2>2. Found(doc)
    BY <2>1 DEF IInv, WorkersIndexed
  <2>3. \A e \in Docs : (Found(e) <=> Found(e)') /\ (Queued(e) => Queued(e)')
    BY <2>1 DEF Found, Queued
  <2>4. /\ status' \in [Docs -> Status]
        /\ \A e \in Docs : status'[e] = "INDEXED" => status[e] = "INDEXED" \/ Found(e)'
    BY <1>0, <2>1, <2>2, <2>3 DEF Status
  <2>5. \A e \in Docs : Awaited(e)' => Awaited(e) /\ ~Will(w, e)
    BY <1>0, <2>1 DEF Awaited, Will
  <2> QED
    BY <1>0, <1>2, <2>1, <2>3, <2>4, <2>5, WorkerInv
<1>9. CASE DatabaseFails(w)
  <2>1. /\ doc \in Docs /\ faults' = faults + 1 /\ status' = status /\ points' = points
        /\ upload' = upload /\ ingested' = ingested
    BY <1>1, <1>9 DEF DatabaseFails
  <2>2. queue' \in [0..MaxRetries -> [Docs -> Nat]] /\ task' = [task EXCEPT ![w] = NoTask]
    BY <1>0, <1>9, <2>1, Retried DEF DatabaseFails
  <2>3. faults' \in Nat /\ faults' # 0 /\ \A e \in Docs : Found(e) => Found(e)'
    BY <1>0, <2>1 DEF Found
  <2> QED
    BY <1>0, <1>2, <2>1, <2>2, <2>3, WorkerInv
<1>10. CASE ChildKilled(w)
  <2>1. /\ faults' = faults + 1 /\ status' = status /\ points' = points /\ queue' = queue
        /\ upload' = upload /\ ingested' = ingested /\ task' = [task EXCEPT ![w] = NoTask]
    BY <1>10 DEF ChildKilled, Acknowledge
  <2>2. faults' \in Nat /\ faults' # 0 /\ \A e \in Docs : Found(e) => Found(e)'
    BY <1>0, <2>1 DEF Found
  <2> QED
    BY <1>0, <1>2, <2>1, <2>2, WorkerInv
<1> QED
  BY <1>3, <1>4, <1>5, <1>6, <1>7, <1>8, <1>9, <1>10

(* The ingest workflow. *)
LEMMA IngestSteps ==
  ASSUME IInv, NEW w \in Workers,
         StartIngest(w) \/ IngestOne(w) \/ CommitIngest(w) \/ SkipIngest(w)
  PROVE  IInv'
<1> DEFINE t == task[w]
<1>0. /\ TypesOK /\ status \in [Docs -> Status] /\ points \in [Docs -> Point] /\ faults \in Nat
      /\ queue \in [0..MaxRetries -> [Docs -> Nat]] /\ task \in [Workers -> TaskState]
      /\ Held(t) /\ t \in TaskState
  BY DEF IInv, TypesOK
<1> PICK doc : doc = t.doc
  OBVIOUS
<1>1. t.pc # "idle" => doc \in Docs
  BY <1>0 DEF Held
<1>2. Held(NoTask) /\ NoTask.pc = "idle" /\ NoTask.doc \notin Docs
  BY IdleHeld, IngestionAssumption
<1>3. CASE StartIngest(w)
  <2>0. PICK parsed \in SUBSET Docs : \E first \in parsed :
          task' = [task EXCEPT ![w] = [NoTask EXCEPT !.pc = "ingesting", !.todo = parsed,
                                                     !.doc = first, !.seen = status[first]]]
    BY <1>3 DEF StartIngest
  <2>1. PICK first \in parsed :
          task' = [task EXCEPT ![w] = [NoTask EXCEPT !.pc = "ingesting", !.todo = parsed,
                                                     !.doc = first, !.seen = status[first]]]
    BY <2>0
  <2> DEFINE s == Ingesting(NoTask, first, parsed, status[first])
  <2>2. task' = [task EXCEPT ![w] = s]
    BY <2>1 DEF Ingesting, NoTask
  <2>3. status[first] \in Status
    BY <1>0
  <2>4. Held(s) /\ s.pc = "ingesting"
    BY <1>2, <2>3, IngestingHeld
  <2> HIDE DEF s
  <2>5. /\ t = NoTask /\ status' = status /\ points' = points /\ queue' = queue
        /\ upload' = upload /\ ingested' = ingested /\ faults' = faults
    BY <1>3 DEF StartIngest
  <2>6. \A e \in Docs : /\ Found(e) => Found(e)'
                        /\ ~Will(w, e)
                        /\ Queued(e) => Queued(e)'
                        /\ Awaited(e)' <=> Awaited(e)
    BY <1>2, <2>5 DEF Found, Queued, Will, Awaited
  <2> QED
    BY <1>0, <2>2, <2>4, <2>5, <2>6, WorkerInv
<1>4. CASE IngestOne(w)
  <2> DEFINE s == Moved(t, "upserted", t.seen)
  <2>1. t.pc = "ingesting" /\ doc \in Docs /\ task' = [task EXCEPT ![w].pc = "upserted"]
    BY <1>1, <1>4 DEF IngestOne
  <2>2. /\ task' = [task EXCEPT ![w] = s] /\ faults' = faults /\ upload' = upload
        /\ points' = [points EXCEPT ![doc] = "untagged"] /\ ingested' = ingested \cup {doc}
        /\ queue' = queue /\ status' = status
    BY <1>0, <1>4, <2>1 DEF IngestOne, Moved, TaskState, counters
  <2>3. Held(s) /\ s.pc = "upserted" /\ s.doc = doc
    <3>1. t.seen \in Status /\ t.pc # "idle" /\ "upserted" \in TaskPcs \ {"idle"}
      BY <1>0, <2>1 DEF TaskState, TaskPcs
    <3> QED
      BY <1>0, <2>1, <3>1, MovedHeld
  <2> HIDE DEF s
  <2>4. points' \in [Docs -> Point] /\ Found(doc)'
    BY <1>0, <2>1, <2>2 DEF Point, Found
  <2>5. \A e \in Docs : /\ Found(e) => Found(e)'
                        /\ ~Will(w, e)
                        /\ Queued(e) => Queued(e)'
                        /\ Awaited(e)' <=> Awaited(e)
    BY <1>0, <2>1, <2>2 DEF Found, Queued, Will, Awaited
  <2> QED
    BY <1>0, <2>2, <2>3, <2>4, <2>5, WorkerInv
<1>5. ASSUME t.pc \in {"ingesting", "upserted"}, NextIngest(w)
      PROVE  \E s : /\ task' = [task EXCEPT ![w] = s] /\ Held(s)
                    /\ s.pc \in {"idle", "ingesting"}
  <2> DEFINE rest == t.todo \ {t.doc}
  <2>1. CASE rest = {}
    BY <1>2, <1>5, <2>1 DEF NextIngest, Acknowledge
  <2>2. CASE rest # {}
    <3>1. PICK d \in rest : task' = [task EXCEPT ![w].pc = "ingesting", ![w].doc = d,
                                                 ![w].todo = rest, ![w].seen = "none"]
      BY <1>5, <2>2 DEF NextIngest
    <3>2. rest \in SUBSET Docs /\ "none" \in Status
      BY <1>0 DEF TaskState, Status
    <3> HIDE DEF rest
    <3> DEFINE s == Ingesting(t, d, rest, "none")
    <3>3. task' = [task EXCEPT ![w] = s]
      BY <1>0, <3>1 DEF Ingesting, TaskState
    <3>4. Held(s) /\ s.pc = "ingesting"
      BY <1>0, <3>2, IngestingHeld
    <3> HIDE DEF s
    <3> QED
      BY <3>3, <3>4
  <2> QED
    BY <2>1, <2>2
<1>6. CASE CommitIngest(w)
  <2>1. /\ t.pc = "upserted" /\ doc \in Docs /\ NextIngest(w)
        /\ IF t.seen = "INDEXED" THEN status' = status
                                 ELSE status' = [status EXCEPT ![doc] = "INDEXED"]
        /\ points' = points /\ queue' = queue /\ faults' = faults
        /\ upload' = upload /\ ingested' = ingested
    BY <1>1, <1>6 DEF CommitIngest, SetStatus, SetStatusUnlessSeen, counters
  <2>2. PICK s : task' = [task EXCEPT ![w] = s] /\ Held(s) /\ s.pc \in {"idle", "ingesting"}
    BY <1>5, <2>1
  <2>3. Found(doc)
    BY <2>1 DEF IInv, WorkersIndexed
  <2>4. \A e \in Docs : (Found(e) <=> Found(e)') /\ (Queued(e) => Queued(e)') /\ ~Will(w, e)
    BY <2>1 DEF Found, Queued, Will
  <2>5. /\ status' \in [Docs -> Status]
        /\ \A e \in Docs : status'[e] = "INDEXED" => status[e] = "INDEXED" \/ Found(e)'
        /\ \A e \in Docs : Awaited(e)' => Awaited(e)
    BY <1>0, <2>1, <2>3, <2>4 DEF Status, Awaited
  <2> QED
    BY <1>0, <2>1, <2>2, <2>4, <2>5, WorkerInv
<1>7. CASE SkipIngest(w)
  <2>1. /\ t.pc \in {"ingesting", "upserted"} /\ NextIngest(w) /\ status' = status
        /\ points' = points /\ queue' = queue /\ faults' = faults
        /\ upload' = upload /\ ingested' = ingested
    BY <1>7 DEF SkipIngest, counters
  <2>2. PICK s : task' = [task EXCEPT ![w] = s] /\ Held(s) /\ s.pc \in {"idle", "ingesting"}
    BY <1>5, <2>1
  <2>3. \A e \in Docs : /\ Found(e) => Found(e)'
                        /\ ~Will(w, e)
                        /\ Queued(e) => Queued(e)'
                        /\ Awaited(e)' <=> Awaited(e)
    BY <2>1 DEF Found, Queued, Will, Awaited
  <2> QED
    BY <1>0, <2>1, <2>2, <2>3, WorkerInv
<1> QED
  BY <1>3, <1>4, <1>6, <1>7

LEMMA StepInv == IInv /\ [Next]_vars => IInv'
<1> SUFFICES ASSUME IInv, [Next]_vars PROVE IInv'
  OBVIOUS
<1>1. CASE UNCHANGED vars
  <2>1. TypesOK'
    BY <1>1 DEF vars, counters, IInv, TypesOK
  <2>2. WorkersIndexed' /\ DocsFound' /\ AwaitedExpected'
    BY <1>1 DEF vars, counters, IInv, WorkersIndexed, DocsFound, AwaitedExpected, Awaited, Expected,
                Found, Queued, Will
  <2> QED
    BY <2>1, <2>2 DEF IInv
<1> QED
  BY <1>1, UploadSteps, RedeliverInv, ProcessSteps, IngestSteps DEF Next, WorkerStep

-----------------------------------------------------------------------------
(* Every variable of a reachable state has its type. *)
THEOREM TypeCorrect == Spec => []TypeOK
<1>1. IInv => TypeOK
  BY DEF IInv, TypesOK, Held, TaskState, Point, TypeOK
<1> QED
  BY <1>1, InitInv, StepInv, PTL DEF Spec

(* A document that reads INDEXED is in the collection, tagged with its tenant
   unless an ingest workflow has been at it, for any number of retries,
   redeliveries, workers and faults. *)
THEOREM IndexedDocumentsAreFound == Spec => []IndexedIsFound
<1>1. IInv => IndexedIsFound
  BY DEF IInv, DocsFound, Found, IndexedIsFound
<1> QED
  BY <1>1, InitInv, StepInv, PTL DEF Spec

(* As long as no process dies and the database takes every commit, a document
   that reads PENDING or PROCESSING has something to wait for. *)
THEOREM AwaitedDocumentsHaveWork == Spec => []AwaitedHasWork
<1>1. IInv => AwaitedHasWork
  BY DEF IInv, AwaitedExpected, Expected, Queued, Will, AwaitedHasWork
<1> QED
  BY <1>1, InitInv, StepInv, PTL DEF Spec
=============================================================================
