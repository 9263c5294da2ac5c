-------------------------- MODULE DocumentIngestion --------------------------
(***************************************************************************)
(* The uploaded documents of a workspace: the upload handler, the Celery   *)
(* task that parses, embeds and indexes one, and the ingest workflow that  *)
(* indexes all of them again.  Every commit and every upsert is a step.    *)
(* The file of a document never changes, so its points are one value:      *)
(* absent, or with or without the identifiers of its tenant.  Deleting a   *)
(* document only marks its row, and nothing here reads the mark.  An       *)
(* operator with a suffix is a mutation.                                   *)
(***************************************************************************)
EXTENDS Naturals, FiniteSets

CONSTANTS Docs,          \* documents that may be uploaded
          NoDoc,
          Workers,       \* worker processes
          MaxRetries,    \* max_retries of process_document
          MaxRedeliveries, MaxFaults, MaxIngests \* bounds

ASSUME IngestionAssumption ==
  /\ NoDoc \notin Docs
  /\ {MaxRetries, MaxRedeliveries, MaxFaults, MaxIngests} \subseteq Nat

VARIABLES status,   \* status[d]: Document.status, or "none" before the upload
          points,   \* points[d]: what the collection holds of document d
          upload,   \* upload[d]: where the handler of d's upload is
          queue,    \* queue[n]: queued messages on their n-th retry, by document
          task,     \* task[w]: what worker w holds
          ingested, \* documents an ingest workflow has indexed
          redeliveries, faults, ingests

vars == <<status, points, upload, queue, task, ingested, redeliveries, faults, ingests>>
counters == <<redeliveries, faults, ingests>>

Status == {"none", "PENDING", "PROCESSING", "INDEXED", "FAILED", "ENQUEUE_FAILED"}
NoTask == [pc |-> "idle", doc |-> NoDoc, tries |-> 0, seen |-> "none", todo |-> {}]

Init ==
  /\ status = [d \in Docs |-> "none"]
  /\ points = [d \in Docs |-> "none"]
  /\ upload = [d \in Docs |-> "idle"]
  /\ queue = [n \in 0..MaxRetries |-> [d \in Docs |-> 0]]
  /\ task = [w \in Workers |-> NoTask]
  /\ ingested = {}
  /\ redeliveries = 0 /\ faults = 0 /\ ingests = 0
-----------------------------------------------------------------------------
(* The API: upload_document. *)

SetStatus(d, s) == status' = [status EXCEPT ![d] = s]

(* A worker's session writes the status only if it differs from the one it
   has loaded. *)
SetStatusUnlessSeen(d, s, seen) == IF s = seen THEN UNCHANGED status ELSE SetStatus(d, s)

Enqueue(d, n) == queue' = [queue EXCEPT ![n][d] = @ + 1]

CommitUpload(d) ==
  /\ status[d] = "none"
  /\ SetStatus(d, "PENDING")
  /\ upload' = [upload EXCEPT ![d] = "committed"]
  /\ UNCHANGED <<points, queue, task, ingested, counters>>

Publish(d) ==
  /\ upload[d] = "committed"
  /\ Enqueue(d, 0)
  /\ upload' = [upload EXCEPT ![d] = "idle"]
  /\ UNCHANGED <<status, points, task, ingested, counters>>

(* .delay raises; the broker may have taken the message all the same. *)
PublishRaises(d) ==
  /\ upload[d] = "committed"
  /\ Enqueue(d, 0) \/ UNCHANGED queue
  /\ upload' = [upload EXCEPT ![d] = "raised"]
  /\ UNCHANGED <<status, points, task, ingested, counters>>

FailUnpublished_Swallowed(d) ==
  /\ upload[d] = "raised"
  /\ UNCHANGED status
  /\ upload' = [upload EXCEPT ![d] = "idle"]
  /\ UNCHANGED <<points, queue, task, ingested, counters>>

FailUnpublished(d) ==
  /\ upload[d] = "raised"
  /\ SetStatus(d, "ENQUEUE_FAILED")
  /\ upload' = [upload EXCEPT ![d] = "idle"]
  /\ UNCHANGED <<points, queue, task, ingested, counters>>

(* The handler dies, or the audit entry between the two commits cannot be
   written and it answers 500. *)
UploadDies(d) ==
  /\ upload[d] # "idle"
  /\ faults < MaxFaults
  /\ faults' = faults + 1
  /\ upload' = [upload EXCEPT ![d] = "idle"]
  /\ UNCHANGED <<status, points, queue, task, ingested, redeliveries, ingests>>

UploadStep(d) == CommitUpload(d) \/ Publish(d) \/ PublishRaises(d) \/ FailUnpublished(d)
-----------------------------------------------------------------------------
(* The worker: process_document. *)

Receive(w, n, d) ==
  /\ task[w] = NoTask /\ queue[n][d] > 0
  /\ queue' = [queue EXCEPT ![n][d] = @ - 1]
  /\ task' = [task EXCEPT ![w] = [NoTask EXCEPT !.pc = "received", !.doc = d, !.tries = n, !.seen = status[d]]]
  /\ UNCHANGED <<status, points, upload, ingested, counters>>

Acknowledge_Forgotten(w) == task' = [task EXCEPT ![w].pc = "idle"]
Acknowledge(w) == task' = [task EXCEPT ![w] = NoTask]

MarkProcessing(w) ==
  LET t == task[w] IN
  /\ t.pc = "received"
  /\ SetStatusUnlessSeen(t.doc, "PROCESSING", t.seen)
  /\ task' = [task EXCEPT ![w].pc = "processing"]
  /\ UNCHANGED <<points, upload, queue, ingested, counters>>

(* The commit expired the row, so the parser's arguments load it again.  A
   file that cannot be parsed fails the document for good. *)
Parse(w) ==
  LET t == task[w] IN
  /\ t.pc = "processing"
  /\ \/ task' = [task EXCEPT ![w].pc = "parsed", ![w].seen = status[t.doc]] /\ UNCHANGED status
     \/ SetStatus(t.doc, "FAILED") /\ Acknowledge(w)
  /\ UNCHANGED <<points, upload, queue, ingested, counters>>

Index_Skipped(w) ==
  LET t == task[w] IN
  /\ t.pc = "parsed"
  /\ UNCHANGED points
  /\ task' = [task EXCEPT ![w].pc = "indexed"]
  /\ UNCHANGED <<status, upload, queue, ingested, counters>>

Index_Untagged(w) ==
  LET t == task[w] IN
  /\ t.pc = "parsed"
  /\ points' = [points EXCEPT ![t.doc] = "untagged"]
  /\ task' = [task EXCEPT ![w].pc = "indexed"]
  /\ UNCHANGED <<status, upload, queue, ingested, counters>>

(* The points carry the organization and the workspace. *)
Index(w) ==
  LET t == task[w] IN
  /\ t.pc = "parsed"
  /\ points' = [points EXCEPT ![t.doc] = "tagged"]
  /\ task' = [task EXCEPT ![w].pc = "indexed"]
  /\ UNCHANGED <<status, upload, queue, ingested, counters>>

Retry(w) ==
  LET t == task[w] IN
  /\ IF t.tries < MaxRetries THEN Enqueue(t.doc, t.tries + 1) ELSE UNCHANGED queue
  /\ Acknowledge(w)

FailAndRetry_KeepsStatus(w) ==
  /\ task[w].pc = "parsed"
  /\ points' \in {points, [points EXCEPT ![task[w].doc] = "tagged"]}
  /\ UNCHANGED status
  /\ Retry(w)
  /\ UNCHANGED <<upload, ingested, counters>>

(* The model or the vector store fails, which may have stored the points: the
   document reads FAILED and is retried, up to MaxRetries times. *)
FailAndRetry(w) ==
  /\ task[w].pc = "parsed"
  /\ points' \in {points, [points EXCEPT ![task[w].doc] = "tagged"]}
  /\ SetStatus(task[w].doc, "FAILED")
  /\ Retry(w)
  /\ UNCHANGED <<upload, ingested, counters>>

MarkIndexed(w) ==
  LET t == task[w] IN
  /\ t.pc = "indexed"
  /\ SetStatusUnlessSeen(t.doc, "INDEXED", t.seen)
  /\ Acknowledge(w)
  /\ UNCHANGED <<points, upload, queue, ingested, counters>>

(* Any other exception, such as a commit the database refuses, is retried and
   leaves the status as it is. *)
DatabaseFails(w) ==
  /\ task[w].pc \in {"received", "processing", "indexed"}
  /\ faults < MaxFaults
  /\ faults' = faults + 1
  /\ Retry(w)
  /\ UNCHANGED <<status, points, upload, ingested, redeliveries, ingests>>

Redeliver(w) ==
  /\ task[w].doc # NoDoc /\ task[w].todo = {}
  /\ redeliveries < MaxRedeliveries
  /\ redeliveries' = redeliveries + 1
  /\ Enqueue(task[w].doc, task[w].tries)
  /\ UNCHANGED <<status, points, upload, task, ingested, faults, ingests>>

(* The parent acknowledges the message of a child that was killed. *)
ChildKilled(w) ==
  /\ task[w] # NoTask
  /\ faults < MaxFaults
  /\ faults' = faults + 1
  /\ Acknowledge(w)
  /\ UNCHANGED <<status, points, upload, queue, ingested, redeliveries, ingests>>
-----------------------------------------------------------------------------
(* The worker: the ingest workflow, over every document of a workspace, the
   deleted ones included.  Those that cannot be parsed are left out. *)

StartIngest(w) ==
  /\ task[w] = NoTask /\ ingests < MaxIngests
  /\ ingests' = ingests + 1
  /\ \E parsed \in SUBSET {d \in Docs : status[d] # "none"} :
       /\ parsed # {}
       /\ \E first \in parsed :
            task' = [task EXCEPT ![w] = [NoTask EXCEPT !.pc = "ingesting", !.todo = parsed,
                                                       !.doc = first, !.seen = status[first]]]
  /\ UNCHANGED <<status, points, upload, queue, ingested, redeliveries, faults>>

(* The upsert carries no organization and no workspace. *)
IngestOne(w) ==
  LET t == task[w] IN
  /\ t.pc = "ingesting"
  /\ points' = [points EXCEPT ![t.doc] = "untagged"]
  /\ task' = [task EXCEPT ![w].pc = "upserted"]
  /\ ingested' = ingested \cup {t.doc}
  /\ UNCHANGED <<status, upload, queue, counters>>

(* On to the next document, whose row the commit or rollback expired. *)
NextIngest(w) ==
  LET rest == task[w].todo \ {task[w].doc} IN
  IF rest = {} THEN Acknowledge(w)
  ELSE \E d \in rest : task' = [task EXCEPT ![w].pc = "ingesting", ![w].doc = d, ![w].todo = rest, ![w].seen = "none"]

CommitIngest(w) ==
  LET t == task[w] IN
  /\ t.pc = "upserted"
  /\ SetStatusUnlessSeen(t.doc, "INDEXED", t.seen)
  /\ NextIngest(w)
  /\ UNCHANGED <<points, upload, queue, ingested, counters>>

(* A document that cannot be embedded or stored is counted and skipped. *)
SkipIngest(w) ==
  /\ task[w].pc \in {"ingesting", "upserted"}
  /\ NextIngest(w)
  /\ UNCHANGED <<status, points, upload, queue, ingested, counters>>

WorkerStep(w) ==
  \/ \E n \in 0..MaxRetries, d \in Docs : Receive(w, n, d)
  \/ MarkProcessing(w) \/ Parse(w) \/ Index(w) \/ FailAndRetry(w) \/ MarkIndexed(w)
  \/ IngestOne(w) \/ CommitIngest(w) \/ SkipIngest(w)
Next ==
  \/ \E d \in Docs : UploadStep(d) \/ UploadDies(d)
  \/ \E w \in Workers : \/ WorkerStep(w) \/ DatabaseFails(w) \/ Redeliver(w) \/ ChildKilled(w)
                        \/ StartIngest(w)

(* A handler that was started ends, and a worker goes on while it has work. *)
Fairness ==
  /\ \A d \in Docs : WF_vars(Publish(d) \/ PublishRaises(d) \/ FailUnpublished(d))
  /\ \A w \in Workers : WF_vars(WorkerStep(w))

Spec == Init /\ [][Next]_vars
FairSpec == Spec /\ Fairness
-----------------------------------------------------------------------------
(* Every variable has its type; a worker that holds no message holds no document
   (tasks.py:43). *)
TypeOK ==
  /\ status \in [Docs -> Status]
  /\ points \in [Docs -> {"none", "tagged", "untagged"}]
  /\ upload \in [Docs -> {"idle", "committed", "raised"}]
  /\ queue \in [0..MaxRetries -> [Docs -> Nat]]
  /\ \A w \in Workers : /\ task[w].tries \in 0..MaxRetries /\ task[w].seen \in Status
                        /\ task[w].pc = "idle" <=> task[w] = NoTask
                        /\ task[w].pc # "idle" => task[w].doc \in Docs
                        /\ task[w].pc \in {"ingesting", "upserted"} <=> task[w].todo # {}

Awaited(d) == status[d] \in {"PENDING", "PROCESSING"}

(* A document that reads PENDING or PROCESSING is waiting for something: its
   upload is under way, a message is queued or a worker is at it.  Uploads,
   retries, redeliveries and ingest runs write one status column from three
   processes (documents.py:122, tasks.py:72, workflow_executor.py:155). *)
AwaitedHasWork ==
  faults = 0 => \A d \in Docs : Awaited(d) =>
    \/ upload[d] # "idle"
    \/ \E n \in 0..MaxRetries : queue[n][d] > 0
    \/ \E w \in Workers : task[w].doc = d \/ d \in task[w].todo

(* A document that reads INDEXED has been indexed, whoever wrote the status
   and whatever was retried or delivered twice, and unless an ingest workflow
   has been at it, its points carry the tenant that retrieval filters on, even
   if two workers indexed it side by side (tasks.py:95, 114). *)
IndexedIsFound == \A d \in Docs : status[d] = "INDEXED" =>
  /\ points[d] # "none"
  /\ d \notin ingested => points[d] = "tagged"

(* Every upload comes to an end: INDEXED, FAILED or ENQUEUE_FAILED, unless a
   process dies or the database refuses a commit (tasks.py:107, 116). *)
Settles == \A d \in Docs : Awaited(d) ~> (~Awaited(d) \/ faults > 0)
=============================================================================
