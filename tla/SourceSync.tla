----------------------------- MODULE SourceSync -----------------------------
(***************************************************************************)
(* The loop at the heart of every adapter's sync: each remote item is      *)
(* compared by checksum with the newest version of its document, split,    *)
(* embedded and upserted into the workspace's collection.  All rows are    *)
(* committed together at the end, while the collection changes item by     *)
(* item and outside the transaction.  The adapters differ by the record    *)
(* ConnectorAdapters gives them; remote items are edited and documents are *)
(* deleted at any time, and nothing keeps two syncs of one connector       *)
(* apart.  An operator with a suffix is a mutation.                        *)
(***************************************************************************)
EXTENDS Naturals, Sequences, FiniteSets, ConnectorAdapters

CONSTANTS Items,       \* remote files, issues, pages, channels
          Texts,       \* what an item may contain
          Size,        \* Size[t]: the number of chunks of a text
          Placeholder, \* what some adapters index for a text they cannot get
          Nothing,     \* no text
          NoItem,
          Workers,     \* worker processes
          Providers,   \* the adapters of this instance
          MaxDocs, MaxEdits, MaxSyncs, MaxDeletes \* bounds

AllTexts == Texts \cup {Placeholder}

ASSUME SourceAssumption ==
  /\ Placeholder \notin Texts /\ Nothing \notin AllTexts /\ NoItem \notin Items
  /\ Size \in [AllTexts -> Nat]
  /\ Providers \subseteq Adapters
  /\ {MaxDocs, MaxEdits, MaxSyncs, MaxDeletes} \subseteq Nat

VARIABLES adapter,    \* the connector's adapter
          remote,     \* remote[i]: what item i contains and when it was edited
          docs,       \* docs[d]: the committed row of document d, its versions
          points,     \* points[d]: the texts of the points with d's identifiers
          session,    \* session[w]: the sync that worker w runs
          next,       \* the next document identifier
          torn,       \* documents with points of an aborted sync
          overlapped, \* two syncs have been under way at once
          edits, syncs, deletes

vars == <<adapter, remote, docs, points, session, next, torn, overlapped, edits, syncs, deletes>>

Content == [text: Texts, stamp: 0..MaxEdits]
NoDoc == [item |-> NoItem, live |-> FALSE, versions |-> << >>]

(* A version in the making; document 0 is one yet to be created. *)
Version == [doc: 0..MaxDocs, item: Items, number: Nat, text: AllTexts, stamp: 0..MaxEdits]

(* What a sync holds: the items left, the listing, the version to index and
   the versions that its transaction will commit. *)
Idle == [pc |-> "idle", todo |-> {}, listed |-> << >>, draft |-> {}, made |-> {}]
Running(w) == session[w].pc # "idle"

Init ==
  /\ adapter \in Providers
  /\ remote \in [Items -> [text: Texts, stamp: {0}]]
  /\ docs = [d \in 1..MaxDocs |-> NoDoc]
  /\ points = [d \in 1..MaxDocs |-> << >>]
  /\ session = [w \in Workers |-> Idle]
  /\ next = 1 /\ torn = {} /\ overlapped = FALSE
  /\ edits = 0 /\ syncs = 0 /\ deletes = 0
-----------------------------------------------------------------------------
(* Outside a sync. *)

Edit(i, text) ==
  /\ edits < MaxEdits
  /\ remote' = [remote EXCEPT ![i] = [text |-> text, stamp |-> edits + 1]]
  /\ edits' = edits + 1
  /\ UNCHANGED <<adapter, docs, points, session, next, torn, overlapped, syncs, deletes>>

(* A user deletes a document: its row is marked, its points stay. *)
DeleteDocument(d) ==
  /\ docs[d].live /\ deletes < MaxDeletes
  /\ docs' = [docs EXCEPT ![d].live = FALSE]
  /\ deletes' = deletes + 1
  /\ UNCHANGED <<adapter, remote, points, session, next, torn, overlapped, edits, syncs>>
-----------------------------------------------------------------------------
(* A sync. *)

(* An adapter that digests all it finds into one document has one item. *)
Open(w) ==
  /\ ~Running(w) /\ syncs < MaxSyncs
  /\ session' = [session EXCEPT ![w] = [Idle EXCEPT !.pc = "loop", !.todo = Items, !.listed = remote]]
  /\ syncs' = syncs + 1
  /\ overlapped' = (overlapped \/ \E v \in Workers : Running(v))
  /\ UNCHANGED <<adapter, remote, docs, points, next, torn, edits, deletes>>

Got_Unchecked(w, i) ==
  {IF adapter.listed THEN session[w].listed[i].text ELSE remote[i].text}
    \cup (IF adapter.fetch = "none" THEN {} ELSE {Placeholder})

(* The texts a sync may get for an item: that of the listing, or what the item
   contains when the loop reaches it; or what a failure stands for. *)
Got(w, i) ==
  {IF adapter.listed THEN session[w].listed[i].text ELSE remote[i].text}
    \cup CASE adapter.fetch = "none" -> {}
           [] adapter.fetch = "skipped" -> {Nothing}
           [] adapter.fetch = "indexed" -> {Placeholder}

Matching_SameText(i) ==
  {d \in 1..MaxDocs : docs[d].item = i /\ docs[d].live /\ docs[d].versions[1].text = remote[i].text}

(* The live documents of an item, as the database shows them. *)
Matching(i) == {d \in 1..MaxDocs : docs[d].item = i /\ docs[d].live}

VersionsOf(d) == {docs[d].versions[k] : k \in DOMAIN docs[d].versions}

Newest_Oldest(d) == {docs[d].versions[1]}

(* The newest version by number: one of several when two bear it. *)
Newest(d) == {v \in VersionsOf(d) : \A u \in VersionsOf(d) : u.number <= v.number}

SameChecksum(v, text, stamp) == v.text = text /\ (adapter.stamped => v.stamp = stamp)

Skip(w, i) == session' = [session EXCEPT ![w].todo = @ \ {i}]

(* An item is left alone when it could not be read or has not changed;
   otherwise it becomes a version of its document, or of a new one. *)
Consider(w, i) ==
  LET stamp == session[w].listed[i].stamp
      Take(d, text) == session' = [session EXCEPT ![w].todo = @ \ {i}, ![w].pc = "index",
        ![w].draft = {[doc |-> d, item |-> i, number |-> 1, text |-> text, stamp |-> stamp]}]
  IN
  /\ session[w].pc = "loop" /\ i \in session[w].todo
  /\ \E text \in Got(w, i) :
       \/ text = Nothing /\ Skip(w, i)
       \/ text # Nothing /\ Matching(i) = {} /\ next <= MaxDocs /\ Take(0, text)
       \/ /\ text # Nothing
          /\ \E d \in Matching(i) : \E v \in Newest(d) :
               IF SameChecksum(v, text, stamp) THEN Skip(w, i) ELSE Take(d, text)
  /\ UNCHANGED <<adapter, remote, docs, points, next, torn, overlapped, edits, syncs, deletes>>

Number_Count(d) == Len(docs[d].versions)
Number(d) == Len(docs[d].versions) + 1

(* The points of a document after an upsert of a text: they are named by
   position, so a shorter text leaves the tail of the longer one. *)
Upserted(old, text) ==
  [k \in 1..(IF Size[text] > Len(old) THEN Size[text] ELSE Len(old)) |->
     IF k <= Size[text] THEN text ELSE old[k]]

Index_OnlyNew(w) ==
  /\ session[w].pc = "index"
  /\ \E v \in session[w].draft :
       LET d == IF v.doc = 0 THEN next ELSE v.doc IN
       /\ next <= MaxDocs \/ v.doc # 0
       /\ next' = IF v.doc = 0 THEN next + 1 ELSE next
       /\ points' = IF v.doc = 0 THEN [points EXCEPT ![d] = Upserted(@, v.text)] ELSE points
       /\ session' = [session EXCEPT ![w].pc = "loop", ![w].draft = {},
            ![w].made = @ \cup {[v EXCEPT !.doc = d, !.number = IF v.doc = 0 THEN 1 ELSE Number(d)]}]
  /\ UNCHANGED <<adapter, remote, docs, torn, overlapped, edits, syncs, deletes>>

(* A new document is flushed for its identifier, a known one has its versions
   counted; then the points go to the vector store, at once and for good. *)
Index(w) ==
  /\ session[w].pc = "index"
  /\ \E v \in session[w].draft :
       LET d == IF v.doc = 0 THEN next ELSE v.doc IN
       /\ next <= MaxDocs \/ v.doc # 0
       /\ next' = IF v.doc = 0 THEN next + 1 ELSE next
       /\ points' = [points EXCEPT ![d] = Upserted(@, v.text)]
       /\ session' = [session EXCEPT ![w].pc = "loop", ![w].draft = {},
            ![w].made = @ \cup {[v EXCEPT !.doc = d, !.number = IF v.doc = 0 THEN 1 ELSE Number(d)]}]
  /\ UNCHANGED <<adapter, remote, docs, torn, overlapped, edits, syncs, deletes>>

(* The one commit of a sync.  A document deleted meanwhile stays deleted. *)
Commit(w) ==
  LET Made(d) == {v \in session[w].made : v.doc = d} IN
  /\ session[w].pc = "loop" /\ session[w].todo = {}
  /\ docs' = [d \in 1..MaxDocs |->
       IF Made(d) = {} THEN docs[d]
       ELSE LET v == CHOOSE v \in Made(d) : TRUE IN
            IF docs[d] = NoDoc THEN [item |-> v.item, live |-> TRUE, versions |-> <<v>>]
            ELSE [docs[d] EXCEPT !.versions = Append(@, v)]]
  /\ torn' = torn \ {v.doc : v \in session[w].made}
  /\ session' = [session EXCEPT ![w] = Idle]
  /\ UNCHANGED <<adapter, remote, points, next, overlapped, edits, syncs, deletes>>

Abort_Unclean(w) ==
  /\ Running(w)
  /\ torn' = torn \cup {v.doc : v \in session[w].made}
  /\ session' = [session EXCEPT ![w].pc = "idle", ![w].todo = {}, ![w].draft = {}]
  /\ UNCHANGED <<adapter, remote, docs, points, next, overlapped, edits, syncs, deletes>>

(* The model, the vector store or the provider fails, or the child process is
   killed: every row is rolled back, and no point. *)
Abort(w) ==
  /\ Running(w)
  /\ torn' = torn \cup {v.doc : v \in session[w].made}
  /\ session' = [session EXCEPT ![w] = Idle]
  /\ UNCHANGED <<adapter, remote, docs, points, next, overlapped, edits, syncs, deletes>>

Next ==
  \/ \E i \in Items, text \in Texts : Edit(i, text)
  \/ \E d \in 1..MaxDocs : DeleteDocument(d)
  \/ \E w \in Workers :
       Open(w) \/ (\E i \in Items : Consider(w, i)) \/ Index(w) \/ Commit(w) \/ Abort(w)

Spec == Init /\ [][Next]_vars
-----------------------------------------------------------------------------
(* Every variable has its type; a sync that is not running holds no row of its
   session (tasks.py:248). *)
TypeOK ==
  /\ adapter \in Providers
  /\ remote \in [Items -> Content]
  /\ \A d \in 1..MaxDocs :
       /\ docs[d].item \in Items \cup {NoItem} /\ docs[d].live \in BOOLEAN
       /\ VersionsOf(d) \subseteq Version
       /\ points[d] \in Seq(AllTexts)
  /\ \A w \in Workers : /\ session[w].pc \in {"idle", "loop", "index"}
                        /\ session[w].todo \subseteq Items
                        /\ session[w].pc = "idle" => session[w] = Idle
                        /\ session[w].pc = "index" <=> session[w].draft # {}
                        /\ session[w].draft \cup session[w].made \subseteq Version
  /\ next \in 1..(MaxDocs + 1) /\ torn \subseteq 1..MaxDocs /\ overlapped \in BOOLEAN

(* As long as syncs do not overlap, an item never has two documents, whatever
   is edited, deleted or aborted between two of them: nothing but the look-up
   by identity prevents it (github.py:189, no unique constraint). *)
OneLiveDocument == ~overlapped => \A i \in Items : Cardinality(Matching(i)) <= 1

(* ... and the versions of a document are numbered 1, 2, 3, although the next
   number is a count and aborted syncs leave no version (github.py:246). *)
VersionsInSequence ==
  ~overlapped => \A d \in 1..MaxDocs : \A k \in DOMAIN docs[d].versions : docs[d].versions[k].number = k

(* ... and a version differs from the one before it: a sync that finds nothing
   new adds nothing (github.py:208). *)
Deduplicated ==
  ~overlapped => \A d \in 1..MaxDocs : \A k \in 1..(Len(docs[d].versions) - 1) :
    LET u == docs[d].versions[k]
        v == docs[d].versions[k + 1] IN ~SameChecksum(u, v.text, v.stamp)

(* The history of every document: in sequence, and no two equal in a row. *)
VersionHistory == VersionsInSequence /\ Deduplicated

(* ... and a search finds a document's newest version in all its chunks, unless
   a sync is at it or an aborted one has replaced its points: the collection is
   written long before the rows are committed (github.py:252, 290). *)
IndexFollows ==
  ~overlapped => \A d \in 1..MaxDocs \ torn :
    docs[d].live /\ (\A w \in Workers : \A v \in session[w].made : v.doc # d) =>
      \A v \in Newest(d) : /\ Len(points[d]) >= Size[v.text]
                          /\ \A k \in 1..Size[v.text] : points[d][k] = v.text

(* What an adapter could not read is never indexed as the text of an item,
   unless it is one that means to (OneDrive and Teams, onedrive.py:84). *)
GenuineText ==
  adapter.fetch # "indexed" => \A d \in 1..MaxDocs :
    (\A v \in VersionsOf(d) : v.text # Placeholder) /\ \A k \in DOMAIN points[d] : points[d][k] # Placeholder

(* What a search finds is the newest text, and one that was really read. *)
IndexSound == IndexFollows /\ GenuineText
=============================================================================
