-------------------------- MODULE SourceSync_proofs --------------------------
(***************************************************************************)
(* What SourceSync guarantees for every number of items, texts, workers,   *)
(* documents, edits, syncs and deletions, and for every adapter.           *)
(***************************************************************************)
EXTENDS SourceSync, FiniteSetTheorems, SequenceTheorems, TLAPS

-----------------------------------------------------------------------------
(* The inductive invariant.                                                 *)

DocState == [item : Items \cup {NoItem}, live : BOOLEAN, versions : Seq(Version)]
SyncState ==
  [pc : {"idle", "loop", "index"}, todo : SUBSET Items, listed : [Items -> Content] \cup {<< >>},
   draft : SUBSET Version, made : SUBSET Version]

(* A text that was read, unless the adapter indexes placeholders. *)
Genuine(text) == adapter.fetch # "indexed" => text # Placeholder

(* A sync prepares one version at a time, and its documents have been numbered. *)
SyncOK(s) ==
  /\ s \in SyncState
  /\ s.pc = "idle" => s = Idle
  /\ s.pc # "idle" => s.listed \in [Items -> Content]
  /\ s.pc = "index" <=> s.draft # {}
  /\ \A u, v \in s.draft : u = v
  /\ \A v \in s.draft : v.doc < next
  /\ \A v \in s.made : v.doc # 0 /\ v.doc < next
  /\ \A v \in s.draft \cup s.made : Genuine(v.text)

(* A document that exists was numbered before and has a version. *)
DocOK(d) ==
  /\ docs[d] # NoDoc => d < next /\ docs[d].item \in Items /\ Len(docs[d].versions) > 0
  /\ \A k \in DOMAIN docs[d].versions : Genuine(docs[d].versions[k].text)
  /\ \A k \in DOMAIN points[d] : Genuine(points[d][k])

TypesOK ==
  /\ adapter \in Providers /\ remote \in [Items -> Content]
  /\ docs \in [1..MaxDocs -> DocState] /\ points \in [1..MaxDocs -> Seq(AllTexts)]
  /\ session \in [Workers -> SyncState]
  /\ next \in 1..(MaxDocs + 1) /\ torn \subseteq 1..MaxDocs /\ overlapped \in BOOLEAN
  /\ edits \in 0..MaxEdits
  /\ \A d \in 1..MaxDocs : DocOK(d)
  /\ \A w \in Workers : SyncOK(session[w])

Last(d) == docs[d].versions[Len(docs[d].versions)]
Covers(p, text) == Len(p) >= Size[text] /\ \A k \in 1..Size[text] : p[k] = text

(* A version continues its document, or begins one of an item that has none. *)
Continues(v) ==
  IF docs[v.doc] = NoDoc THEN Matching(v.item) = {} /\ v.number = 1
  ELSE /\ docs[v.doc].item = v.item /\ v.number = Len(docs[v.doc].versions) + 1
       /\ ~SameChecksum(Last(v.doc), v.text, v.stamp)
MayContinue(v) ==
  IF v.doc = 0 THEN Matching(v.item) = {}
  ELSE docs[v.doc].item = v.item /\ ~SameChecksum(Last(v.doc), v.text, v.stamp)

(* What a sync has made can be committed: one version of each item and of each
   document, which the points show already. *)
Ready(s) ==
  /\ \A u, v \in s.made : u.doc = v.doc \/ u.item = v.item => u = v
  /\ \A v \in s.made : v.item \notin s.todo /\ Continues(v) /\ Covers(points[v.doc], v.text)
  /\ \A v \in s.draft : /\ v.item \notin s.todo /\ MayContinue(v)
                        /\ \A u \in s.made : u.item # v.item

History(d) ==
  /\ \A k \in DOMAIN docs[d].versions : docs[d].versions[k].number = k
  /\ \A k \in 1..(Len(docs[d].versions) - 1) :
       ~SameChecksum(docs[d].versions[k], docs[d].versions[k + 1].text, docs[d].versions[k + 1].stamp)
OneDoc(i) == \A d, e \in Matching(i) : d = e
Pending(d) == \E w \in Workers : \E v \in session[w].made : v.doc = d
Follows(d) == docs[d] # NoDoc /\ d \notin torn /\ ~Pending(d) => Covers(points[d], Last(d).text)

OneSync == \A v, w \in Workers : Running(v) /\ Running(w) => v = w
Orderly ==
  /\ OneSync
  /\ \A w \in Workers : Ready(session[w])
  /\ \A d \in 1..MaxDocs : History(d) /\ Follows(d)
  /\ \A i \in Items : OneDoc(i)

IInv == TypesOK /\ (~overlapped => Orderly)

-----------------------------------------------------------------------------
(* Records and sequences.                                                   *)

LEMMA Fetches == \A a \in Adapters : a.fetch \in {"none", "skipped", "indexed"}
BY DEF Adapters, GitHub, Jira, Confluence, Notion, Slack, GoogleDrive, GoogleSheets,
  GoogleCalendar, Outlook, OneDrive, MsTeams

LEMMA GotTyped ==
  ASSUME TypesOK, NEW w \in Workers, session[w].pc # "idle", NEW i \in Items, NEW text \in Got(w, i),
         text # Nothing
  PROVE  text \in AllTexts /\ Genuine(text)
<1> PICK s \in SyncState : s = session[w] /\ s.listed \in [Items -> Content]
  BY DEF TypesOK, SyncOK
<1>1. s.listed[i].text \in Texts /\ remote[i].text \in Texts
  BY DEF TypesOK, Content
<1>2. adapter.fetch \in {"none", "skipped", "indexed"}
  BY Fetches, SourceAssumption DEF TypesOK
<1>3. text \in Texts \/ (adapter.fetch = "indexed" /\ text = Placeholder)
  BY <1>1, <1>2 DEF Got
<1> QED
  BY <1>3, SourceAssumption DEF AllTexts, Genuine

LEMMA UpsertedTyped ==
  ASSUME NEW old \in Seq(AllTexts), NEW text \in AllTexts
  PROVE  /\ Upserted(old, text) \in Seq(AllTexts) /\ Covers(Upserted(old, text), text)
         /\ \A k \in DOMAIN Upserted(old, text) :
              Upserted(old, text)[k] = text \/ (k \in DOMAIN old /\ Upserted(old, text)[k] = old[k])
<1> PICK n \in Nat : n = Len(old) /\ DOMAIN old = 1..n /\ \A k \in 1..n : old[k] \in AllTexts
  OBVIOUS
<1> PICK m \in Nat : m = Size[text]
  BY SourceAssumption
<1> PICK l \in Nat : l = IF m > n THEN m ELSE n
  OBVIOUS
<1> PICK p : p = Upserted(old, text)
  OBVIOUS
<1>1. p = [k \in 1..l |-> IF k <= m THEN text ELSE old[k]]
  BY DEF Upserted
<1>2. \A k \in 1..l : p[k] \in AllTexts /\ (p[k] = text \/ (k \in 1..n /\ p[k] = old[k]))
  BY <1>1
<1>3. p \in [1..l -> AllTexts] /\ DOMAIN p = 1..l
  BY <1>1, <1>2
<1>4. p \in Seq(AllTexts) /\ Len(p) = l
  BY <1>3
<1>5. Covers(p, text)
  BY <1>1, <1>4 DEF Covers
<1> QED
  BY <1>2, <1>3, <1>4, <1>5

(* The newest version is the last, as long as they are numbered in sequence. *)
LEMMA NewestIsLast ==
  ASSUME TypesOK, NEW d \in 1..MaxDocs, History(d), NEW v \in Newest(d)
  PROVE  Len(docs[d].versions) > 0 /\ v = Last(d)
<1> PICK vs \in Seq(Version) : vs = docs[d].versions
  BY DEF TypesOK, DocState
<1> PICK n \in Nat : n = Len(vs) /\ DOMAIN vs = 1..n
  OBVIOUS
<1>1. PICK k \in 1..n : v = vs[k] /\ \A j \in 1..n : vs[j].number <= v.number
  BY DEF Newest, VersionsOf
<1>2. \A j \in 1..n : vs[j].number = j
  BY DEF History
<1>3. n <= k
  BY <1>1, <1>2
<1> QED
  BY <1>1, <1>3 DEF Last

-----------------------------------------------------------------------------
(* What every step has to keep.                                             *)

LEMMA Held ==
  ASSUME TypesOK
  PROVE  /\ session \in [Workers -> SyncState] /\ next \in 1..(MaxDocs + 1) /\ torn \subseteq 1..MaxDocs
         /\ docs \in [1..MaxDocs -> DocState] /\ points \in [1..MaxDocs -> Seq(AllTexts)]
         /\ edits \in 0..MaxEdits /\ overlapped \in BOOLEAN
         /\ \A w \in Workers : session[w] \in SyncState /\ SyncOK(session[w])
         /\ MaxDocs \in Nat /\ MaxEdits \in Nat
BY SourceAssumption DEF TypesOK

LEMMA IdleFits ==
  ASSUME TypesOK
  PROVE  Idle \in SyncState /\ SyncOK(Idle) /\ Idle.made = {} /\ Idle.draft = {} /\ Ready(Idle)
BY DEF Idle, SyncState, SyncOK, Ready

(* The types, after a step in which one sync at most changes. *)
LEMMA TypesKept ==
  ASSUME TypesOK, NEW w \in Workers, NEW s \in SyncState, session' = [session EXCEPT ![w] = s],
         adapter' = adapter, remote' = remote, edits' = edits, next' \in 1..(MaxDocs + 1), next <= next',
         torn' \subseteq 1..MaxDocs, overlapped' \in BOOLEAN, SyncOK(s)',
         docs' \in [1..MaxDocs -> DocState], points' \in [1..MaxDocs -> Seq(AllTexts)],
         \A d \in 1..MaxDocs : DocOK(d)'
  PROVE  TypesOK'
<1>1. /\ session' \in [Workers -> SyncState] /\ session'[w] = s
      /\ \A v \in Workers \ {w} : session'[v] = session[v]
  BY Held
<1>2. ASSUME NEW v \in Workers \ {w} PROVE SyncOK(session[v])'
  <2> PICK t \in SyncState : t = session[v] /\ SyncOK(t)
    BY Held
  <2>1. session'[v] = t
    BY <1>1
  <2>2. \A x \in t.draft \cup t.made : x.doc \in 0..MaxDocs /\ x.doc < next'
    BY Held DEF SyncOK, SyncState, Version
  <2>3. \A x \in t.draft \cup t.made : Genuine(x.text)'
    BY DEF SyncOK, Genuine
  <2>4. SyncOK(t)'
    BY <2>2, <2>3 DEF SyncOK
  <2> QED
    BY <2>1, <2>4
<1>3. \A v \in Workers : SyncOK(session[v])'
  BY <1>1, <1>2
<1>4. remote' \in [Items -> Content] /\ adapter' \in Providers /\ edits' \in 0..MaxEdits
  BY DEF TypesOK
<1> QED
  BY <1>1, <1>3, <1>4 DEF TypesOK

LEMMA DocsKept ==
  ASSUME TypesOK, UNCHANGED <<adapter, docs, points>>, next' \in Nat, next <= next'
  PROVE  \A d \in 1..MaxDocs : DocOK(d)'
<1>1. ASSUME NEW d \in 1..MaxDocs PROVE DocOK(d)'
  <2>1. DocOK(d)
    BY DEF TypesOK
  <2>2. next \in Nat /\ d \in Nat
    BY Held
  <2> QED
    BY <2>1, <2>2 DEF DocOK, Genuine
<1> QED
  BY <1>1

(* What a sync has made stays ready as long as no document appears or grows. *)
LEMMA ReadyKept ==
  ASSUME TypesOK, NEW s \in SyncState, SyncOK(s), Ready(s), points' = points,
         \A d \in 1..MaxDocs : /\ (docs'[d] = NoDoc) <=> (docs[d] = NoDoc)
                               /\ docs'[d].item = docs[d].item /\ docs'[d].versions = docs[d].versions,
         \A i \in Items : Matching(i)' \subseteq Matching(i), adapter' = adapter
  PROVE  Ready(s)'
<1>1. ASSUME NEW v \in s.made PROVE Continues(v)'
  <2>1. v.doc \in 1..MaxDocs /\ v.item \in Items /\ Continues(v)
    BY Held DEF SyncOK, SyncState, Version, Ready
  <2>2. Matching(v.item)' \subseteq Matching(v.item)
    BY <2>1
  <2> QED
    BY <2>1, <2>2 DEF Continues, Last, SameChecksum
<1>2. ASSUME NEW v \in s.draft PROVE MayContinue(v)'
  <2>1. v.doc \in 0..MaxDocs /\ v.item \in Items /\ MayContinue(v)
    BY Held DEF SyncOK, SyncState, Version, Ready
  <2>2. Matching(v.item)' \subseteq Matching(v.item)
    BY <2>1
  <2>3. v.doc = 0 \/ v.doc \in 1..MaxDocs
    BY <2>1, Held
  <2> QED
    BY <2>1, <2>2, <2>3 DEF MayContinue, Last, SameChecksum
<1> QED
  BY <1>1, <1>2 DEF Ready, Covers

LEMMA OrderlyUntouched ==
  ASSUME Orderly, UNCHANGED <<adapter, docs, points, session, torn>>
  PROVE  Orderly'
<1>1. \A w \in Workers : Ready(session[w])'
  BY DEF Orderly, Ready, Continues, MayContinue, Matching, Last, SameChecksum, Covers
<1>2. \A d \in 1..MaxDocs : History(d)'
  BY DEF Orderly, History, SameChecksum
<1>3. \A d \in 1..MaxDocs : Follows(d)'
  BY DEF Orderly, Follows, Pending, Last, Covers
<1>4. \A i \in Items : OneDoc(i)'
  BY DEF Orderly, OneDoc, Matching
<1>5. OneSync'
  BY DEF Orderly, OneSync, Running
<1> QED
  BY <1>1, <1>2, <1>3, <1>4, <1>5 DEF Orderly

(* Order, after a step of one sync that changes no row and no point: what it
   had made is still to be committed, or torn. *)
LEMMA OrderlyKept ==
  ASSUME TypesOK, Orderly, NEW w \in Workers, NEW s \in SyncState, session' = [session EXCEPT ![w] = s],
         UNCHANGED <<adapter, docs, points>>, torn \subseteq torn', Ready(s),
         s.pc # "idle" => \A v \in Workers \ {w} : ~Running(v),
         \A v \in session[w].made : v.doc \in torn' \/ v \in s.made
  PROVE  Orderly'
<1>1. /\ session' \in [Workers -> SyncState] /\ session'[w] = s
      /\ \A v \in Workers \ {w} : session'[v] = session[v]
  BY Held
<1>2. Ready(s)'
  BY DEF Ready, Continues, MayContinue, Matching, Last, SameChecksum, Covers
<1>3. \A v \in Workers \ {w} : Ready(session[v])'
  BY <1>1 DEF Orderly, Ready, Continues, MayContinue, Matching, Last, SameChecksum, Covers
<1>4. OneSync'
  BY <1>1 DEF Orderly, OneSync, Running
<1>5. \A d \in 1..MaxDocs : History(d)'
  BY DEF Orderly, History, SameChecksum
<1>6. \A i \in Items : OneDoc(i)'
  BY DEF Orderly, OneDoc, Matching
<1>7. ASSUME NEW d \in 1..MaxDocs PROVE Follows(d)'
  <2>1. Pending(d) => Pending(d)' \/ d \in torn'
    BY <1>1 DEF Pending
  <2>2. Follows(d)
    BY DEF Orderly
  <2> QED
    BY <2>1, <2>2 DEF Follows, Covers, Last
<1>8. \A v \in Workers : Ready(session[v])'
  BY <1>1, <1>2, <1>3
<1> QED
  BY <1>4, <1>5, <1>6, <1>7, <1>8 DEF Orderly

-----------------------------------------------------------------------------
(* Outside a sync.                                                          *)

LEMMA EditStep ==
  ASSUME IInv, NEW i \in Items, NEW text \in Texts, Edit(i, text)
  PROVE  IInv'
<1>1. UNCHANGED <<adapter, docs, points, session, next, torn, overlapped, syncs, deletes>>
  BY DEF Edit
<1>2. /\ edits' = edits + 1 /\ edits' \in 0..MaxEdits
      /\ remote' = [remote EXCEPT ![i] = [text |-> text, stamp |-> edits + 1]]
  BY Held DEF Edit, IInv
<1>3. remote' \in [Items -> Content]
  BY <1>2 DEF IInv, TypesOK, Content
<1>4. \A d \in 1..MaxDocs : DocOK(d)'
  BY <1>1 DEF IInv, TypesOK, DocOK, Genuine
<1>5. \A w \in Workers : SyncOK(session[w])'
  BY <1>1 DEF IInv, TypesOK, SyncOK, Genuine
<1>6. TypesOK'
  BY <1>1, <1>2, <1>3, <1>4, <1>5 DEF IInv, TypesOK
<1>7. Orderly => Orderly'
  BY <1>1, OrderlyUntouched
<1> QED
  BY <1>1, <1>6, <1>7 DEF IInv

LEMMA DeleteStep ==
  ASSUME IInv, NEW d \in 1..MaxDocs, DeleteDocument(d)
  PROVE  IInv'
<1> USE DEF IInv
<1>1. /\ docs[d].live /\ docs' = [docs EXCEPT ![d].live = FALSE]
      /\ UNCHANGED <<adapter, remote, points, session, next, torn, overlapped, edits, syncs>>
  BY DEF DeleteDocument
<1>2. docs' \in [1..MaxDocs -> DocState]
  BY <1>1, Held DEF DocState
<1>3. docs[d] # NoDoc /\ docs[d].item \in Items
  BY <1>1 DEF TypesOK, DocOK, NoDoc
<1>4. ASSUME NEW e \in 1..MaxDocs
      PROVE  /\ docs'[e].item = docs[e].item /\ docs'[e].versions = docs[e].versions
             /\ (docs'[e] = NoDoc) <=> (docs[e] = NoDoc)
             /\ docs'[e].live => docs[e].live
  <2>1. CASE e = d
    <3>1. docs'[d] = [docs[d] EXCEPT !.live = FALSE]
      BY <1>1, Held
    <3>2. docs'[d].item = docs[d].item /\ docs'[d].versions = docs[d].versions /\ docs'[d].live = FALSE
      BY <3>1, Held DEF DocState
    <3>3. docs'[d] # NoDoc
      BY <1>3, <3>2, SourceAssumption DEF NoDoc
    <3> QED
      BY <1>3, <2>1, <3>2, <3>3
  <2>2. CASE e # d
    BY <1>1, <2>2, Held
  <2> QED
    BY <2>1, <2>2
<1>5. \A e \in 1..MaxDocs : DocOK(e)'
  BY <1>1, <1>4 DEF TypesOK, DocOK, Genuine
<1>6. \A w \in Workers : SyncOK(session[w])'
  BY <1>1 DEF TypesOK, SyncOK, Genuine
<1>7. TypesOK'
  BY <1>1, <1>2, <1>5, <1>6 DEF TypesOK
<1>8. \A i \in Items : Matching(i)' \subseteq Matching(i)
  BY <1>4 DEF Matching
<1>9. ASSUME Orderly PROVE Orderly'
  <2>1. \A w \in Workers : Ready(session[w])'
    <3> TAKE w \in Workers
    <3> PICK s \in SyncState : s = session[w] /\ SyncOK(s)
      BY Held
    <3>1. Ready(s)
      BY <1>9 DEF Orderly
    <3>2. Ready(s)'
      BY <1>1, <1>4, <1>8, <3>1, ReadyKept
    <3>3. session'[w] = s
      BY <1>1
    <3> QED
      BY <3>2, <3>3
  <2>2. \A e \in 1..MaxDocs : History(e)'
    BY <1>1, <1>4, <1>9 DEF Orderly, History, SameChecksum
  <2>3. \A e \in 1..MaxDocs : Follows(e)'
    BY <1>1, <1>4, <1>9 DEF Orderly, Follows, Pending, Last, Covers
  <2>4. \A i \in Items : OneDoc(i)'
    BY <1>8, <1>9 DEF Orderly, OneDoc
  <2>5. OneSync'
    BY <1>1, <1>9 DEF Orderly, OneSync, Running
  <2> QED
    BY <2>1, <2>2, <2>3, <2>4, <2>5 DEF Orderly
<1> QED
  BY <1>1, <1>7, <1>9

-----------------------------------------------------------------------------
(* A sync.                                                                  *)

LEMMA OpenStep ==
  ASSUME IInv, NEW w \in Workers, Open(w)
  PROVE  IInv'
<1> USE DEF IInv
<1> PICK s : s = [Idle EXCEPT !.pc = "loop", !.todo = Items, !.listed = remote]
  OBVIOUS
<1>1. /\ session' = [session EXCEPT ![w] = s] /\ overlapped' = (overlapped \/ \E v \in Workers : Running(v))
      /\ UNCHANGED <<adapter, remote, docs, points, next, torn, edits, deletes>> /\ ~Running(w)
  BY DEF Open
<1>0. /\ s \in SyncState /\ s.pc = "loop" /\ s.listed \in [Items -> Content] /\ s.draft = {} /\ s.made = {}
  BY DEF TypesOK, SyncState, Idle
<1>2. SyncOK(s)' /\ Ready(s)
  BY <1>0 DEF SyncOK, Ready
<1>3. next' \in 1..(MaxDocs + 1) /\ next <= next' /\ torn' \subseteq 1..MaxDocs /\ next' \in Nat
  BY <1>1, Held
<1>4. overlapped' \in BOOLEAN
  BY <1>1
<1>5. /\ docs' \in [1..MaxDocs -> DocState] /\ points' \in [1..MaxDocs -> Seq(AllTexts)]
  BY <1>1, Held
<1>6. \A d \in 1..MaxDocs : DocOK(d)'
  BY <1>1, <1>3, DocsKept
<1>7. TypesOK'
  BY <1>0, <1>1, <1>2, <1>3, <1>4, <1>5, <1>6, TypesKept
<1>8. session[w].made = {}
  BY <1>1, IdleFits, Held DEF Running, SyncOK
<1>9. ASSUME ~overlapped' PROVE Orderly'
  BY <1>0, <1>1, <1>2, <1>8, <1>9, OrderlyKept
<1> QED
  BY <1>7, <1>9

(* A sync that goes on with its loop, as far as its own state is concerned. *)
LEMMA LoopStep ==
  ASSUME IInv, NEW w \in Workers, Running(w), NEW s \in SyncState, session' = [session EXCEPT ![w] = s],
         UNCHANGED <<adapter, remote, docs, points, next, torn, overlapped, edits>>,
         SyncOK(s), Orderly => Ready(s), s.made = session[w].made
  PROVE  IInv'
<1> USE DEF IInv
<1>1. /\ next' \in 1..(MaxDocs + 1) /\ next <= next' /\ torn' \subseteq 1..MaxDocs /\ next' \in Nat
      /\ overlapped' \in BOOLEAN
      /\ docs' \in [1..MaxDocs -> DocState] /\ points' \in [1..MaxDocs -> Seq(AllTexts)]
  BY Held
<1>2. SyncOK(s)'
  BY DEF SyncOK, Genuine
<1>3. \A d \in 1..MaxDocs : DocOK(d)'
  BY <1>1, DocsKept
<1>4. TypesOK'
  BY <1>1, <1>2, <1>3, TypesKept
<1>5. ASSUME Orderly PROVE Orderly'
  <2>1. \A v \in Workers \ {w} : ~Running(v)
    BY <1>5 DEF Orderly, OneSync
  <2> QED
    BY <1>5, <2>1, OrderlyKept
<1> QED
  BY <1>4, <1>5

(* The item that a version is taken for: its document, as the database shows. *)
LEMMA TakenContinues ==
  ASSUME IInv, Orderly, NEW i \in Items, NEW d \in Matching(i), NEW v \in Newest(d),
         NEW text, NEW stamp, ~SameChecksum(v, text, stamp)
  PROVE  d \in 1..MaxDocs /\ docs[d].item = i /\ ~SameChecksum(Last(d), text, stamp)
<1>1. d \in 1..MaxDocs /\ docs[d].item = i
  BY DEF Matching
<1>2. History(d)
  BY <1>1 DEF Orderly
<1> QED
  BY <1>1, <1>2, NewestIsLast DEF IInv

LEMMA ConsiderStep ==
  ASSUME IInv, NEW w \in Workers, NEW i \in Items, Consider(w, i)
  PROVE  IInv'
<1> USE DEF IInv
<1> PICK s \in SyncState : s = session[w] /\ SyncOK(s)
  BY Held
<1>1. /\ s.pc = "loop" /\ i \in s.todo /\ Running(w)
      /\ UNCHANGED <<adapter, remote, docs, points, next, torn, overlapped, edits>>
  BY DEF Consider, Running
<1>2. s.draft = {}
  BY <1>1 DEF SyncOK
<1>3. CASE Skip(w, i)
  <2> PICK t : t = [s EXCEPT !.todo = @ \ {i}]
    OBVIOUS
  <2>1. session' = [session EXCEPT ![w] = t]
    BY <1>3 DEF Skip
  <2>2. t \in SyncState /\ t.made = s.made /\ t.draft = s.draft /\ t.pc = s.pc /\ t.listed = s.listed
        /\ t.todo = s.todo \ {i}
    BY DEF SyncState
  <2>3. SyncOK(t)
    BY <1>1, <2>2 DEF SyncOK, Idle
  <2>4. Ready(s) => Ready(t)
    BY <2>2 DEF Ready
  <2>5. Orderly => Ready(t)
    BY <2>4 DEF Orderly
  <2> QED
    BY <1>1, <2>1, <2>2, <2>3, <2>5, LoopStep
<1> PICK stamp : stamp = s.listed[i].stamp
  OBVIOUS
<1>4. stamp \in 0..MaxEdits
  BY <1>1 DEF SyncOK, Content
<1>5. ASSUME NEW text \in Got(w, i), text # Nothing, NEW d \in 0..MaxDocs, d < next,
             Orderly => IF d = 0 THEN Matching(i) = {}
                        ELSE docs[d].item = i /\ ~SameChecksum(Last(d), text, stamp),
             session' = [session EXCEPT ![w].todo = @ \ {i}, ![w].pc = "index",
               ![w].draft = {[doc |-> d, item |-> i, number |-> 1, text |-> text, stamp |-> stamp]}]
      PROVE  IInv'
  <2> PICK v : v = [doc |-> d, item |-> i, number |-> 1, text |-> text, stamp |-> stamp]
    OBVIOUS
  <2>1. text \in AllTexts /\ Genuine(text)
    BY <1>1, <1>5, GotTyped
  <2>2. /\ v \in Version /\ v.doc = d /\ v.item = i /\ v.text = text /\ v.stamp = stamp
    BY <1>4, <2>1 DEF Version
  <2> PICK t : t = [s EXCEPT !.todo = @ \ {i}, !.pc = "index", !.draft = {v}]
    OBVIOUS
  <2>3. session' = [session EXCEPT ![w] = t]
    BY <1>5
  <2>4. /\ t \in SyncState /\ t.made = s.made /\ t.draft = {v} /\ t.pc = "index" /\ t.listed = s.listed
        /\ t.todo = s.todo \ {i}
    BY <2>2 DEF SyncState
  <2>5. SyncOK(t)
    BY <1>1, <1>5, <2>1, <2>2, <2>4 DEF SyncOK
  <2>6. ASSUME Orderly PROVE Ready(t)
    <3>1. Ready(s)
      BY <2>6 DEF Orderly
    <3>2. MayContinue(v)
      BY <1>5, <2>2, <2>6 DEF MayContinue
    <3>3. \A u \in s.made : u.item # i
      BY <1>1, <3>1 DEF Ready
    <3> QED
      BY <2>2, <2>4, <3>1, <3>2, <3>3 DEF Ready
  <2> QED
    BY <1>1, <2>3, <2>4, <2>5, <2>6, LoopStep
<1>6. PICK text \in Got(w, i) :
        \/ Skip(w, i)
        \/ /\ text # Nothing /\ Matching(i) = {}
           /\ session' = [session EXCEPT ![w].todo = @ \ {i}, ![w].pc = "index",
                ![w].draft = {[doc |-> 0, item |-> i, number |-> 1, text |-> text, stamp |-> stamp]}]
        \/ /\ text # Nothing
           /\ \E d \in Matching(i) : \E v \in Newest(d) :
                /\ ~SameChecksum(v, text, stamp)
                /\ session' = [session EXCEPT ![w].todo = @ \ {i}, ![w].pc = "index",
                     ![w].draft = {[doc |-> d, item |-> i, number |-> 1, text |-> text, stamp |-> stamp]}]
  BY DEF Consider
<1>7. CASE /\ text # Nothing /\ Matching(i) = {}
           /\ session' = [session EXCEPT ![w].todo = @ \ {i}, ![w].pc = "index",
                ![w].draft = {[doc |-> 0, item |-> i, number |-> 1, text |-> text, stamp |-> stamp]}]
  <2>1. 0 \in 0..MaxDocs /\ 0 < next
    BY Held
  <2> QED
    BY <1>5, <1>7, <2>1
<1>8. CASE /\ text # Nothing
           /\ \E d \in Matching(i) : \E v \in Newest(d) :
                /\ ~SameChecksum(v, text, stamp)
                /\ session' = [session EXCEPT ![w].todo = @ \ {i}, ![w].pc = "index",
                     ![w].draft = {[doc |-> d, item |-> i, number |-> 1, text |-> text, stamp |-> stamp]}]
  <2>1. PICK d \in Matching(i) : \E v \in Newest(d) :
          /\ ~SameChecksum(v, text, stamp)
          /\ session' = [session EXCEPT ![w].todo = @ \ {i}, ![w].pc = "index",
               ![w].draft = {[doc |-> d, item |-> i, number |-> 1, text |-> text, stamp |-> stamp]}]
    BY <1>8
  <2>2. d \in 1..MaxDocs /\ docs[d].item = i /\ docs[d].item # NoItem
    BY SourceAssumption DEF Matching
  <2>3. docs[d] # NoDoc
    BY <2>2 DEF NoDoc
  <2>4. d \in 0..MaxDocs /\ d # 0 /\ d < next
    BY <2>2, <2>3, Held DEF TypesOK, DocOK
  <2>5. Orderly => docs[d].item = i /\ ~SameChecksum(Last(d), text, stamp)
    BY <2>1, TakenContinues
  <2> QED
    BY <1>5, <1>8, <2>1, <2>4, <2>5
<1> QED
  BY <1>3, <1>6, <1>7, <1>8

LEMMA AbortStep ==
  ASSUME IInv, NEW w \in Workers, Abort(w)
  PROVE  IInv'
<1> USE DEF IInv
<1>1. /\ session' = [session EXCEPT ![w] = Idle] /\ torn' = torn \cup {v.doc : v \in session[w].made}
      /\ UNCHANGED <<adapter, remote, docs, points, next, overlapped, edits, syncs, deletes>>
  BY DEF Abort
<1>2. \A v \in session[w].made : v.doc \in 1..MaxDocs
  BY Held DEF SyncOK, SyncState, Version
<1>3. torn' \subseteq 1..MaxDocs /\ torn \subseteq torn'
  BY <1>1, <1>2, Held
<1>4. /\ next' \in 1..(MaxDocs + 1) /\ next <= next' /\ next' \in Nat /\ overlapped' \in BOOLEAN
      /\ docs' \in [1..MaxDocs -> DocState] /\ points' \in [1..MaxDocs -> Seq(AllTexts)]
  BY <1>1, Held
<1>5. \A d \in 1..MaxDocs : DocOK(d)'
  BY <1>1, <1>4, DocsKept
<1> PICK s : s = Idle
  OBVIOUS
<1>6. s \in SyncState /\ SyncOK(s)' /\ Ready(s) /\ s.pc = "idle"
  BY <1>1, IdleFits DEF SyncOK, Idle
<1>7. TypesOK'
  BY <1>1, <1>3, <1>4, <1>5, <1>6, TypesKept
<1>8. Orderly => Orderly'
  BY <1>1, <1>3, <1>6, OrderlyKept
<1> QED
  BY <1>1, <1>7, <1>8

LEMMA IndexStep ==
  ASSUME IInv, NEW w \in Workers, Index(w)
  PROVE  IInv'
<1> USE DEF IInv
<1> PICK s \in SyncState : s = session[w] /\ SyncOK(s)
  BY Held
<1>1. PICK v \in s.draft :
        LET d == IF v.doc = 0 THEN next ELSE v.doc IN
        /\ next <= MaxDocs \/ v.doc # 0
        /\ next' = IF v.doc = 0 THEN next + 1 ELSE next
        /\ points' = [points EXCEPT ![d] = Upserted(@, v.text)]
        /\ session' = [session EXCEPT ![w].pc = "loop", ![w].draft = {},
             ![w].made = @ \cup {[v EXCEPT !.doc = d, !.number = IF v.doc = 0 THEN 1 ELSE Number(d)]}]
  BY DEF Index
<1> PICK d : d = IF v.doc = 0 THEN next ELSE v.doc
  OBVIOUS
<1>x. PICK x : x = [v EXCEPT !.doc = d, !.number = IF v.doc = 0 THEN 1 ELSE Number(d)]
  OBVIOUS
<1>t. PICK t : t = [s EXCEPT !.pc = "loop", !.draft = {}, !.made = @ \cup {x}]
  OBVIOUS
<1>2. /\ v \in Version /\ v.doc \in 0..MaxDocs /\ v.doc < next /\ v.item \in Items
      /\ v.text \in AllTexts /\ Genuine(v.text) /\ \A u \in s.draft : u = v
  BY DEF SyncOK, SyncState, Version
<1>3. /\ s.pc = "index" /\ UNCHANGED <<adapter, remote, docs, torn, overlapped, edits>>
      /\ points' = [points EXCEPT ![d] = Upserted(points[d], v.text)]
      /\ session' = [session EXCEPT ![w] = t]
  <2>1. s.pc = "index" /\ UNCHANGED <<adapter, remote, docs, torn, overlapped, edits>>
    BY DEF Index
  <2>2. points' = [points EXCEPT ![d] = Upserted(points[d], v.text)]
    BY <1>1
  <2>3. session' = [session EXCEPT ![w] = t]
    BY <1>1, <1>x, <1>t
  <2> QED
    BY <2>1, <2>2, <2>3
<1>4. /\ d \in 1..MaxDocs /\ next' \in 1..(MaxDocs + 1) /\ next <= next' /\ d < next'
  BY <1>1, <1>2, Held
<1>5. /\ points[d] \in Seq(AllTexts) /\ Len(docs[d].versions) \in Nat
  BY <1>4, Held DEF DocState
<1> PICK p : p = Upserted(points[d], v.text)
  OBVIOUS
<1>6. /\ p \in Seq(AllTexts) /\ Covers(p, v.text)
      /\ \A k \in DOMAIN p : p[k] = v.text \/ (k \in DOMAIN points[d] /\ p[k] = points[d][k])
  BY <1>2, <1>5, UpsertedTyped
<1>7. /\ points' \in [1..MaxDocs -> Seq(AllTexts)] /\ points'[d] = p
      /\ \A e \in (1..MaxDocs) \ {d} : points'[e] = points[e]
  BY <1>3, <1>4, <1>6, Held
<1>8. /\ x \in Version /\ x.doc = d /\ x.item = v.item /\ x.text = v.text /\ x.stamp = v.stamp
      /\ x.number = IF v.doc = 0 THEN 1 ELSE Len(docs[d].versions) + 1
  <2> PICK n \in Nat : n = IF v.doc = 0 THEN 1 ELSE Len(docs[d].versions) + 1
    BY <1>5
  <2>1. x = [v EXCEPT !.doc = d, !.number = n]
    BY <1>x DEF Number
  <2>2. v \in Version /\ d \in 0..MaxDocs
    BY <1>2, <1>4, Held
  <2>3. /\ x \in Version /\ x.doc = d /\ x.item = v.item /\ x.text = v.text /\ x.stamp = v.stamp
        /\ x.number = n
    BY <2>1, <2>2 DEF Version
  <2> QED
    BY <2>3
<1>9. /\ t \in SyncState /\ t.pc = "loop" /\ t.draft = {} /\ t.made = s.made \cup {x}
      /\ t.todo = s.todo /\ t.listed = s.listed
  BY <1>t, <1>8 DEF SyncState
<1>10. SyncOK(t)'
  <2>1. \A u \in t.made : u.doc # 0 /\ u.doc < next'
    <3> TAKE u \in t.made
    <3>1. CASE u = x
      BY <1>4, <1>8, <3>1
    <3>2. CASE u \in s.made
      <4>1. u.doc \in 0..MaxDocs /\ u.doc # 0 /\ u.doc < next
        BY <3>2 DEF SyncOK, SyncState, Version
      <4> QED
        BY <1>4, <4>1, Held
    <3> QED
      BY <1>9, <3>1, <3>2
  <2>2. \A u \in t.made : Genuine(u.text)'
    BY <1>2, <1>3, <1>8, <1>9 DEF SyncOK, Genuine
  <2>3. s.listed \in [Items -> Content]
    BY <1>3 DEF SyncOK
  <2> QED
    BY <1>9, <2>1, <2>2, <2>3 DEF SyncOK
<1>11. ASSUME NEW e \in 1..MaxDocs PROVE DocOK(e)'
  <2>1. DocOK(e) /\ e \in Nat /\ next \in Nat /\ next' \in Nat
    BY <1>4, Held DEF TypesOK
  <2>2. \A k \in DOMAIN points'[e] : Genuine(points[e][k])'
    <3>1. CASE e = d
      BY <1>2, <1>3, <1>6, <1>7, <2>1, <3>1 DEF DocOK, Genuine
    <3>2. CASE e # d
      BY <1>3, <1>7, <2>1, <3>2 DEF DocOK, Genuine
    <3> QED
      BY <3>1, <3>2
  <2> QED
    BY <1>3, <1>4, <2>1, <2>2 DEF DocOK, Genuine
<1>12. TypesOK'
  <2>1. torn' \subseteq 1..MaxDocs /\ overlapped' \in BOOLEAN /\ docs' \in [1..MaxDocs -> DocState]
    BY <1>3, Held
  <2> QED
    BY <1>3, <1>4, <1>7, <1>9, <1>10, <1>11, <2>1, TypesKept
<1>13. ASSUME Orderly PROVE Orderly'
  <2>1. /\ session' \in [Workers -> SyncState] /\ session'[w] = t
        /\ \A v_1 \in Workers \ {w} : session'[v_1] = session[v_1] /\ session[v_1] = Idle
    BY <1>3, <1>9, <1>13, Held DEF Orderly, OneSync, Running, SyncOK
  <2>2. Ready(s) /\ MayContinue(v) /\ v.item \notin s.todo /\ \A u \in s.made : u.item # v.item
    BY <1>13 DEF Orderly, Ready
  <2>3. v.doc = 0 => docs[d] = NoDoc
    BY <1>4, Held DEF TypesOK, DocOK
  <2>4. v.doc # 0 => docs[d].item = v.item /\ docs[d] # NoDoc
    BY <1>2, <2>2, SourceAssumption DEF MayContinue, NoDoc
  <2>5. Continues(x)
    BY <1>8, <2>2, <2>3, <2>4 DEF Continues, MayContinue, SameChecksum, Last
  <2>6. ASSUME NEW u \in s.made PROVE u.doc \in 1..MaxDocs /\ u.doc # d
    <3>1. u.doc \in 1..MaxDocs /\ u.doc < next /\ u.item # v.item /\ Continues(u)
      BY <2>2, Held DEF SyncOK, SyncState, Version, Ready
    <3>2. CASE v.doc = 0
      BY <3>1, <3>2, Held
    <3>3. CASE v.doc # 0
      BY <2>4, <3>1, <3>3 DEF Continues
    <3> QED
      BY <3>1, <3>2, <3>3
  <2>7. Ready(t)'
    <3>1. \A u \in t.made : Continues(u)'
      <4>1. \A u \in t.made : Continues(u)
        BY <1>9, <2>2, <2>5 DEF Ready
      <4> QED
        BY <1>3, <4>1 DEF Continues, Matching, Last, SameChecksum
    <3>2. \A u \in t.made : Covers(points'[u.doc], u.text)
      <4>1. \A u \in s.made : Covers(points[u.doc], u.text) /\ points'[u.doc] = points[u.doc]
        BY <1>7, <2>2, <2>6 DEF Ready
      <4>2. points'[x.doc] = p /\ x.text = v.text
        BY <1>7, <1>8
      <4> QED
        BY <1>6, <1>9, <4>1, <4>2
    <3>3. \A u_1, u_2 \in t.made : u_1.doc = u_2.doc \/ u_1.item = u_2.item => u_1 = u_2
      <4>1. \A u \in s.made : u.doc # x.doc /\ u.item # x.item
        BY <1>8, <2>2, <2>6
      <4>2. \A u_1, u_2 \in s.made : u_1.doc = u_2.doc \/ u_1.item = u_2.item => u_1 = u_2
        BY <2>2 DEF Ready
      <4>3. t.made = s.made \cup {x}
        BY <1>9
      <4> TAKE u_1, u_2 \in t.made
      <4>4. CASE u_1 \in s.made /\ u_2 \in s.made
        BY <4>2, <4>4
      <4>5. CASE u_1 = x \/ u_2 = x
        BY <4>1, <4>3, <4>5
      <4> QED
        BY <4>3, <4>4, <4>5
    <3>4. \A u \in t.made : u.item \notin t.todo
      BY <1>8, <1>9, <2>2 DEF Ready
    <3>5. \A u \in t.made : Covers(points[u.doc], u.text)'
      BY <3>2 DEF Covers
    <3> QED
      BY <1>9, <3>1, <3>3, <3>4, <3>5 DEF Ready
  <2>8. \A u \in Workers : Ready(session[u])'
    <3>1. \A u \in Workers \ {w} : Ready(session[u])'
      BY <2>1 DEF Ready, Idle
    <3>2. Ready(session[w])'
      BY <2>1, <2>7
    <3> QED
      BY <3>1, <3>2
  <2>9. OneSync'
    BY <2>1 DEF OneSync, Running, Idle
  <2>10. ASSUME NEW e \in 1..MaxDocs PROVE History(e)' /\ Follows(e)'
    <3>1. History(e) /\ Follows(e)
      BY <1>13 DEF Orderly
    <3>2. History(e)'
      BY <1>3, <3>1 DEF History, SameChecksum
    <3>3. Follows(e)'
      <4>1. CASE e = d
        <5>1. x \in session'[w].made /\ x.doc = e
          BY <1>8, <1>9, <2>1, <4>1
        <5>2. Pending(e)'
          BY <5>1 DEF Pending
        <5> QED
          BY <5>2 DEF Follows
      <4>2. CASE e # d
        <5>1. Pending(e) => Pending(e)'
          BY <1>9, <2>1 DEF Pending, Idle
        <5> QED
          BY <1>3, <1>7, <3>1, <4>2, <5>1 DEF Follows, Covers, Last
      <4> QED
        BY <4>1, <4>2
    <3> QED
      BY <3>2, <3>3
  <2>11. \A i \in Items : OneDoc(i)'
    BY <1>3, <1>13 DEF Orderly, OneDoc, Matching
  <2> QED
    BY <2>8, <2>9, <2>10, <2>11 DEF Orderly
<1> QED
  BY <1>3, <1>12, <1>13

(* The row of a document after a commit that adds a version to it. *)
Grown(row, v) ==
  IF row = NoDoc THEN [item |-> v.item, live |-> TRUE, versions |-> <<v>>]
  ELSE [row EXCEPT !.versions = Append(@, v)]

LEMMA GrownTyped ==
  ASSUME NEW row \in DocState, NEW v \in Version
  PROVE  /\ Grown(row, v) \in DocState /\ Grown(row, v) # NoDoc
         /\ Len(row.versions) \in Nat /\ Len(Grown(row, v).versions) = Len(row.versions) + 1
         /\ Grown(row, v).versions[Len(row.versions) + 1] = v
         /\ \A k \in 1..Len(row.versions) : Grown(row, v).versions[k] = row.versions[k]
         /\ Grown(row, v).item = (IF row = NoDoc THEN v.item ELSE row.item)
         /\ row # NoDoc => Grown(row, v).live = row.live
<1>1. v.item \in Items
  BY DEF Version
<1>2. CASE row = NoDoc
  <2> PICK g : g = [item |-> v.item, live |-> TRUE, versions |-> <<v>>]
    OBVIOUS
  <2>1. g \in DocState /\ g.versions = <<v>> /\ g.item = v.item
    BY <1>1 DEF DocState
  <2>2. row.versions = << >> /\ Grown(row, v) = g
    BY <1>2 DEF NoDoc, Grown
  <2>3. g.versions # << >>
    BY <2>1
  <2>4. g # NoDoc
    BY <2>3 DEF NoDoc
  <2> QED
    BY <1>2, <2>1, <2>2, <2>4
<1>3. CASE row # NoDoc
  <2> PICK vs \in Seq(Version) : vs = row.versions
    BY DEF DocState
  <2> PICK new \in Seq(Version) : new = Append(vs, v)
    BY AppendProperties
  <2> PICK g : g = [row EXCEPT !.versions = new]
    OBVIOUS
  <2>1. g \in DocState /\ g.versions = new /\ g.item = row.item /\ g.live = row.live
    BY DEF DocState
  <2>2. Grown(row, v) = g
    BY <1>3 DEF Grown
  <2>3. /\ Len(vs) \in Nat /\ Len(Append(vs, v)) = Len(vs) + 1 /\ Append(vs, v)[Len(vs) + 1] = v
        /\ \A k \in 1..Len(vs) : Append(vs, v)[k] = vs[k]
    OBVIOUS
  <2>4. g.versions # << >>
    BY <2>1, <2>3
  <2>5. g # NoDoc
    BY <2>4 DEF NoDoc
  <2> QED
    BY <1>3, <2>1, <2>2, <2>3, <2>5
<1> QED
  BY <1>2, <1>3

(* What a commit does to each document. *)
LEMMA Committed ==
  ASSUME TypesOK, NEW w \in Workers, Commit(w), NEW d \in 1..MaxDocs
  PROVE  \/ docs'[d] = docs[d] /\ \A v \in session[w].made : v.doc # d
         \/ \E v \in session[w].made : v.doc = d /\ docs'[d] = Grown(docs[d], v)
<1> PICK M : M = {v \in session[w].made : v.doc = d}
  OBVIOUS
<1> PICK row : row = docs[d]
  OBVIOUS
<1>1. docs'[d] = IF M = {} THEN docs[d]
       ELSE LET v == CHOOSE v \in M : TRUE IN
            IF docs[d] = NoDoc THEN [item |-> v.item, live |-> TRUE, versions |-> <<v>>]
            ELSE [docs[d] EXCEPT !.versions = Append(@, v)]
  BY DEF Commit
<1>2. CASE M = {}
  BY <1>1, <1>2
<1>3. CASE M # {}
  <2>1. PICK v : v = CHOOSE u \in M : TRUE
    OBVIOUS
  <2>2. v \in M
    BY <1>3, <2>1
  <2>3. docs'[d] = Grown(docs[d], v)
    BY <1>1, <1>3, <2>1 DEF Grown
  <2>4. v \in session[w].made /\ v.doc = d
    BY <2>2
  <2> QED
    BY <2>3, <2>4
<1> QED
  BY <1>2, <1>3

(* A version that continues a document leaves its history in order. *)
LEMMA GrownContinues ==
  ASSUME TypesOK, NEW d \in 1..MaxDocs, NEW v \in Version, v.doc = d, docs'[d] = Grown(docs[d], v),
         adapter' = adapter, History(d), Continues(v)
  PROVE  History(d)' /\ Last(d)' = v
<1> PICK old \in DocState : old = docs[d]
  BY Held
<1> PICK n \in Nat : n = Len(old.versions)
  BY DEF DocState
<1> PICK new \in DocState : /\ new = docs'[d] /\ Len(new.versions) = n + 1 /\ new.versions[n + 1] = v
                            /\ \A k \in 1..n : new.versions[k] = old.versions[k]
  BY GrownTyped, SMTT(30)
<1>1. v.number = n + 1 /\ (n > 0 => ~SameChecksum(old.versions[n], v.text, v.stamp))
  <2>1. CASE old = NoDoc
    BY <2>1 DEF Continues, NoDoc
  <2>2. CASE old # NoDoc
    BY <2>2 DEF Continues, Last
  <2> QED
    BY <2>1, <2>2
<1>2. DOMAIN new.versions = 1..(n + 1) /\ DOMAIN old.versions = 1..n
  BY DEF DocState
<1>3. \A k \in 1..(n + 1) : new.versions[k].number = k
  <2> TAKE k \in 1..(n + 1)
  <2>1. CASE k = n + 1
    BY <1>1, <2>1
  <2>2. CASE k \in 1..n
    BY <1>2, <2>2 DEF History
  <2> QED
    BY <2>1, <2>2
<1>4. ASSUME NEW k \in 1..n
      PROVE  ~SameChecksum(new.versions[k], new.versions[k + 1].text, new.versions[k + 1].stamp)
  <2>1. CASE k = n
    BY <1>1, <2>1
  <2>2. CASE k \in 1..(n - 1)
    <3>1. ~SameChecksum(old.versions[k], old.versions[k + 1].text, old.versions[k + 1].stamp)
      BY <2>2 DEF History
    <3>2. k \in 1..n /\ k + 1 \in 1..n
      BY <2>2
    <3>3. new.versions[k] = old.versions[k] /\ new.versions[k + 1] = old.versions[k + 1]
      BY <3>2
    <3> QED
      BY <3>1, <3>3
  <2> QED
    BY <2>1, <2>2
<1>5. Len(new.versions) - 1 = n
  OBVIOUS
<1>6. History(d)'
  BY <1>2, <1>3, <1>4, <1>5 DEF History, SameChecksum
<1> QED
  BY <1>6 DEF Last

LEMMA CommitTypes ==
  ASSUME TypesOK, NEW w \in Workers, Commit(w)
  PROVE  TypesOK'
<1>1. /\ session' = [session EXCEPT ![w] = Idle] /\ torn' \subseteq torn
      /\ UNCHANGED <<adapter, remote, points, next, overlapped, edits>>
      /\ docs' = [d \in 1..MaxDocs |-> docs'[d]]
  BY DEF Commit
<1>2. \A v \in session[w].made : v \in Version /\ v.item \in Items /\ v.doc < next /\ Genuine(v.text)
  BY Held DEF SyncOK, SyncState, Version
<1>3. ASSUME NEW d \in 1..MaxDocs PROVE docs'[d] \in DocState /\ DocOK(d)'
  <2> PICK old \in DocState : old = docs[d]
    BY Held
  <2>1. DocOK(d) /\ d \in Nat /\ next \in Nat
    BY Held DEF TypesOK
  <2>2. CASE docs'[d] = docs[d]
    BY <1>1, <2>1, <2>2 DEF DocOK, Genuine
  <2>3. CASE \E v \in session[w].made : v.doc = d /\ docs'[d] = Grown(docs[d], v)
    <3>1. PICK v \in session[w].made : v.doc = d /\ docs'[d] = Grown(docs[d], v)
      BY <2>3
    <3> PICK n \in Nat : n = Len(old.versions)
      BY DEF DocState
    <3> PICK new : new = docs'[d] /\ new = Grown(old, v)
      BY <3>1
    <3>2. /\ new \in DocState /\ Len(new.versions) = n + 1 /\ new.versions[n + 1] = v
          /\ \A k \in 1..n : new.versions[k] = old.versions[k]
          /\ new.item = (IF old = NoDoc THEN v.item ELSE old.item)
      <4>1. v \in Version
        BY <1>2
      <4>2. /\ Grown(old, v) \in DocState /\ Len(Grown(old, v).versions) = n + 1
            /\ Grown(old, v).versions[n + 1] = v
            /\ \A k \in 1..n : Grown(old, v).versions[k] = old.versions[k]
        BY <4>1, GrownTyped
      <4>3. Grown(old, v).item = (IF old = NoDoc THEN v.item ELSE old.item)
        BY <4>1, GrownTyped
      <4> QED
        BY <4>2, <4>3
    <3>3. DOMAIN new.versions = 1..(n + 1) /\ DOMAIN old.versions = 1..n
      BY <3>2 DEF DocState
    <3>4. new \in DocState
      BY <3>2
    <3>5. new.item \in Items /\ d < next' /\ Len(new.versions) > 0
      BY <1>1, <1>2, <2>1, <3>1, <3>2 DEF DocOK
    <3>6. \A k \in 1..(n + 1) : Genuine(new.versions[k].text)
      <4> TAKE k \in 1..(n + 1)
      <4>1. CASE k = n + 1
        BY <1>2, <3>2, <4>1
      <4>2. CASE k \in 1..n
        BY <2>1, <3>2, <3>3, <4>2 DEF DocOK
      <4> QED
        BY <4>1, <4>2
    <3> QED
      BY <1>1, <2>1, <3>3, <3>4, <3>5, <3>6 DEF DocOK, Genuine
  <2> QED
    BY <2>2, <2>3, Committed
<1>4. docs' \in [1..MaxDocs -> DocState] /\ \A d \in 1..MaxDocs : DocOK(d)'
  BY <1>1, <1>3
<1>5. /\ points' \in [1..MaxDocs -> Seq(AllTexts)] /\ next' \in 1..(MaxDocs + 1) /\ next <= next'
      /\ torn' \subseteq 1..MaxDocs /\ overlapped' \in BOOLEAN
  BY <1>1, Held
<1> PICK s : s = Idle
  OBVIOUS
<1>6. s \in SyncState /\ SyncOK(s)'
  BY <1>1, IdleFits DEF SyncOK, Idle
<1> QED
  BY <1>1, <1>4, <1>5, <1>6, TypesKept

LEMMA CommitOrder ==
  ASSUME TypesOK, Orderly, NEW w \in Workers, Commit(w)
  PROVE  Orderly'
<1> PICK s \in SyncState : s = session[w] /\ SyncOK(s) /\ Ready(s)
  BY Held DEF Orderly
<1>1. /\ session' = [session EXCEPT ![w] = Idle] /\ torn' = torn \ {v.doc : v \in s.made}
      /\ UNCHANGED <<adapter, points>> /\ Running(w)
  BY DEF Commit, Running
<1>2. \A v \in Workers : session'[v] = Idle
  <2>1. \A v \in Workers \ {w} : session[v] = Idle
    BY <1>1, Held DEF Orderly, OneSync, Running, SyncOK
  <2> QED
    BY <1>1, <2>1, Held
<1>3. /\ \A v \in s.made : v \in Version /\ v.item \in Items /\ v.doc \in 0..MaxDocs /\ v.doc # 0
      /\ \A v \in s.made : Continues(v) /\ Covers(points[v.doc], v.text)
      /\ \A u, v \in s.made : u.doc = v.doc \/ u.item = v.item => u = v
  BY DEF SyncOK, SyncState, Version, Ready
<1>4. \A v \in Workers : Ready(session[v])'
  BY <1>2 DEF Ready, Idle
<1>5. OneSync'
  BY <1>2 DEF OneSync, Running, Idle
<1>6. ASSUME NEW d \in 1..MaxDocs PROVE History(d)' /\ Follows(d)'
  <2>1. History(d) /\ Follows(d)
    BY DEF Orderly
  <2>2. CASE docs'[d] = docs[d] /\ \A v \in s.made : v.doc # d
    <3>1. History(d)'
      BY <1>1, <2>1, <2>2 DEF History, SameChecksum
    <3>2. ~Pending(d)
      <4>1. \A v \in Workers \ {w} : session[v] = Idle
        BY <1>1, Held DEF Orderly, OneSync, Running, SyncOK
      <4>2. \A v \in Workers \ {w} : session[v].made = {}
        BY <4>1, IdleFits
      <4> QED
        BY <2>2, <4>2 DEF Pending
    <3>3. d \in torn' <=> d \in torn
      BY <1>1, <2>2
    <3> QED
      BY <1>1, <2>1, <2>2, <3>1, <3>2, <3>3 DEF Follows, Last, Covers
  <2>3. CASE \E v \in s.made : v.doc = d /\ docs'[d] = Grown(docs[d], v)
    <3>1. PICK v \in s.made : v.doc = d /\ docs'[d] = Grown(docs[d], v)
      BY <2>3
    <3>2. v \in Version /\ Continues(v) /\ Covers(points[d], v.text)
      BY <1>3, <3>1
    <3>3. History(d)' /\ Last(d)' = v
      BY <1>1, <2>1, <3>1, <3>2, GrownContinues
    <3>4. Follows(d)'
      BY <1>1, <3>2, <3>3 DEF Follows, Covers
    <3> QED
      BY <3>3, <3>4
  <2> QED
    BY <2>2, <2>3, Committed
<1>7. ASSUME NEW i \in Items, NEW d \in Matching(i)'
      PROVE  d \in Matching(i) \/ \E v \in s.made : v.doc = d /\ v.item = i /\ Matching(i) = {}
  <2>1. d \in 1..MaxDocs /\ docs'[d].item = i /\ docs'[d].live
    BY DEF Matching
  <2>2. CASE docs'[d] = docs[d]
    BY <2>1, <2>2 DEF Matching
  <2>3. CASE \E v \in s.made : v.doc = d /\ docs'[d] = Grown(docs[d], v)
    <3>1. PICK v \in s.made : v.doc = d /\ docs'[d] = Grown(docs[d], v)
      BY <2>3
    <3>2. v \in Version /\ Continues(v) /\ docs[d] \in DocState
      BY <1>3, <2>1, <3>1, Held
    <3>3. docs'[d].item = (IF docs[d] = NoDoc THEN v.item ELSE docs[d].item)
      BY <3>1, <3>2, GrownTyped
    <3>4. CASE docs[d] = NoDoc
      BY <2>1, <3>1, <3>2, <3>3, <3>4 DEF Continues
    <3>5. CASE docs[d] # NoDoc
      <4>1. docs'[d].live = docs[d].live
        BY <3>1, <3>2, <3>5, GrownTyped
      <4> QED
        BY <2>1, <3>3, <3>5, <4>1 DEF Matching
    <3> QED
      BY <3>4, <3>5
  <2> QED
    BY <2>1, <2>2, <2>3, Committed
<1>8. ASSUME NEW i \in Items PROVE OneDoc(i)'
  <2>1. ASSUME NEW d \in Matching(i)', NEW e \in Matching(i)' PROVE d = e
    <3>1. \A a, b \in Matching(i) : a = b
      BY DEF Orderly, OneDoc
    <3> QED
      BY <1>3, <1>7, <3>1
  <2> QED
    BY <2>1 DEF OneDoc
<1> QED
  BY <1>4, <1>5, <1>6, <1>8 DEF Orderly

-----------------------------------------------------------------------------
(* Every step keeps the invariant.                                          *)

LEMMA InitInv == Init => IInv
<1> SUFFICES ASSUME Init PROVE IInv
  OBVIOUS
<1> USE SourceAssumption DEF Init
<1>1. remote \in [Items -> Content] /\ adapter \in Providers
  BY DEF Content
<1>2. NoDoc \in DocState /\ NoDoc.versions = << >> /\ NoDoc.live = FALSE
  BY DEF NoDoc, DocState
<1>3. /\ docs \in [1..MaxDocs -> DocState] /\ points \in [1..MaxDocs -> Seq(AllTexts)]
      /\ next \in 1..(MaxDocs + 1) /\ torn \subseteq 1..MaxDocs /\ overlapped \in BOOLEAN
      /\ edits \in 0..MaxEdits
  <2>1. docs \in [1..MaxDocs -> DocState]
    BY <1>2
  <2>2. points \in [1..MaxDocs -> Seq(AllTexts)]
    OBVIOUS
  <2>3. MaxDocs \in Nat /\ MaxEdits \in Nat
    OBVIOUS
  <2>4. next = 1 /\ torn = {} /\ overlapped = FALSE /\ edits = 0
    OBVIOUS
  <2> HIDE SourceAssumption DEF Init
  <2>5. next \in 1..(MaxDocs + 1) /\ edits \in 0..MaxEdits
    BY <2>3, <2>4
  <2>6. torn \subseteq 1..MaxDocs /\ overlapped \in BOOLEAN
    BY <2>4
  <2> QED
    BY <2>1, <2>2, <2>5, <2>6
<1>4. \A d \in 1..MaxDocs : docs[d] = NoDoc /\ points[d] = << >>
  OBVIOUS
<1>5. \A d \in 1..MaxDocs : DocOK(d)
  BY <1>2, <1>4 DEF DocOK
<1>6. \A w \in Workers : session[w] = Idle
  OBVIOUS
<1>7. Idle \in SyncState /\ SyncOK(Idle) /\ Ready(Idle)
  BY DEF Idle, SyncState, SyncOK, Ready
<1>8. TypesOK
  BY <1>1, <1>3, <1>5, <1>6, <1>7 DEF TypesOK
<1>9. OneSync /\ \A w \in Workers : Ready(session[w])
  BY <1>6, <1>7 DEF OneSync, Running, Idle
<1>10. \A d \in 1..MaxDocs : History(d) /\ Follows(d)
  BY <1>2, <1>4 DEF History, Follows
<1>11. \A i \in Items : OneDoc(i)
  BY <1>2, <1>4 DEF OneDoc, Matching
<1> QED
  BY <1>8, <1>9, <1>10, <1>11 DEF IInv, Orderly

LEMMA StepInv == IInv /\ [Next]_vars => IInv'
<1> SUFFICES ASSUME IInv, [Next]_vars PROVE IInv'
  OBVIOUS
<1>1. ASSUME NEW i \in Items, NEW text \in Texts, Edit(i, text) PROVE IInv'
  BY <1>1, EditStep
<1>2. ASSUME NEW d \in 1..MaxDocs, DeleteDocument(d) PROVE IInv'
  BY <1>2, DeleteStep
<1>3. ASSUME NEW w \in Workers, Open(w) PROVE IInv'
  BY <1>3, OpenStep
<1>4. ASSUME NEW w \in Workers, NEW i \in Items, Consider(w, i) PROVE IInv'
  BY <1>4, ConsiderStep
<1>5. ASSUME NEW w \in Workers, Index(w) PROVE IInv'
  BY <1>5, IndexStep
<1>6. ASSUME NEW w \in Workers, Commit(w) PROVE IInv'
  <2>1. overlapped' = overlapped
    BY <1>6 DEF Commit
  <2> QED
    BY <1>6, <2>1, CommitTypes, CommitOrder DEF IInv
<1>7. ASSUME NEW w \in Workers, Abort(w) PROVE IInv'
  BY <1>7, AbortStep
<1>8. CASE UNCHANGED vars
  <2>1. UNCHANGED <<adapter, remote, docs, points, session, next, torn, overlapped, edits, syncs, deletes>>
    BY <1>8 DEF vars
  <2>2. \A w \in Workers : SyncOK(session[w])'
    BY <2>1 DEF IInv, TypesOK, SyncOK, Genuine
  <2>3. \A d \in 1..MaxDocs : DocOK(d)'
    BY <2>1 DEF IInv, TypesOK, DocOK, Genuine
  <2>4. TypesOK'
    BY <2>1, <2>2, <2>3 DEF IInv, TypesOK
  <2>5. Orderly => Orderly'
    BY <2>1, OrderlyUntouched
  <2> QED
    BY <2>1, <2>4, <2>5 DEF IInv
<1> QED
  BY <1>1, <1>2, <1>3, <1>4, <1>5, <1>6, <1>7, <1>8 DEF Next

LEMMA Invariant == Spec => []IInv
BY InitInv, StepInv, PTL DEF Spec

-----------------------------------------------------------------------------
(* The theorems.                                                            *)

(* The variables always have their types, and a sync that is not running holds
   no row: a new session for every task (tasks.py:248). *)
THEOREM TypeCorrect == Spec => []TypeOK
<1>1. ASSUME IInv PROVE TypeOK
  <2>1. ASSUME NEW d \in 1..MaxDocs
        PROVE  /\ docs[d].item \in Items \cup {NoItem} /\ docs[d].live \in BOOLEAN
               /\ VersionsOf(d) \subseteq Version /\ points[d] \in Seq(AllTexts)
    <3>1. docs[d] \in DocState /\ points[d] \in Seq(AllTexts)
      BY <1>1, Held DEF IInv
    <3> PICK vs \in Seq(Version) : vs = docs[d].versions
      BY <3>1 DEF DocState
    <3>2. \A k \in DOMAIN vs : vs[k] \in Version
      OBVIOUS
    <3> QED
      BY <3>1, <3>2 DEF DocState, VersionsOf
  <2>2. ASSUME NEW w \in Workers
        PROVE  /\ session[w].pc \in {"idle", "loop", "index"} /\ session[w].todo \subseteq Items
               /\ session[w].pc = "idle" => session[w] = Idle
               /\ session[w].pc = "index" <=> session[w].draft # {}
               /\ session[w].draft \cup session[w].made \subseteq Version
    BY <1>1, Held DEF IInv, SyncOK, SyncState
  <2> QED
    BY <1>1, <2>1, <2>2 DEF IInv, TypesOK, TypeOK
<1> QED
  BY <1>1, Invariant, PTL

(* As long as syncs do not overlap, no item ever has two live documents,
   although nothing but the look-up by identity prevents it (github.py:189). *)
THEOREM OneDocumentPerItem == Spec => []OneLiveDocument
<1>1. ASSUME IInv PROVE OneLiveDocument
  <2>1. ASSUME ~overlapped, NEW i \in Items PROVE Cardinality(Matching(i)) <= 1
    <3>1. \A d, e \in Matching(i) : d = e
      BY <1>1, <2>1 DEF IInv, Orderly, OneDoc
    <3>2. CASE Matching(i) = {}
      BY <3>2, FS_EmptySet
    <3>3. CASE Matching(i) # {}
      <4>1. PICK d : Matching(i) = {d}
        BY <3>1, <3>3
      <4>2. Cardinality({d}) = 1
        BY FS_Singleton
      <4> QED
        BY <4>1, <4>2
    <3> QED
      BY <3>2, <3>3
  <2> QED
    BY <2>1 DEF OneLiveDocument
<1> QED
  BY <1>1, Invariant, PTL

(* ... the versions of a document are numbered in sequence and no two in a row
   are equal, whatever was aborted between them (github.py:208, 246). *)
THEOREM HistoriesHold == Spec => []VersionHistory
<1>1. ASSUME IInv PROVE VersionHistory
  BY <1>1 DEF IInv, Orderly, History, VersionHistory, VersionsInSequence, Deduplicated
<1> QED
  BY <1>1, Invariant, PTL

(* ... and the collection, written item by item outside the transaction, shows
   every document's newest version, and never a placeholder for a text that
   could not be read (github.py:252, onedrive.py:84). *)
THEOREM IndexIsSound == Spec => []IndexSound
<1>1. ASSUME IInv PROVE IndexFollows
  <2>1. ASSUME ~overlapped, NEW d \in (1..MaxDocs) \ torn, docs[d].live,
               \A w \in Workers : \A v \in session[w].made : v.doc # d, NEW v \in Newest(d)
        PROVE  Covers(points[d], v.text)
    <3>1. History(d) /\ Follows(d)
      BY <1>1, <2>1 DEF IInv, Orderly
    <3>2. v = Last(d)
      BY <1>1, <3>1, NewestIsLast DEF IInv
    <3>3. docs[d] # NoDoc
      BY <2>1 DEF NoDoc
    <3>4. ~Pending(d)
      BY <2>1 DEF Pending
    <3> QED
      BY <3>1, <3>2, <3>3, <3>4 DEF Follows
  <2> QED
    BY <2>1 DEF IndexFollows, Covers
<1>2. ASSUME IInv PROVE GenuineText
  <2>1. ASSUME NEW d \in 1..MaxDocs, adapter.fetch # "indexed"
        PROVE  /\ \A v \in VersionsOf(d) : v.text # Placeholder
               /\ \A k \in DOMAIN points[d] : points[d][k] # Placeholder
    BY <1>2, <2>1 DEF IInv, TypesOK, DocOK, Genuine, VersionsOf
  <2> QED
    BY <2>1 DEF GenuineText
<1>3. IInv => IndexSound
  BY <1>1, <1>2 DEF IndexSound
<1> QED
  BY <1>3, Invariant, PTL
=============================================================================
