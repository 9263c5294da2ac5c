------------------------------ MODULE ChatTurn ------------------------------
(***************************************************************************)
(* The AI service: chat turns, synchronous and streamed, through the agent *)
(* graph and the retriever with its search cache.  One collection may hold *)
(* the points of several workspaces (its name has eight digits of the id), *)
(* conversations are shared within a workspace, and turns interleave at    *)
(* every await.  A text is a model value, an answer is its sources, and a  *)
(* history is its length.  An operator with a suffix is a mutation.        *)
(***************************************************************************)
EXTENDS Naturals, FiniteSets

CONSTANTS Turns, Users, Workspaces, Convs, Docs,
          Queries,          \* texts of messages and of follow-up searches
          None,
          Access,           \* Access[u]: workspaces of u's organizations
          DocWs,            \* DocWs[d]: the workspace in d's points
          Collection,       \* Collection[w]: workspace_collection_name
          MaxResearchPasses, CompactionThreshold, KeepRecent,
          MaxHistory        \* bound: messages a client sends as history

ASSUME ChatAssumption ==
  /\ Access \in [Users -> SUBSET Workspaces]
  /\ DocWs \in [Docs -> Workspaces]
  /\ DOMAIN Collection = Workspaces
  /\ None \notin Turns \cup Workspaces \cup Convs \cup Queries
  /\ {CompactionThreshold, KeepRecent, MaxHistory} \subseteq Nat
  /\ MaxResearchPasses \in Nat \ {0}

VARIABLES turn,     \* turn[t]: what the handler of t holds
          convs,    \* convs[c]: workspace of conversation c, or None
          messages, \* the committed messages
          audits,   \* audit entries about flags
          calls,    \* turns with a row in ai_call_logs
          points,   \* documents with points in their collection
          cache     \* entries of the search cache

vars == <<turn, convs, messages, audits, calls, points, cache>>
stored == <<convs, messages, audits, calls>>

Kinds == {"sync", "stream"}
Flags == {"input", "output", "citation"}
Answers == {"none", "empty", "text"} \* none: the synthesize node was not run
IdleTurn == [pc |-> "idle", kind |-> "sync", ws |-> None, conv |-> None,
             query |-> None, client |-> 0, prompt |-> 0, route |-> "qa", passes |-> 0,
             found |-> {}, chunks |-> {}, sources |-> {}, flags |-> {}, answer |-> "none"]

Init ==
  /\ turn = [t \in Turns |-> IdleTurn]
  /\ convs = [c \in Convs |-> None]
  /\ messages = {} /\ audits = {} /\ calls = {}
  /\ points = {} /\ cache = {}

Becomes(t, s) == turn' = [turn EXCEPT ![t] = s]
Goes(t, pc) == Becomes(t, [turn[t] EXCEPT !.pc = pc])

(* What the handler still uses once the graph has ended. *)
Outside(t) == [IdleTurn EXCEPT !.kind = turn[t].kind, !.ws = turn[t].ws,
                               !.conv = turn[t].conv, !.flags = turn[t].flags]
-----------------------------------------------------------------------------
(* The handler up to the graph. *)

(* assert_workspace_access_for_user; a refused request leaves no trace. *)
Admit(t, u, w, kind) ==
  /\ turn[t].pc = "idle"
  /\ w \in Access[u]
  /\ \E q \in Queries, n \in 0..MaxHistory :
       Becomes(t, [IdleTurn EXCEPT !.pc = "admitted", !.kind = kind, !.ws = w,
                                   !.query = q, !.client = n])
  /\ UNCHANGED <<stored, points, cache>>

CreateConversation(t, c) ==
  /\ turn[t].pc = "admitted"
  /\ convs[c] = None
  /\ convs' = [convs EXCEPT ![c] = turn[t].ws]
  /\ Becomes(t, [turn[t] EXCEPT !.pc = "opened", !.conv = c])
  /\ UNCHANGED <<messages, audits, calls, points, cache>>

InWorkspace_Any(c, w) == convs[c] # None
InWorkspace(c, w) == convs[c] = w

(* A supplied conversation of another workspace is answered 404. *)
OpenConversation(t, c) ==
  /\ turn[t].pc = "admitted" /\ convs[c] # None
  /\ \/ /\ InWorkspace(c, turn[t].ws)
        /\ Becomes(t, [turn[t] EXCEPT !.pc = "opened", !.conv = c])
     \/ /\ ~InWorkspace(c, turn[t].ws)
        /\ Becomes(t, [IdleTurn EXCEPT !.pc = "refused"])
  /\ UNCHANGED <<stored, points, cache>>

(* The client's history counts only while nothing is stored. *)
LoadHistory(t) ==
  LET history == Cardinality({m \in messages : m.conv = turn[t].conv}) IN
  /\ turn[t].pc = "opened"
  /\ Becomes(t, [turn[t] EXCEPT !.pc = "loaded", !.client = 0,
                                !.prompt = (IF history = 0 THEN turn[t].client ELSE history) + 1])
  /\ UNCHANGED <<stored, points, cache>>

Message(t, role) == [turn |-> t, conv |-> turn[t].conv, role |-> role]

AppendQuestion(t) ==
  /\ turn[t].pc = "loaded"
  /\ messages' = messages \cup {Message(t, "user")}
  /\ Goes(t, "asked")
  /\ UNCHANGED <<convs, audits, calls, points, cache>>
-----------------------------------------------------------------------------
(* The graph. *)

InputFlags(t) == {{}, {"input"}}

(* security_node: a flagged message is not stopped. *)
Security(t) ==
  /\ turn[t].pc = "asked"
  /\ \E flags \in InputFlags(t) :
       Becomes(t, [turn[t] EXCEPT !.pc = "planner", !.flags = flags])
  /\ UNCHANGED <<stored, points, cache>>

Intents == {"qa", "research", "chitchat", "workflow", "analytics", "notifications"}
Routed(intent) == CASE intent = "qa" -> "memory"
                    [] intent = "research" -> "retrieve"
                    [] intent = "chitchat" -> "synthesize"
                    [] OTHER -> "status"

(* planner_node and intent_router_condition; no provider means "qa". *)
Planner(t) ==
  /\ turn[t].pc = "planner"
  /\ \E intent \in Intents :
       Becomes(t, [turn[t] EXCEPT !.pc = Routed(intent), !.route = intent])
  /\ UNCHANGED <<stored, points, cache>>

(* memory_node and _messages_for_llm: only "qa" turns are compacted. *)
Compacted(n) == IF n <= CompactionThreshold THEN n ELSE KeepRecent + 1

Memory(t) ==
  /\ turn[t].pc = "memory"
  /\ Becomes(t, [turn[t] EXCEPT !.pc = "retrieve", !.prompt = Compacted(@)])
  /\ UNCHANGED <<stored, points, cache>>

(* The nodes that only report: their answer has no sources. *)
WorkflowStatus(t) ==
  /\ turn[t].pc = "status" /\ turn[t].route = "workflow"
  /\ Becomes(t, [Outside(t) EXCEPT !.pc = "ended"])
  /\ UNCHANGED <<stored, points, cache>>

AnalyticsStatus(t) ==
  /\ turn[t].pc = "status" /\ turn[t].route = "analytics"
  /\ Becomes(t, [Outside(t) EXCEPT !.pc = "ended"])
  /\ UNCHANGED <<stored, points, cache>>

NotificationStatus(t) ==
  /\ turn[t].pc = "status" /\ turn[t].route = "notifications"
  /\ Becomes(t, [Outside(t) EXCEPT !.pc = "ended"])
  /\ UNCHANGED <<stored, points, cache>>
-----------------------------------------------------------------------------
(* The retriever. *)

CacheKey_NoWorkspace(t) == <<None, Collection[turn[t].ws], turn[t].query>>
CacheKey(t) == <<turn[t].ws, Collection[turn[t].ws], turn[t].query>>

Matches_Any(t, d) == TRUE
Matches(t, d) == DocWs[d] = turn[t].ws

Hits(t) == {d \in points : Collection[DocWs[d]] = Collection[turn[t].ws] /\ Matches(t, d)}

MorePasses_OffByOne(t, n) == turn[t].route = "research" /\ n <= MaxResearchPasses
MorePasses(t, n) == turn[t].route = "research" /\ n < MaxResearchPasses

(* The end of a search: a research turn may go on with another text, if a
   provider proposes one, unless this pass found nothing. *)
Searched(t, found) ==
  LET s == [turn[t] EXCEPT !.passes = @ + 1, !.chunks = @ \cup found, !.found = {}] IN
  \/ Becomes(t, [s EXCEPT !.pc = "synthesize"])
  \/ /\ MorePasses(t, s.passes) /\ found # {}
     /\ \E q \in Queries : Becomes(t, [s EXCEPT !.pc = "retrieve", !.query = q])

CacheHit(t) ==
  /\ turn[t].pc = "retrieve"
  /\ \E e \in cache : e.key = CacheKey(t) /\ Searched(t, e.docs)
  /\ UNCHANGED <<stored, points, cache>>

(* Nothing cached, or Redis fails: the collection is searched. *)
Search(t) ==
  /\ turn[t].pc = "retrieve"
  /\ Becomes(t, [turn[t] EXCEPT !.pc = "found", !.found = Hits(t)])
  /\ UNCHANGED <<stored, points, cache>>

(* Qdrant fails: the turn goes on without the chunks of this pass. *)
SearchFails(t) ==
  /\ turn[t].pc = "retrieve"
  /\ Searched(t, {})
  /\ UNCHANGED <<stored, points, cache>>

StoreInCache(t) ==
  /\ turn[t].pc = "found"
  /\ \/ cache' = {e \in cache : e.key # CacheKey(t)} \cup
                 {[key |-> CacheKey(t), docs |-> turn[t].found]}
     \/ UNCHANGED cache
  /\ Searched(t, turn[t].found)
  /\ UNCHANGED <<stored, points>>

CacheExpires == /\ \E e \in cache : cache' = cache \ {e}
                /\ UNCHANGED <<turn, stored, points>>

(* The worker indexes a document; deleting one leaves its points. *)
IndexDocument(d) == /\ d \notin points
                    /\ points' = points \cup {d}
                    /\ UNCHANGED <<turn, stored, cache>>
-----------------------------------------------------------------------------
(* The answer. *)

Verified_Claims(t, claims) == claims
Verified(t, claims) == claims \cap turn[t].chunks

(* synthesize_node: the providers, or the local fallback, answer with claims
   of any documents; without claims the sources are what was retrieved.  Without
   spaces and its line of citations an answer may be empty, which no check flags. *)
Synthesize(t) ==
  /\ turn[t].pc = "synthesize"
  /\ \E claims \in SUBSET Docs, output \in {{}, {"output"}}, answer \in {"empty", "text"} :
       /\ answer = "empty" => output = {}
       /\ Becomes(t, [Outside(t) EXCEPT !.pc = "ended", !.answer = answer,
            !.sources = IF claims = {} THEN turn[t].chunks ELSE Verified(t, claims),
            !.flags = @ \cup output \cup
                      (IF claims \subseteq turn[t].chunks THEN {} ELSE {"citation"})])
  /\ UNCHANGED <<stored, points, cache>>

(* chat_stream keeps an answer only when the node named "synthesize" ends with a
   text; an empty one is sent and not kept.  chat_sync has a text for that case. *)
HasFinal_Cited(t) == turn[t].kind = "sync" \/ turn[t].sources # {}
HasFinal(t) == turn[t].kind = "sync" \/ turn[t].answer = "text"

AppendAnswer(t) ==
  /\ turn[t].pc = "ended" /\ HasFinal(t)
  /\ messages' = messages \cup {Message(t, "assistant")}
  /\ Goes(t, "answered")
  /\ UNCHANGED <<convs, audits, calls, points, cache>>

(* The stream of a turn without a final answer ends with "done" all the same. *)
StreamEnds(t) ==
  /\ turn[t].pc = "ended" /\ ~HasFinal(t)
  /\ Goes(t, "done")
  /\ UNCHANGED <<stored, points, cache>>

Audited(t) == {a.flag : a \in {b \in audits : b.turn = t}}

(* _record_guardrail_audits: one commit per flag, unverified citations last. *)
RecordGuardrailAudit(t, f) ==
  /\ turn[t].pc = "answered"
  /\ f \in turn[t].flags \ Audited(t)
  /\ f = "output" => "input" \notin turn[t].flags \ Audited(t)
  /\ f = "citation" => turn[t].flags \ Audited(t) = {f}
  /\ audits' = audits \cup {[turn |-> t, flag |-> f]}
  /\ UNCHANGED <<turn, convs, messages, calls, points, cache>>

AllRecorded_Input(t) == turn[t].flags \cap {"input"} \subseteq Audited(t)
AllRecorded(t) == turn[t].flags \subseteq Audited(t)

WriteAiCallLog(t) ==
  /\ turn[t].pc = "answered" /\ AllRecorded(t)
  /\ calls' = calls \cup {t}
  /\ Becomes(t, [turn[t] EXCEPT !.pc = "done", !.sources = {}])
  /\ UNCHANGED <<convs, messages, audits, points, cache>>

(* The graph raises, the client of a stream hangs up, or the process dies:
   nothing after the last commit is stored. *)
CutShort(t) ==
  /\ turn[t].pc \notin {"idle", "refused", "done", "cut"}
  /\ Becomes(t, [IdleTurn EXCEPT !.pc = "cut"])
  /\ UNCHANGED <<stored, points, cache>>
-----------------------------------------------------------------------------
OpenStep(t) == \/ \E u \in Users, w \in Workspaces, k \in Kinds : Admit(t, u, w, k)
               \/ \E c \in Convs : CreateConversation(t, c) \/ OpenConversation(t, c)
               \/ LoadHistory(t) \/ AppendQuestion(t)
GraphStep(t) == \/ Security(t) \/ Planner(t) \/ Memory(t)
                \/ WorkflowStatus(t) \/ AnalyticsStatus(t) \/ NotificationStatus(t)
                \/ CacheHit(t) \/ Search(t) \/ SearchFails(t) \/ StoreInCache(t)
                \/ Synthesize(t)
RecordStep(t) == \/ AppendAnswer(t) \/ StreamEnds(t) \/ WriteAiCallLog(t)
                 \/ \E f \in Flags : RecordGuardrailAudit(t, f)

Next == \/ \E t \in Turns : OpenStep(t) \/ GraphStep(t) \/ RecordStep(t) \/ CutShort(t)
        \/ CacheExpires
        \/ \E d \in Docs : IndexDocument(d)

Spec == Init /\ [][Next]_vars
-----------------------------------------------------------------------------
TurnPcs == {"idle", "admitted", "refused", "opened", "loaded", "asked", "planner",
            "memory", "status", "retrieve", "found", "synthesize", "ended", "answered",
            "done", "cut"}

TurnState ==
  [pc : TurnPcs, kind : Kinds, ws : Workspaces \cup {None}, conv : Convs \cup {None},
   query : Queries \cup {None}, client : 0..MaxHistory, prompt : Nat, route : Intents,
   passes : 0..MaxResearchPasses, found : SUBSET Docs, chunks : SUBSET Docs,
   sources : SUBSET Docs, flags : SUBSET Flags, answer : Answers]

(* Every variable has its type.  A research turn searches at most
   MaxResearchPasses times (graph.py:640), any other at most once. *)
TypeOK ==
  /\ turn \in [Turns -> TurnState]
  /\ \A t \in Turns : turn[t].route # "research" => turn[t].passes <= 1
  /\ convs \in [Convs -> Workspaces \cup {None}]
  /\ messages \subseteq [turn : Turns, conv : Convs, role : {"user", "assistant"}]
  /\ audits \subseteq [turn : Turns, flag : Flags]
  /\ calls \subseteq Turns
  /\ points \subseteq Docs
  /\ cache \subseteq [key : (Workspaces \cup {None}) \X {Collection[w] : w \in Workspaces} \X Queries,
                      docs : SUBSET Docs]

OwnConversation(t) == turn[t].conv # None => convs[turn[t].conv] = turn[t].ws
OwnDocuments(t) == \A d \in turn[t].chunks \cup turn[t].sources : DocWs[d] = turn[t].ws

(* A turn reads and answers inside its own workspace: its conversation, the
   chunks it retrieves, through the collection or a result another turn has
   cached for the same text, and the sources it names.  The count of notifications
   with which one route answers is of the user and of all his workspaces, and no
   part of this (main.py:179, retriever.py:88 and 101, graph.py:506-561, 920). *)
Isolated == \A t \in Turns : OwnConversation(t) /\ OwnDocuments(t)

(* A row of ai_call_logs describes a turn that is on record as a whole: its
   question, its answer and an audit entry for each flag it raised, whatever
   was cut short between the commits (main.py:406-425, 513-535). *)
LoggedInFull == \A t \in calls :
  /\ {Message(t, "user"), Message(t, "assistant")} \subseteq messages
  /\ turn[t].flags \subseteq Audited(t)

(* A turn that runs to its end leaves its answer and its row of ai_call_logs
   behind, if it is synchronous or has synthesized a text.  That a client has the
   answer is not enough: the stream sends it before it is stored, and may be cut
   short in between (main.py:406-425, 512-535). *)
RepliesAreRecorded == \A t \in Turns :
  turn[t].pc = "done" /\ (turn[t].kind = "sync" \/ turn[t].answer = "text") =>
    t \in calls /\ Message(t, "assistant") \in messages

(* What a turn has stored is a beginning of its record, wherever it was cut short:
   no answer without its question, in one conversation, and no audit entry
   without the answer (main.py:399-410, 526-535). *)
RecordedInOrder ==
  /\ \A m \in messages : m.role = "assistant" => [m EXCEPT !.role = "user"] \in messages
  /\ \A a \in audits : \E m \in messages : m.turn = a.turn /\ m.role = "assistant"

(* Every answer is on record, and everything on record is complete. *)
OnRecord == LoggedInFull /\ RepliesAreRecorded /\ RecordedInOrder
=============================================================================
