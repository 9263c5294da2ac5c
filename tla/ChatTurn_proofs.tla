--------------------------- MODULE ChatTurn_proofs ---------------------------
(***************************************************************************)
(* What ChatTurn guarantees for every number of turns, users, workspaces,  *)
(* conversations and documents, every layout of the collections and every  *)
(* cap on the research passes.                                             *)
(***************************************************************************)
EXTENDS ChatTurn, FiniteSetTheorems, TLAPS

-----------------------------------------------------------------------------
(* The inductive invariant.                                                 *)

Outer == {"idle", "refused", "cut"}
Opened == TurnPcs \ (Outer \cup {"admitted"})
Asked == Opened \ {"opened", "loaded"}
Searching == {"admitted", "opened", "loaded", "asked", "planner", "memory", "status",
              "retrieve", "found"}

(* What a turn holds is right for where it is: its workspace from the admission
   on, its conversation once that is open, passes within the cap, and documents
   of its workspace only. *)
Placed(x) ==
  /\ x \in TurnState
  /\ x.pc \notin Outer \/ x.conv # None => x.ws \in Workspaces
  /\ x.pc \in Opened => x.conv \in Convs
  /\ x.pc \in Searching => x.query \in Queries
  /\ x.pc \notin {"retrieve", "found", "synthesize"} => x.passes = 0
  /\ x.pc \in {"retrieve", "found"} =>
       x.passes < MaxResearchPasses /\ (x.route # "research" => x.passes = 0)
  /\ x.route # "research" => x.passes <= 1
  /\ \A d \in x.found \cup x.chunks \cup x.sources : DocWs[d] = x.ws

(* A cached result belongs to the workspace of its key. *)
CacheOwned == \A e \in cache : \A d \in e.docs : DocWs[d] = e.key[1]

(* What is on record for a turn at each place, and a call log only at the end. *)
Recorded(t) ==
  /\ turn[t].pc \in Asked => Message(t, "user") \in messages
  /\ turn[t].pc = "answered" => Message(t, "assistant") \in messages
  /\ t \in calls => /\ turn[t].pc = "done"
                    /\ Message(t, "assistant") \in messages
                    /\ turn[t].flags \subseteq Audited(t)
  /\ turn[t].pc = "done" /\ (turn[t].kind = "sync" \/ turn[t].answer = "text") => t \in calls

CacheEntry == [key : (Workspaces \cup {None}) \X {Collection[w] : w \in Workspaces} \X Queries,
               docs : SUBSET Docs]
MessageRow == [turn : Turns, conv : Convs, role : {"user", "assistant"}]

TurnsPlaced == turn \in [Turns -> TurnState] /\ \A t \in Turns : Placed(turn[t])
StoresTyped ==
  /\ convs \in [Convs -> Workspaces \cup {None}]
  /\ messages \subseteq MessageRow /\ IsFiniteSet(messages)
  /\ audits \subseteq [turn : Turns, flag : Flags]
  /\ calls \subseteq Turns /\ points \subseteq Docs /\ cache \subseteq CacheEntry
AllOwned == CacheOwned /\ \A t \in Turns : OwnConversation(t)
AllRecordedSoFar == \A t \in Turns : Recorded(t)

IInv == TurnsPlaced /\ StoresTyped /\ AllOwned /\ AllRecordedSoFar

-----------------------------------------------------------------------------
(* The records of a turn.                                                   *)

(* The records a step puts in the place of a turn's. *)
AsAdmitted(kind, w, q, n) ==
  [IdleTurn EXCEPT !.pc = "admitted", !.kind = kind, !.ws = w, !.query = q, !.client = n]
AsOpened(x, c) == [x EXCEPT !.pc = "opened", !.conv = c]
Onward(x, pc, route, prompt, flags, client) ==
  [x EXCEPT !.pc = pc, !.route = route, !.prompt = prompt, !.flags = flags, !.client = client]
AsFound(x, found) == [x EXCEPT !.pc = "found", !.found = found]
AsSearched(x, found, pc, q) ==
  [x EXCEPT !.passes = @ + 1, !.chunks = @ \cup found, !.found = {}, !.pc = pc, !.query = q]
AsEnded(t, sources, flags, answer) ==
  [Outside(t) EXCEPT !.pc = "ended", !.answer = answer, !.sources = sources, !.flags = flags]
AsClosed(x, pc, sources) == [x EXCEPT !.pc = pc, !.sources = sources]

LEMMA IdleTyped ==
  /\ IdleTurn \in TurnState
  /\ IdleTurn.conv = None /\ IdleTurn.ws = None /\ IdleTurn.passes = 0 /\ IdleTurn.pc = "idle"
  /\ IdleTurn.found = {} /\ IdleTurn.chunks = {} /\ IdleTurn.sources = {}
  /\ IdleTurn.answer = "none" /\ IdleTurn.kind = "sync" /\ IdleTurn.flags = {}
<1>1. 0 \in 0..MaxHistory /\ 0 \in 0..MaxResearchPasses /\ 0 \in Nat
  BY ChatAssumption
<1>2. IdleTurn \in TurnState
  <2>1. "idle" \in TurnPcs /\ "sync" \in Kinds /\ "qa" \in Intents
    BY DEF TurnPcs, Kinds, Intents
  <2> QED
    BY <1>1, <2>1 DEF TurnState, IdleTurn, Answers
<1> QED
  BY <1>2 DEF IdleTurn

LEMMA IdlePlaced ==
  /\ Placed(IdleTurn)
  /\ \A pc \in Outer : LET s == [IdleTurn EXCEPT !.pc = pc]
                        IN  Placed(s) /\ s.pc = pc /\ s.conv = None
<1>1. ASSUME NEW pc \in Outer, NEW s \in TurnState, s.pc = pc, s.conv = None, s.passes = 0,
             s.found = {}, s.chunks = {}, s.sources = {}
      PROVE  Placed(s)
  BY <1>1, ChatAssumption DEF Placed, Outer, Opened, Searching
<1>2. Placed(IdleTurn)
  BY <1>1, IdleTyped DEF Outer
<1>3. ASSUME NEW pc \in Outer
      PROVE  LET s == [IdleTurn EXCEPT !.pc = pc] IN Placed(s) /\ s.pc = pc /\ s.conv = None
  <2> DEFINE s == [IdleTurn EXCEPT !.pc = pc]
  <2>1. pc \in TurnPcs
    BY DEF Outer, TurnPcs
  <2>2. /\ s \in TurnState /\ s.pc = pc /\ s.conv = None /\ s.passes = 0
        /\ s.found = {} /\ s.chunks = {} /\ s.sources = {}
    BY <2>1, IdleTyped DEF TurnState
  <2> QED
    BY <1>1, <2>2
<1> QED
  BY <1>2, <1>3

LEMMA AdmittedPlaced ==
  ASSUME NEW kind \in Kinds, NEW w \in Workspaces, NEW q \in Queries, NEW n \in 0..MaxHistory,
         NEW s, s = AsAdmitted(kind, w, q, n)
  PROVE  Placed(s) /\ s.pc = "admitted" /\ s.conv = None
<1>1. "admitted" \in TurnPcs
  BY DEF TurnPcs
<1>2. s \in TurnState
  BY <1>1, IdleTyped DEF TurnState, AsAdmitted
<1>3. /\ s.pc = "admitted" /\ s.conv = None /\ s.ws = w /\ s.query = q /\ s.passes = 0
      /\ s.found = {} /\ s.chunks = {} /\ s.sources = {}
  BY IdleTyped DEF TurnState, AsAdmitted
<1> QED
  BY <1>2, <1>3, ChatAssumption DEF Placed, Outer, Opened, Searching

LEMMA OutsidePlaced ==
  ASSUME NEW t \in Turns, turn \in [Turns -> TurnState], Placed(turn[t]), turn[t].pc \in Asked,
         NEW sources \in SUBSET Docs, \A d \in sources : DocWs[d] = turn[t].ws,
         NEW flags \in SUBSET Flags, NEW answer \in Answers, NEW s, s = AsEnded(t, sources, flags, answer)
  PROVE  /\ Placed(s) /\ s.pc = "ended" /\ s.conv = turn[t].conv /\ s.ws = turn[t].ws
         /\ s.kind = turn[t].kind
<1>0. turn[t] \in TurnState
  OBVIOUS
<1>1. Outside(t) \in TurnState
  BY <1>0, IdleTyped DEF TurnState, Outside
<1>2. /\ Outside(t).conv = turn[t].conv /\ Outside(t).ws = turn[t].ws
      /\ Outside(t).kind = turn[t].kind /\ Outside(t).passes = 0
      /\ Outside(t).found = {} /\ Outside(t).chunks = {}
  BY <1>0, IdleTyped DEF TurnState, AsEnded, Outside
<1>3. "ended" \in TurnPcs
  BY DEF TurnPcs
<1>4. s \in TurnState
  BY <1>1, <1>3 DEF TurnState, AsEnded
<1>5. /\ s.pc = "ended" /\ s.conv = turn[t].conv /\ s.ws = turn[t].ws
      /\ s.kind = turn[t].kind /\ s.passes = 0 /\ s.found = {} /\ s.chunks = {}
      /\ s.sources = sources
  BY <1>1, <1>2 DEF TurnState, AsEnded
<1>6. turn[t].ws \in Workspaces /\ turn[t].conv \in Convs
  BY DEF Placed, Asked, Opened, Outer
<1> QED
  BY <1>4, <1>5, <1>6 DEF Placed, Outer, Opened, Searching

LEMMA WithPc ==
  ASSUME NEW x \in TurnState, NEW pc \in TurnPcs
  PROVE  LET s == [x EXCEPT !.pc = pc]
         IN  /\ s \in TurnState /\ s.pc = pc
             /\ s.kind = x.kind /\ s.ws = x.ws /\ s.conv = x.conv /\ s.query = x.query
             /\ s.client = x.client /\ s.prompt = x.prompt /\ s.route = x.route
             /\ s.passes = x.passes /\ s.found = x.found /\ s.chunks = x.chunks
             /\ s.sources = x.sources /\ s.flags = x.flags /\ s.answer = x.answer
BY DEF TurnState

LEMMA OpenedPlaced ==
  ASSUME NEW x, Placed(x), x.pc = "admitted", NEW c \in Convs,
         NEW s, s = AsOpened(x, c)
  PROVE  Placed(s) /\ s.pc = "opened" /\ s.conv = c /\ s.ws = x.ws
<1>1. "opened" \in TurnPcs
  BY DEF TurnPcs
<1>2. x \in TurnState
  BY DEF Placed
<1>3. s \in TurnState
  BY <1>1, <1>2 DEF TurnState, AsOpened
<1>4. /\ s.pc = "opened" /\ s.conv = c /\ s.ws = x.ws /\ s.query = x.query /\ s.passes = x.passes
      /\ s.found = x.found /\ s.chunks = x.chunks /\ s.sources = x.sources /\ s.route = x.route
  BY <1>2 DEF TurnState, AsOpened
<1> QED
  BY <1>3, <1>4 DEF Placed, Outer, Opened, Searching

Onwards == {"opened", "loaded", "asked", "planner", "memory"}

(* Further along its way, with another prompt, other flags or another route. *)
LEMMA OnwardPlaced ==
  ASSUME NEW x, Placed(x), x.pc \in Onwards,
         NEW pc \in {"loaded", "asked", "planner", "memory", "status", "retrieve", "synthesize"},
         NEW route \in Intents, NEW prompt \in Nat, NEW flags \in SUBSET Flags,
         NEW client \in 0..MaxHistory,
         NEW s, s = Onward(x, pc, route, prompt, flags, client)
  PROVE  Placed(s) /\ s.pc = pc /\ s.conv = x.conv /\ s.ws = x.ws
<1>1. pc \in TurnPcs
  BY DEF TurnPcs
<1>2. x \in TurnState
  BY DEF Placed
<1>3. s \in TurnState
  BY <1>1, <1>2 DEF TurnState, Onward
<1>4. /\ s.pc = pc /\ s.conv = x.conv /\ s.ws = x.ws /\ s.query = x.query /\ s.passes = x.passes
      /\ s.found = x.found /\ s.chunks = x.chunks /\ s.sources = x.sources /\ s.route = route
  BY <1>2 DEF TurnState, Onward
<1>5. x.passes = 0 /\ x.conv \in Convs /\ x.ws \in Workspaces /\ x.query \in Queries
  BY DEF Placed, Opened, Outer, Searching, TurnPcs, Onwards
<1> QED
  BY <1>3, <1>4, <1>5, ChatAssumption DEF Placed, Outer, Opened, Searching

LEMMA SearchedPlaced ==
  ASSUME NEW x, Placed(x), x.pc \in {"retrieve", "found"},
         NEW found \in SUBSET Docs, \A d \in found : DocWs[d] = x.ws,
         NEW pc \in {"retrieve", "synthesize"}, NEW q \in Queries,
         pc = "retrieve" => x.route = "research" /\ x.passes + 1 < MaxResearchPasses,
         NEW s, s = AsSearched(x, found, pc, q)
  PROVE  Placed(s) /\ s.pc = pc /\ s.conv = x.conv /\ s.ws = x.ws
<1>1. pc \in TurnPcs
  BY DEF TurnPcs
<1>2. x \in TurnState /\ x.passes < MaxResearchPasses
  BY DEF Placed
<1>3. x.passes + 1 \in 0..MaxResearchPasses
  BY <1>2, ChatAssumption DEF TurnState, AsSearched
<1>4. s \in TurnState
  BY <1>1, <1>2, <1>3 DEF TurnState, AsSearched
<1>5. /\ s.pc = pc /\ s.conv = x.conv /\ s.ws = x.ws /\ s.query = q /\ s.passes = x.passes + 1
      /\ s.found = {} /\ s.chunks = x.chunks \cup found /\ s.sources = x.sources
      /\ s.route = x.route
  BY <1>2 DEF TurnState, AsSearched
<1>6. x.conv \in Convs /\ x.ws \in Workspaces /\ (x.route # "research" => x.passes = 0)
  BY DEF Placed, Opened, Outer, TurnPcs
<1> QED
  BY <1>4, <1>5, <1>6, <1>3 DEF Placed, Outer, Opened, Searching

(* The end of a turn: only its place changes. *)
LEMMA EndedPlaced ==
  ASSUME NEW x, Placed(x), x.pc \in {"ended", "answered"}, NEW pc \in {"answered", "done"},
         NEW sources \in {x.sources, {}},
         NEW s, s = AsClosed(x, pc, sources)
  PROVE  /\ Placed(s) /\ s.pc = pc /\ s.conv = x.conv /\ s.ws = x.ws /\ s.kind = x.kind
         /\ s.flags = x.flags /\ s.answer = x.answer
<1>1. pc \in TurnPcs
  BY DEF TurnPcs
<1>2. x \in TurnState
  BY DEF Placed
<1>3. s \in TurnState
  BY <1>1, <1>2 DEF TurnState, AsClosed
<1>4. /\ s.pc = pc /\ s.conv = x.conv /\ s.ws = x.ws /\ s.passes = x.passes
      /\ s.found = x.found /\ s.chunks = x.chunks /\ s.sources = sources /\ s.route = x.route
      /\ s.kind = x.kind /\ s.flags = x.flags /\ s.answer = x.answer
  BY <1>2 DEF TurnState, AsClosed
<1>5. x.passes = 0 /\ x.conv \in Convs /\ x.ws \in Workspaces
  BY DEF Placed, Opened, Outer, Searching, TurnPcs
<1> QED
  BY <1>3, <1>4, <1>5, ChatAssumption DEF Placed, Outer, Opened, Searching

LEMMA FoundPlaced ==
  ASSUME NEW x, Placed(x), x.pc = "retrieve",
         NEW found \in SUBSET Docs, \A d \in found : DocWs[d] = x.ws,
         NEW s, s = AsFound(x, found)
  PROVE  Placed(s) /\ s.pc = "found" /\ s.conv = x.conv /\ s.ws = x.ws
<1>1. "found" \in TurnPcs
  BY DEF TurnPcs
<1>2. x \in TurnState
  BY DEF Placed
<1>3. s \in TurnState
  BY <1>1, <1>2 DEF TurnState, AsFound
<1>4. /\ s.pc = "found" /\ s.conv = x.conv /\ s.ws = x.ws /\ s.passes = x.passes
      /\ s.found = found /\ s.chunks = x.chunks /\ s.sources = x.sources /\ s.route = x.route
      /\ s.query = x.query
  BY <1>2 DEF TurnState, AsFound
<1> QED
  BY <1>3, <1>4 DEF Placed, Outer, Opened, Searching, TurnPcs

-----------------------------------------------------------------------------
(* Every step of a turn leaves it well placed.  The turn moves on in the same
   conversation and workspace, opens one, or is reset. *)

Moves(t, s) ==
  /\ turn' = [turn EXCEPT ![t] = s]
  /\ Placed(s)

Stays(t, s) == Moves(t, s) /\ s.conv = turn[t].conv /\ s.ws = turn[t].ws

LEMMA Movement ==
  ASSUME TurnsPlaced, NEW t \in Turns, NEW s, Moves(t, s)
  PROVE  TurnsPlaced' /\ turn'[t] = s /\ \A u \in Turns \ {t} : turn'[u] = turn[u]
BY DEF Moves, TurnsPlaced, Placed

LEMMA OnwardStays ==
  ASSUME NEW t \in Turns, Placed(turn[t]), turn[t].pc \in Onwards,
         NEW pc \in {"loaded", "asked", "planner", "memory", "status", "retrieve", "synthesize"},
         NEW route, NEW prompt, NEW flags, NEW client,
         route = turn[t].route \/ route \in Intents,
         prompt = turn[t].prompt \/ prompt \in Nat,
         flags = turn[t].flags \/ flags \in SUBSET Flags,
         client = turn[t].client \/ client \in 0..MaxHistory,
         turn' = [turn EXCEPT ![t] = Onward(turn[t], pc, route, prompt, flags, client)]
  PROVE  \E s : Stays(t, s) /\ s.pc = pc
<1>1. /\ route \in Intents /\ prompt \in Nat /\ flags \in SUBSET Flags
      /\ client \in 0..MaxHistory
  BY DEF Placed, TurnState
<1> DEFINE s == Onward(turn[t], pc, route, prompt, flags, client)
<1>2. Placed(s) /\ s.pc = pc /\ s.conv = turn[t].conv /\ s.ws = turn[t].ws
  BY <1>1, OnwardPlaced
<1>3. turn' = [turn EXCEPT ![t] = s]
  OBVIOUS
<1> HIDE DEF s
<1> QED
  BY <1>2, <1>3 DEF Moves, Stays

Opens(t, c, s) == s.pc = "opened" /\ s.conv = c /\ s.ws = turn[t].ws
Refuses(s) == s.pc = "refused" /\ s.conv = None

LEMMA OpeningSteps ==
  ASSUME IInv, NEW t \in Turns
  PROVE  /\ \A u \in Users, w \in Workspaces, k \in Kinds : Admit(t, u, w, k) =>
              \E s : Moves(t, s) /\ s.pc = "admitted" /\ s.conv = None
         /\ \A c \in Convs : CreateConversation(t, c) =>
              \E s : Moves(t, s) /\ s.pc = "opened" /\ s.conv = c /\ s.ws = turn[t].ws
         /\ \A c \in Convs : OpenConversation(t, c) =>
              \E s : Moves(t, s) /\ (Opens(t, c, s) \/ Refuses(s))
         /\ LoadHistory(t) => \E s : Stays(t, s) /\ s.pc = "loaded"
         /\ AppendQuestion(t) => \E s : Stays(t, s) /\ s.pc = "asked"
<1>0. Placed(turn[t]) /\ turn[t] \in TurnState
  BY DEF IInv, TurnsPlaced
<1>1. ASSUME NEW u \in Users, NEW w \in Workspaces, NEW k \in Kinds, Admit(t, u, w, k)
      PROVE  \E s : Moves(t, s) /\ s.pc = "admitted" /\ s.conv = None
  <2>1. PICK q \in Queries, n \in 0..MaxHistory :
          turn' = [turn EXCEPT ![t] = AsAdmitted(k, w, q, n)]
    BY <1>1, Zenon DEF Admit, Becomes, AsAdmitted
  <2> QED
    BY <2>1, AdmittedPlaced DEF Moves
<1>2. ASSUME NEW c \in Convs, turn[t].pc = "admitted",
             turn' = [turn EXCEPT ![t] = AsOpened(turn[t], c)]
      PROVE  \E s : Moves(t, s) /\ s.pc = "opened" /\ s.conv = c /\ s.ws = turn[t].ws
  <2> DEFINE s == AsOpened(turn[t], c)
  <2>1. Placed(s) /\ s.pc = "opened" /\ s.conv = c /\ s.ws = turn[t].ws
    BY <1>0, <1>2, OpenedPlaced
  <2>2. turn' = [turn EXCEPT ![t] = s]
    BY <1>2
  <2> HIDE DEF s
  <2> QED
    BY <2>1, <2>2 DEF Moves
<1>3. ASSUME NEW c \in Convs, CreateConversation(t, c)
      PROVE  \E s : Moves(t, s) /\ s.pc = "opened" /\ s.conv = c /\ s.ws = turn[t].ws
  <2>1. turn[t].pc = "admitted" /\ turn' = [turn EXCEPT ![t] = AsOpened(turn[t], c)]
    BY <1>3 DEF CreateConversation, Becomes, AsOpened
  <2> QED
    BY <1>2, <2>1, Zenon
<1>4. ASSUME NEW c \in Convs, OpenConversation(t, c)
      PROVE  \E s : Moves(t, s) /\ (Opens(t, c, s) \/ Refuses(s))
  <2> DEFINE s == [IdleTurn EXCEPT !.pc = "refused"]
  <2>1. Placed(s) /\ s.pc = "refused" /\ s.conv = None
    BY IdlePlaced DEF Outer
  <2>2. \/ turn' = [turn EXCEPT ![t] = AsOpened(turn[t], c)]
        \/ turn' = [turn EXCEPT ![t] = s]
    BY <1>4 DEF OpenConversation, Becomes, AsOpened
  <2>3. turn[t].pc = "admitted"
    BY <1>4 DEF OpenConversation
  <2> HIDE DEF s
  <2>4. CASE turn' = [turn EXCEPT ![t] = s]
    BY <2>1, <2>4 DEF Moves, Refuses
  <2>5. CASE turn' = [turn EXCEPT ![t] = AsOpened(turn[t], c)]
    <3>1. \E r : Moves(t, r) /\ r.pc = "opened" /\ r.conv = c /\ r.ws = turn[t].ws
      BY <1>2, <2>3, <2>5, Zenon
    <3> QED
      BY <3>1, Zenon DEF Opens
  <2> QED
    BY <2>2, <2>4, <2>5
<1>5. ASSUME LoadHistory(t)
      PROVE  \E s : Stays(t, s) /\ s.pc = "loaded"
  <2> DEFINE history == {m \in messages : m.conv = turn[t].conv}
             n == (IF Cardinality(history) = 0 THEN turn[t].client ELSE Cardinality(history)) + 1
  <2>1. Cardinality(history) \in Nat
    BY FS_Subset, FS_CardinalityType DEF IInv, StoresTyped
  <2>2. n \in Nat /\ 0 \in 0..MaxHistory
    BY <1>0, <2>1, ChatAssumption DEF TurnState
  <2>3. turn' = [turn EXCEPT ![t] = [turn[t] EXCEPT !.pc = "loaded", !.client = 0, !.prompt = n]]
    BY <1>5 DEF LoadHistory, Becomes
  <2>4. turn[t].pc = "opened" /\ turn[t].pc \in Onwards
    BY <1>5 DEF LoadHistory, Onwards
  <2> HIDE DEF n
  <2>5. turn' = [turn EXCEPT ![t] = Onward(turn[t], "loaded", turn[t].route, n, turn[t].flags, 0)]
    BY <1>0, <2>3 DEF TurnState, Onward
  <2> QED
    BY <1>0, <2>2, <2>4, <2>5, OnwardStays
<1>6. ASSUME AppendQuestion(t)
      PROVE  \E s : Stays(t, s) /\ s.pc = "asked"
  <2>1. turn' = [turn EXCEPT ![t] = [turn[t] EXCEPT !.pc = "asked"]]
    BY <1>6 DEF AppendQuestion, Goes, Becomes
  <2>2. turn[t].pc \in Onwards
    BY <1>6 DEF AppendQuestion, Onwards
  <2>3. turn' = [turn EXCEPT ![t] = Onward(turn[t], "asked", turn[t].route, turn[t].prompt,
                                           turn[t].flags, turn[t].client)]
    BY <1>0, <2>1 DEF TurnState, Onward
  <2> QED
    BY <1>0, <2>2, <2>3, OnwardStays
<1> QED
  BY <1>1, <1>3, <1>4, <1>5, <1>6

LEMMA SearchedStep ==
  ASSUME NEW t \in Turns, Placed(turn[t]), turn[t].pc \in {"retrieve", "found"},
         NEW found \in SUBSET Docs, \A d \in found : DocWs[d] = turn[t].ws,
         Searched(t, found)
  PROVE  \E s : Stays(t, s) /\ s.pc \in {"retrieve", "synthesize"}
<1> DEFINE x == turn[t]
<1>1. x \in TurnState /\ x.query \in Queries
  BY DEF Placed, Searching
<1>2. ASSUME NEW pc \in {"retrieve", "synthesize"}, NEW q \in Queries,
             pc = "retrieve" => x.route = "research" /\ x.passes + 1 < MaxResearchPasses,
             turn' = [turn EXCEPT ![t] = AsSearched(x, found, pc, q)]
      PROVE  \E s : Stays(t, s) /\ s.pc \in {"retrieve", "synthesize"}
  <2> DEFINE s == AsSearched(x, found, pc, q)
  <2>1. Placed(s) /\ s.pc = pc /\ s.conv = x.conv /\ s.ws = x.ws
    BY <1>2, SearchedPlaced
  <2>2. turn' = [turn EXCEPT ![t] = s]
    BY <1>2
  <2> HIDE DEF s
  <2> QED
    BY <2>1, <2>2 DEF Moves, Stays
<1> DEFINE b == [x EXCEPT !.passes = @ + 1, !.chunks = @ \cup found, !.found = {}]
<1>3. CASE turn' = [turn EXCEPT ![t] = [b EXCEPT !.pc = "synthesize"]]
  <2>1. turn' = [turn EXCEPT ![t] = AsSearched(x, found, "synthesize", x.query)]
    BY <1>1, <1>3 DEF TurnState, AsSearched
  <2> HIDE DEF b
  <2> QED
    BY <1>1, <1>2, <2>1
<1>4. CASE /\ MorePasses(t, b.passes)
           /\ \E q \in Queries : turn' = [turn EXCEPT ![t] = [b EXCEPT !.pc = "retrieve", !.query = q]]
  <2>1. PICK q \in Queries : turn' = [turn EXCEPT ![t] = [b EXCEPT !.pc = "retrieve", !.query = q]]
    BY <1>4
  <2>2. turn' = [turn EXCEPT ![t] = AsSearched(x, found, "retrieve", q)]
    BY <1>1, <2>1 DEF TurnState, AsSearched
  <2>3. x.route = "research" /\ x.passes + 1 < MaxResearchPasses
    BY <1>1, <1>4 DEF MorePasses, TurnState
  <2> HIDE DEF b
  <2> QED
    BY <1>2, <2>2, <2>3
<1> QED
  BY <1>3, <1>4 DEF Searched, Becomes

Midway == Asked \ {"answered", "done"}

LEMMA GraphSteps ==
  ASSUME IInv, NEW t \in Turns, GraphStep(t)
  PROVE  turn[t].pc \in Midway /\ \E s : Stays(t, s) /\ s.pc \in Midway
<1>0. Placed(turn[t]) /\ turn[t] \in TurnState /\ turn \in [Turns -> TurnState]
  BY DEF IInv, TurnsPlaced
<1> DEFINE x == turn[t]
           Goal == \E s : Stays(t, s) /\ s.pc \in Midway
<1>1. x.pc \in Midway
  BY DEF GraphStep, Security, Planner, Memory, WorkflowStatus, AnalyticsStatus,
         NotificationStatus, CacheHit, Search, SearchFails, StoreInCache, Synthesize,
         Midway, Asked, Opened, Outer, TurnPcs
<1>2. {"planner", "memory", "status", "retrieve", "synthesize", "found", "ended"} \subseteq Midway
  BY DEF Midway, Asked, Opened, Outer, TurnPcs
<1> SUFFICES Goal
  BY <1>1
<1>3. CASE Security(t)
  <2>1. PICK flags \in InputFlags(t) :
          turn' = [turn EXCEPT ![t] = [x EXCEPT !.pc = "planner", !.flags = flags]]
    BY <1>3 DEF Security, Becomes
  <2>2. flags \in SUBSET Flags
    BY DEF InputFlags, Flags
  <2>3. turn' = [turn EXCEPT ![t] = Onward(x, "planner", x.route, x.prompt, flags, x.client)]
    BY <1>0, <2>1 DEF TurnState, Onward
  <2>4. x.pc \in Onwards
    BY <1>3 DEF Security, Onwards
  <2>5. \E s : Stays(t, s) /\ s.pc = "planner"
    BY <1>0, <2>2, <2>3, <2>4, OnwardStays
  <2> QED
    BY <1>2, <2>2, <2>5
<1>4. CASE Planner(t)
  <2>1. PICK intent \in Intents :
          turn' = [turn EXCEPT ![t] = [x EXCEPT !.pc = Routed(intent), !.route = intent]]
    BY <1>4 DEF Planner, Becomes
  <2>2. PICK pc \in {"memory", "retrieve", "synthesize", "status"} : pc = Routed(intent)
    BY DEF Routed, Intents
  <2>3. turn' = [turn EXCEPT ![t] = Onward(x, pc, intent, x.prompt, x.flags, x.client)]
    BY <1>0, <2>1, <2>2 DEF TurnState, Onward
  <2>4. x.pc \in Onwards
    BY <1>4 DEF Planner, Onwards
  <2> DEFINE s == Onward(x, pc, intent, x.prompt, x.flags, x.client)
  <2>5. x.prompt \in Nat /\ x.flags \in SUBSET Flags /\ x.client \in 0..MaxHistory
    BY <1>0 DEF TurnState
  <2>6. Placed(s) /\ s.pc = pc /\ s.conv = x.conv /\ s.ws = x.ws
    BY <1>0, <2>4, <2>5, OnwardPlaced
  <2>7. turn' = [turn EXCEPT ![t] = s]
    BY <2>3
  <2> HIDE DEF s
  <2> QED
    BY <1>2, <2>6, <2>7 DEF Moves, Stays
<1>5. CASE Memory(t)
  <2> DEFINE n == Compacted(x.prompt)
  <2>1. turn' = [turn EXCEPT ![t] = [x EXCEPT !.pc = "retrieve", !.prompt = n]]
    BY <1>5 DEF Memory, Becomes
  <2>2. n \in Nat
    BY <1>0, ChatAssumption DEF Compacted, TurnState
  <2> HIDE DEF n
  <2>3. turn' = [turn EXCEPT ![t] = Onward(x, "retrieve", x.route, n, x.flags, x.client)]
    BY <1>0, <2>1 DEF TurnState, Onward
  <2>4. x.pc \in Onwards
    BY <1>5 DEF Memory, Onwards
  <2>5. \E s : Stays(t, s) /\ s.pc = "retrieve"
    BY <1>0, <2>2, <2>3, <2>4, OnwardStays, ZenonT(60)
  <2> QED
    BY <1>2, <2>2, <2>5
<1>6. ASSUME NEW sources \in SUBSET Docs, \A d \in sources : DocWs[d] = x.ws,
             NEW flags \in SUBSET Flags, NEW answer \in Answers,
             turn' = [turn EXCEPT ![t] = AsEnded(t, sources, flags, answer)]
      PROVE  Goal
  <2> DEFINE s == AsEnded(t, sources, flags, answer)
  <2>1. x.pc \in Asked
    BY <1>1 DEF Midway
  <2>2. Placed(s) /\ s.pc = "ended" /\ s.conv = x.conv /\ s.ws = x.ws
    BY <1>0, <1>6, <2>1, OutsidePlaced
  <2>3. turn' = [turn EXCEPT ![t] = s]
    BY <1>6
  <2> HIDE DEF s
  <2> QED
    BY <1>2, <2>2, <2>3 DEF Moves, Stays
<1>7. CASE WorkflowStatus(t) \/ AnalyticsStatus(t) \/ NotificationStatus(t)
  <2>1. turn' = [turn EXCEPT ![t] = [Outside(t) EXCEPT !.pc = "ended"]]
    BY <1>7 DEF WorkflowStatus, AnalyticsStatus, NotificationStatus, Becomes
  <2>2. turn' = [turn EXCEPT ![t] = AsEnded(t, {}, x.flags, "none")]
    BY <1>0, <2>1, IdleTyped, ZenonT(60) DEF AsEnded, Outside, TurnState
  <2>3. x.flags \in SUBSET Flags
    BY <1>0 DEF TurnState
  <2>4. {} \in SUBSET Docs /\ \A d \in {} : DocWs[d] = x.ws
    OBVIOUS
  <2>5. "none" \in Answers
    BY DEF Answers
  <2> QED
    BY <1>6, <2>2, <2>3, <2>4, <2>5, ZenonT(30)
<1>8. CASE CacheHit(t)
  <2>1. PICK e \in cache : e.key = CacheKey(t) /\ Searched(t, e.docs)
    BY <1>8 DEF CacheHit
  <2>2. e.key[1] = x.ws
    BY <2>1 DEF CacheKey
  <2>3. e.docs \in SUBSET Docs /\ \A d \in e.docs : DocWs[d] = x.ws
    BY <2>2 DEF IInv, StoresTyped, AllOwned, CacheOwned, CacheEntry
  <2>4. x.pc = "retrieve"
    BY <1>8 DEF CacheHit
  <2> QED
    BY <1>0, <1>2, <2>1, <2>3, <2>4, SearchedStep
<1>9. CASE SearchFails(t)
  <2>1. x.pc = "retrieve" /\ Searched(t, {})
    BY <1>9 DEF SearchFails
  <2> QED
    BY <1>0, <1>2, <2>1, SearchedStep
<1>10. CASE StoreInCache(t)
  <2>1. x.pc = "found" /\ Searched(t, x.found)
    BY <1>10 DEF StoreInCache
  <2>2. x.found \in SUBSET Docs /\ \A d \in x.found : DocWs[d] = x.ws
    BY <1>0 DEF Placed, TurnState
  <2> QED
    BY <1>0, <1>2, <2>1, <2>2, SearchedStep
<1>11. CASE Search(t)
  <2>1. x.pc = "retrieve" /\ turn' = [turn EXCEPT ![t] = AsFound(x, Hits(t))]
    BY <1>11 DEF Search, Becomes, AsFound
  <2>2. Hits(t) \in SUBSET Docs /\ \A d \in Hits(t) : DocWs[d] = x.ws
    BY DEF IInv, StoresTyped, Hits, Matches
  <2> DEFINE s == AsFound(x, Hits(t))
  <2>3. Placed(s) /\ s.pc = "found" /\ s.conv = x.conv /\ s.ws = x.ws
    BY <1>0, <2>1, <2>2, FoundPlaced
  <2>4. turn' = [turn EXCEPT ![t] = s]
    BY <2>1
  <2> HIDE DEF s
  <2>5. Stays(t, s) /\ s.pc = "found"
    BY <2>3, <2>4 DEF Moves, Stays
  <2> QED
    BY <1>2, <2>5
<1>12. CASE Synthesize(t)
  <2>1. PICK claims \in SUBSET Docs, output \in {{}, {"output"}}, answer \in {"empty", "text"} :
          turn' = [turn EXCEPT ![t] = [Outside(t) EXCEPT !.pc = "ended", !.answer = answer,
            !.sources = IF claims = {} THEN x.chunks ELSE Verified(t, claims),
            !.flags = @ \cup output \cup (IF claims \subseteq x.chunks THEN {} ELSE {"citation"})]]
    BY <1>12 DEF Synthesize, Becomes
  <2> DEFINE sources == IF claims = {} THEN x.chunks ELSE Verified(t, claims)
             citation == IF claims \subseteq x.chunks THEN {} ELSE {"citation"}
             flags == x.flags \cup output \cup citation
  <2>2. sources \in SUBSET Docs /\ \A d \in sources : DocWs[d] = x.ws
    BY <1>0 DEF Placed, TurnState, Verified
  <2>3. flags \in SUBSET Flags
    BY <1>0 DEF TurnState, Flags
  <2>4. Outside(t).flags = x.flags /\ Outside(t) \in TurnState
    BY <1>0, IdleTyped DEF Outside, TurnState
  <2>5. turn' = [turn EXCEPT ![t] = [Outside(t) EXCEPT !.pc = "ended", !.answer = answer,
                   !.sources = sources, !.flags = @ \cup output \cup citation]]
    BY <2>1
  <2> HIDE DEF sources, citation
  <2>6. turn' = [turn EXCEPT ![t] = AsEnded(t, sources, flags, answer)]
    BY <2>4, <2>5 DEF AsEnded, TurnState
  <2> HIDE DEF flags
  <2>7. answer \in Answers
    BY DEF Answers
  <2> QED
    BY <1>6, <2>2, <2>3, <2>6, <2>7, ZenonT(30)
<1> QED
  BY <1>3, <1>4, <1>5, <1>7, <1>8, <1>9, <1>10, <1>11, <1>12 DEF GraphStep

LEMMA EndingSteps ==
  ASSUME IInv, NEW t \in Turns, NEW s
  PROVE  /\ AppendAnswer(t) /\ s = AsClosed(turn[t], "answered", turn[t].sources) =>
              Stays(t, s) /\ s.pc = "answered"
         /\ StreamEnds(t) /\ s = AsClosed(turn[t], "done", turn[t].sources) =>
              /\ Stays(t, s) /\ s.pc = "done" /\ s.kind # "sync" /\ s.answer # "text"
         /\ WriteAiCallLog(t) /\ s = AsClosed(turn[t], "done", {}) =>
              /\ Stays(t, s) /\ s.pc = "done" /\ s.flags = turn[t].flags
         /\ CutShort(t) /\ s = [IdleTurn EXCEPT !.pc = "cut"] =>
              Moves(t, s) /\ s.pc = "cut" /\ s.conv = None
<1>0. Placed(turn[t]) /\ turn[t] \in TurnState
  BY DEF IInv, TurnsPlaced
<1>1. ASSUME AppendAnswer(t), s = AsClosed(turn[t], "answered", turn[t].sources)
      PROVE  Stays(t, s) /\ s.pc = "answered"
  <2>1. turn[t].pc = "ended" /\ turn' = [turn EXCEPT ![t] = [turn[t] EXCEPT !.pc = "answered"]]
    BY <1>1 DEF AppendAnswer, Goes, Becomes
  <2>2. turn' = [turn EXCEPT ![t] = s]
    BY <1>0, <1>1, <2>1 DEF AsClosed, TurnState
  <2>3. turn[t].sources \in {turn[t].sources, {}}
    OBVIOUS
  <2>4. Placed(s) /\ s.pc = "answered" /\ s.conv = turn[t].conv /\ s.ws = turn[t].ws
    BY <1>0, <1>1, <2>1, <2>3, EndedPlaced
  <2> QED
    BY <2>2, <2>4 DEF Moves, Stays
<1>2. ASSUME StreamEnds(t), s = AsClosed(turn[t], "done", turn[t].sources)
      PROVE  Stays(t, s) /\ s.pc = "done" /\ s.kind # "sync" /\ s.answer # "text"
  <2>1. turn[t].pc = "ended" /\ turn' = [turn EXCEPT ![t] = [turn[t] EXCEPT !.pc = "done"]]
    BY <1>2 DEF StreamEnds, Goes, Becomes
  <2>2. turn' = [turn EXCEPT ![t] = s]
    BY <1>0, <1>2, <2>1 DEF AsClosed, TurnState
  <2>3. turn[t].kind # "sync" /\ turn[t].answer # "text"
    BY <1>0, <1>2 DEF StreamEnds, HasFinal, TurnState
  <2>4. /\ Placed(s) /\ s.pc = "done" /\ s.conv = turn[t].conv /\ s.ws = turn[t].ws
        /\ s.kind = turn[t].kind /\ s.answer = turn[t].answer
    BY <1>0, <1>2, <2>1, EndedPlaced
  <2> QED
    BY <2>2, <2>3, <2>4 DEF Moves, Stays
<1>3. ASSUME WriteAiCallLog(t), s = AsClosed(turn[t], "done", {})
      PROVE  Stays(t, s) /\ s.pc = "done" /\ s.flags = turn[t].flags
  <2>1. turn[t].pc = "answered" /\ turn' = [turn EXCEPT ![t] = s]
    BY <1>3 DEF WriteAiCallLog, Becomes, AsClosed
  <2> QED
    BY <1>0, <1>3, <2>1, EndedPlaced DEF Moves, Stays
<1>4. ASSUME CutShort(t), s = [IdleTurn EXCEPT !.pc = "cut"]
      PROVE  Moves(t, s) /\ s.pc = "cut" /\ s.conv = None
  <2>1. turn' = [turn EXCEPT ![t] = s]
    BY <1>4 DEF CutShort, Becomes
  <2> QED
    BY <1>4, <2>1, IdlePlaced DEF Moves, Outer
<1> QED
  BY <1>1, <1>2, <1>3, <1>4

-----------------------------------------------------------------------------
(* What the steps of one turn mean for the others and for the stores.       *)

LEMMA OthersRecorded ==
  ASSUME AllRecordedSoFar, NEW t \in Turns, \A u \in Turns \ {t} : turn'[u] = turn[u],
         messages \subseteq messages', audits \subseteq audits', calls' \ {t} = calls \ {t}
  PROVE  \A u \in Turns \ {t} : Recorded(u)'
<1> SUFFICES ASSUME NEW u \in Turns \ {t} PROVE Recorded(u)'
  OBVIOUS
<1>1. Recorded(u) /\ turn'[u] = turn[u] /\ (u \in calls' <=> u \in calls)
  BY DEF AllRecordedSoFar
<1>2. Audited(u) \subseteq Audited(u)'
  BY DEF Audited
<1>3. \A role : Message(u, role)' = Message(u, role)
  BY <1>1 DEF Message
<1> QED
  BY <1>1, <1>2, <1>3 DEF Recorded

(* A turn whose messages cannot count yet. *)
LEMMA EarlyRecorded ==
  ASSUME NEW t \in Turns, Recorded(t), turn[t].pc # "done", calls' = calls,
         turn'[t].pc \notin Asked
  PROVE  Recorded(t)'
<1>1. t \notin calls'
  BY DEF Recorded
<1>2. turn'[t].pc \notin {"answered", "done"}
  BY DEF Asked, Opened, Outer, TurnPcs
<1> QED
  BY <1>1, <1>2 DEF Recorded

LEMMA MidwayRecorded ==
  ASSUME NEW t \in Turns, Recorded(t), turn[t].pc # "done", calls' = calls,
         turn'[t].pc \in Midway, turn'[t].conv = turn[t].conv, messages \subseteq messages',
         turn[t].pc \in Asked \/ Message(t, "user") \in messages'
  PROVE  Recorded(t)'
<1>1. t \notin calls'
  BY DEF Recorded
<1>2. turn'[t].pc \notin {"answered", "done"}
  BY DEF Midway
<1>3. Message(t, "user")' = Message(t, "user")
  BY DEF Message
<1>4. Message(t, "user")' \in messages'
  BY <1>3 DEF Recorded
<1> QED
  BY <1>1, <1>2, <1>4 DEF Recorded

LEMMA OwnedStep ==
  ASSUME TurnsPlaced, AllOwned, NEW t \in Turns, NEW s, Moves(t, s),
         convs' = convs \/ \E c \in Convs : \E w : convs[c] = None /\ convs' = [convs EXCEPT ![c] = w],
         convs \in [Convs -> Workspaces \cup {None}],
         s.conv # None => convs'[s.conv] = s.ws
  PROVE  \A u \in Turns : OwnConversation(u)'
<1>1. turn'[t] = s /\ \A u \in Turns \ {t} : turn'[u] = turn[u]
  BY Movement
<1>2. ASSUME NEW u \in Turns \ {t} PROVE OwnConversation(u)'
  <2>1. OwnConversation(u) /\ turn'[u] = turn[u] /\ Placed(turn[u])
    BY <1>1 DEF AllOwned, TurnsPlaced
  <2>2. turn[u].conv # None => turn[u].ws \in Workspaces
    BY <2>1 DEF Placed
  <2>3. turn[u].conv \in Convs \cup {None}
    BY <2>1 DEF Placed, TurnState
  <2>4. turn[u].conv # None => convs'[turn[u].conv] = convs[turn[u].conv]
    BY <2>1, <2>2, <2>3, ChatAssumption DEF OwnConversation
  <2> QED
    BY <2>1, <2>4 DEF OwnConversation
<1> QED
  BY <1>1, <1>2 DEF OwnConversation

-----------------------------------------------------------------------------
(* The invariant is inductive.                                              *)

LEMMA InitInv == Init => IInv
<1> SUFFICES ASSUME Init PROVE IInv
  OBVIOUS
<1>1. TurnsPlaced
  BY IdlePlaced, IdleTyped DEF Init, TurnsPlaced
<1>2. StoresTyped
  BY FS_EmptySet DEF Init, StoresTyped
<1>3. AllOwned
  BY IdleTyped DEF Init, AllOwned, CacheOwned, OwnConversation
<1>4. AllRecordedSoFar
  BY IdleTyped DEF Init, AllRecordedSoFar, Recorded, Asked, Opened, Outer, TurnPcs
<1> QED
  BY <1>1, <1>2, <1>3, <1>4 DEF IInv

LEMMA OpenInv ==
  ASSUME IInv, NEW t \in Turns, OpenStep(t)
  PROVE  IInv'
<1>1. /\ TurnsPlaced /\ StoresTyped /\ AllOwned /\ AllRecordedSoFar /\ Recorded(t)
      /\ OwnConversation(t) /\ CacheOwned
  BY DEF IInv, AllOwned, AllRecordedSoFar
<1>2. ASSUME NEW s, Moves(t, s), messages' = messages, audits' = audits, calls' = calls,
             points' = points, cache' = cache, convs' \in [Convs -> Workspaces \cup {None}],
             turn[t].pc # "done", s.pc \notin Asked,
             \A u \in Turns : OwnConversation(u)'
      PROVE  IInv'
  <2>1. TurnsPlaced' /\ turn'[t] = s /\ \A u \in Turns \ {t} : turn'[u] = turn[u]
    BY <1>1, <1>2, Movement
  <2>2. StoresTyped'
    BY <1>1, <1>2 DEF StoresTyped
  <2>3. AllOwned'
    BY <1>1, <1>2 DEF AllOwned, CacheOwned
  <2>4. AllRecordedSoFar'
    BY <1>1, <1>2, <2>1, OthersRecorded, EarlyRecorded DEF AllRecordedSoFar
  <2> QED
    BY <2>1, <2>2, <2>3, <2>4 DEF IInv
<1>3. "admitted" \notin Asked /\ "opened" \notin Asked /\ "loaded" \notin Asked /\ "refused" \notin Asked
  BY DEF Asked, Opened, Outer, TurnPcs
<1>4. ASSUME NEW u \in Users, NEW w \in Workspaces, NEW k \in Kinds, Admit(t, u, w, k)
      PROVE  IInv'
  <2>1. PICK s : Moves(t, s) /\ s.pc = "admitted" /\ s.conv = None
    BY <1>4, OpeningSteps
  <2>2. turn[t].pc # "done" /\ UNCHANGED <<convs, messages, audits, calls, points, cache>>
    BY <1>4 DEF Admit, stored
  <2>3. \A v \in Turns : OwnConversation(v)'
    BY <1>1, <2>1, <2>2, OwnedStep DEF StoresTyped
  <2> QED
    BY <1>1, <1>2, <1>3, <2>1, <2>2, <2>3 DEF StoresTyped
<1>5. ASSUME NEW c \in Convs, CreateConversation(t, c)
      PROVE  IInv'
  <2>1. PICK s : Moves(t, s) /\ s.pc = "opened" /\ s.conv = c /\ s.ws = turn[t].ws
    BY <1>5, OpeningSteps
  <2>2. /\ turn[t].pc = "admitted" /\ UNCHANGED <<messages, audits, calls, points, cache>>
        /\ convs[c] = None /\ convs' = [convs EXCEPT ![c] = turn[t].ws]
    BY <1>5 DEF CreateConversation
  <2>3. turn[t].ws \in Workspaces
    BY <1>1, <2>2 DEF TurnsPlaced, Placed, Outer
  <2>4. convs' \in [Convs -> Workspaces \cup {None}] /\ convs'[c] = turn[t].ws
    BY <1>1, <2>2, <2>3 DEF StoresTyped
  <2>5. \A v \in Turns : OwnConversation(v)'
    BY <1>1, <2>1, <2>2, <2>4, OwnedStep DEF StoresTyped
  <2> QED
    BY <1>2, <1>3, <2>1, <2>2, <2>4, <2>5
<1>6. ASSUME NEW c \in Convs, OpenConversation(t, c)
      PROVE  IInv'
  <2>1. PICK s : Moves(t, s) /\ (Opens(t, c, s) \/ Refuses(s))
    BY <1>6, OpeningSteps
  <2>2. turn[t].pc = "admitted" /\ UNCHANGED <<convs, messages, audits, calls, points, cache>>
    BY <1>6 DEF OpenConversation, stored
  <2>3. s.conv # None => convs[s.conv] = s.ws
    <3>1. CASE InWorkspace(c, turn[t].ws)
      BY <2>1, <3>1 DEF InWorkspace, Opens, Refuses
    <3>2. CASE ~InWorkspace(c, turn[t].ws)
      <4>1. turn' = [turn EXCEPT ![t] = [IdleTurn EXCEPT !.pc = "refused"]]
        BY <1>6, <3>2 DEF OpenConversation, Becomes
      <4>2. turn'[t].conv = None
        BY <1>1, <4>1, IdleTyped DEF TurnsPlaced, TurnState
      <4> QED
        BY <1>1, <2>1, <4>2, Movement
    <3> QED
      BY <3>1, <3>2
  <2>4. \A v \in Turns : OwnConversation(v)'
    BY <1>1, <2>1, <2>2, <2>3, OwnedStep DEF StoresTyped
  <2> QED
    BY <1>1, <1>2, <1>3, <2>1, <2>2, <2>4 DEF StoresTyped, Opens, Refuses
<1>7. CASE LoadHistory(t)
  <2>1. PICK s : Stays(t, s) /\ s.pc = "loaded"
    BY <1>7, OpeningSteps
  <2>2. turn[t].pc = "opened" /\ UNCHANGED <<convs, messages, audits, calls, points, cache>>
    BY <1>7 DEF LoadHistory, stored
  <2>3. Moves(t, s) /\ (s.conv # None => convs[s.conv] = s.ws)
    BY <1>1, <2>1 DEF Stays, OwnConversation
  <2>4. \A v \in Turns : OwnConversation(v)'
    BY <1>1, <2>2, <2>3, OwnedStep DEF StoresTyped
  <2> QED
    BY <1>1, <1>2, <1>3, <2>1, <2>2, <2>3, <2>4 DEF StoresTyped
<1>8. CASE AppendQuestion(t)
  <2>1. PICK s : Stays(t, s) /\ s.pc = "asked"
    BY <1>8, OpeningSteps
  <2>2. /\ turn[t].pc = "loaded" /\ UNCHANGED <<convs, audits, calls, points, cache>>
        /\ messages' = messages \cup {Message(t, "user")}
    BY <1>8 DEF AppendQuestion
  <2>3. Moves(t, s) /\ (s.conv # None => convs[s.conv] = s.ws) /\ s.conv = turn[t].conv
    BY <1>1, <2>1 DEF Stays, OwnConversation
  <2>4. AllOwned'
    BY <1>1, <2>2, <2>3, OwnedStep DEF StoresTyped, AllOwned, CacheOwned
  <2>5. TurnsPlaced' /\ turn'[t] = s /\ \A u \in Turns \ {t} : turn'[u] = turn[u]
    BY <1>1, <2>3, Movement
  <2>6. Message(t, "user") \in MessageRow
    BY <1>1, <2>2 DEF TurnsPlaced, Placed, Opened, Outer, TurnPcs, Message, MessageRow
  <2>7. StoresTyped'
    BY <1>1, <2>2, <2>6, FS_AddElement DEF StoresTyped
  <2>8. s.pc \in Midway
    BY <2>1 DEF Midway, Asked, Opened, Outer, TurnPcs
  <2>9. Recorded(t)'
    BY <1>1, <2>2, <2>3, <2>5, <2>8, MidwayRecorded
  <2>10. AllRecordedSoFar'
    BY <1>1, <2>2, <2>5, <2>9, OthersRecorded DEF AllRecordedSoFar
  <2> QED
    BY <2>4, <2>5, <2>7, <2>10 DEF IInv
<1> QED
  BY <1>4, <1>5, <1>6, <1>7, <1>8 DEF OpenStep

LEMMA GraphInv ==
  ASSUME IInv, NEW t \in Turns, GraphStep(t)
  PROVE  IInv'
<1>1. /\ TurnsPlaced /\ StoresTyped /\ AllOwned /\ AllRecordedSoFar /\ Recorded(t)
      /\ OwnConversation(t) /\ CacheOwned
  BY DEF IInv, AllOwned, AllRecordedSoFar
<1>2. PICK s : Stays(t, s) /\ s.pc \in Midway
  BY GraphSteps
<1>3. turn[t].pc \in Asked /\ turn[t].pc # "done"
  BY GraphSteps DEF Midway
<1>4. UNCHANGED <<convs, messages, audits, calls, points>>
  BY DEF GraphStep, Security, Planner, Memory, WorkflowStatus, AnalyticsStatus,
         NotificationStatus, CacheHit, Search, SearchFails, StoreInCache, Synthesize, stored
<1>5. Moves(t, s) /\ s.conv = turn[t].conv /\ (s.conv # None => convs[s.conv] = s.ws)
  BY <1>1, <1>2 DEF Stays, OwnConversation
<1>6. TurnsPlaced' /\ turn'[t] = s /\ \A u \in Turns \ {t} : turn'[u] = turn[u]
  BY <1>1, <1>5, Movement
<1>7. cache' \subseteq CacheEntry /\ CacheOwned'
  <2>1. CASE UNCHANGED cache
    BY <1>1, <2>1 DEF StoresTyped, CacheOwned
  <2>2. CASE StoreInCache(t)
    <3> DEFINE e == [key |-> CacheKey(t), docs |-> turn[t].found]
    <3>1. cache' \subseteq cache \cup {e}
      BY <2>2 DEF StoreInCache
    <3>2. /\ turn[t].pc = "found" /\ Placed(turn[t]) /\ turn[t].ws \in Workspaces
          /\ turn[t].query \in Queries /\ turn[t].found \in SUBSET Docs
      BY <1>1, <2>2 DEF StoreInCache, TurnsPlaced, Placed, Outer, Searching, TurnState
    <3>3. e \in CacheEntry
      BY <3>2 DEF CacheEntry, CacheKey
    <3>4. e.key[1] = turn[t].ws /\ e.docs = turn[t].found
      BY DEF CacheKey
    <3>5. \A d \in e.docs : DocWs[d] = e.key[1]
      BY <3>2, <3>4 DEF Placed
    <3> HIDE DEF e
    <3> QED
      BY <1>1, <3>1, <3>3, <3>5 DEF StoresTyped, CacheOwned
  <2> QED
    BY <2>1, <2>2 DEF GraphStep, Security, Planner, Memory, WorkflowStatus, AnalyticsStatus,
           NotificationStatus, CacheHit, Search, SearchFails, Synthesize
<1>8. StoresTyped'
  BY <1>1, <1>4, <1>7 DEF StoresTyped
<1>9. AllOwned'
  BY <1>1, <1>4, <1>5, <1>7, OwnedStep DEF AllOwned, StoresTyped
<1>10. Recorded(t)'
  BY <1>1, <1>2, <1>3, <1>4, <1>5, <1>6, MidwayRecorded
<1>11. AllRecordedSoFar'
  BY <1>1, <1>4, <1>6, <1>10, OthersRecorded DEF AllRecordedSoFar
<1> QED
  BY <1>6, <1>8, <1>9, <1>11 DEF IInv

LEMMA RecordInv ==
  ASSUME IInv, NEW t \in Turns, RecordStep(t) \/ CutShort(t)
  PROVE  IInv'
<1>1. /\ TurnsPlaced /\ StoresTyped /\ AllOwned /\ AllRecordedSoFar /\ Recorded(t)
      /\ OwnConversation(t) /\ CacheOwned /\ Placed(turn[t])
  BY DEF IInv, AllOwned, AllRecordedSoFar, TurnsPlaced
<1>2. ASSUME NEW s, Moves(t, s), s.conv = None \/ (s.conv = turn[t].conv /\ s.ws = turn[t].ws),
             convs' = convs, points' = points, cache' = cache, audits' = audits,
             messages \subseteq messages', messages' \subseteq MessageRow, IsFiniteSet(messages'),
             calls' \ {t} = calls \ {t}, Recorded(t)'
      PROVE  IInv'
  <2>1. TurnsPlaced' /\ turn'[t] = s /\ \A u \in Turns \ {t} : turn'[u] = turn[u]
    BY <1>1, <1>2, Movement
  <2>2. StoresTyped'
    BY <1>1, <1>2 DEF StoresTyped
  <2>3. s.conv # None => convs'[s.conv] = s.ws
    BY <1>1, <1>2 DEF OwnConversation
  <2>4. AllOwned'
    BY <1>1, <1>2, <2>3, OwnedStep DEF AllOwned, CacheOwned, StoresTyped
  <2>5. AllRecordedSoFar'
    BY <1>1, <1>2, <2>1, OthersRecorded DEF AllRecordedSoFar
  <2> QED
    BY <2>1, <2>2, <2>4, <2>5 DEF IInv
<1>3. ASSUME AppendAnswer(t) PROVE IInv'
  <2> DEFINE s == AsClosed(turn[t], "answered", turn[t].sources)
  <2>1. Stays(t, s) /\ s.pc = "answered"
    BY <1>3, EndingSteps
  <2> HIDE DEF s
  <2>2. /\ turn[t].pc = "ended" /\ UNCHANGED <<convs, audits, calls, points, cache>>
        /\ messages' = messages \cup {Message(t, "assistant")}
    BY <1>3 DEF AppendAnswer
  <2>3. Message(t, "assistant") \in MessageRow
    BY <1>1, <2>2 DEF Placed, Opened, Outer, TurnPcs, Message, MessageRow
  <2>4. Moves(t, s) /\ s.conv = turn[t].conv /\ s.ws = turn[t].ws /\ turn'[t] = s
    BY <1>1, <2>1, Movement DEF Stays
  <2>5. \A role : Message(t, role)' = Message(t, role)
    BY <2>4 DEF Message
  <2>6. t \notin calls /\ Message(t, "user") \in messages
    BY <1>1, <2>2 DEF Recorded, Asked, Opened, Outer, TurnPcs
  <2>7. Recorded(t)'
    BY <2>1, <2>2, <2>4, <2>5, <2>6 DEF Recorded
  <2> QED
    BY <1>1, <1>2, <2>2, <2>3, <2>4, <2>7, FS_AddElement DEF StoresTyped
<1>4. ASSUME StreamEnds(t) PROVE IInv'
  <2> DEFINE s == AsClosed(turn[t], "done", turn[t].sources)
  <2>1. Stays(t, s) /\ s.pc = "done" /\ s.kind # "sync" /\ s.answer # "text"
    BY <1>4, EndingSteps
  <2> HIDE DEF s
  <2>2. turn[t].pc = "ended" /\ UNCHANGED <<convs, messages, audits, calls, points, cache>>
    BY <1>4 DEF StreamEnds, stored
  <2>3. Moves(t, s) /\ s.conv = turn[t].conv /\ s.ws = turn[t].ws /\ turn'[t] = s
    BY <1>1, <2>1, Movement DEF Stays
  <2>4. Message(t, "user")' = Message(t, "user")
    BY <2>3 DEF Message
  <2>5. t \notin calls /\ Message(t, "user") \in messages
    BY <1>1, <2>2 DEF Recorded, Asked, Opened, Outer, TurnPcs
  <2>6. Recorded(t)'
    BY <2>1, <2>2, <2>3, <2>4, <2>5 DEF Recorded
  <2> QED
    BY <1>1, <1>2, <2>2, <2>3, <2>6 DEF StoresTyped
<1>5. ASSUME WriteAiCallLog(t) PROVE IInv'
  <2> DEFINE s == AsClosed(turn[t], "done", {})
  <2>1. Stays(t, s) /\ s.pc = "done" /\ s.flags = turn[t].flags
    BY <1>5, EndingSteps
  <2> HIDE DEF s
  <2>2. /\ turn[t].pc = "answered" /\ UNCHANGED <<convs, messages, audits, points, cache>>
        /\ turn[t].flags \subseteq Audited(t) /\ calls' = calls \cup {t}
    BY <1>5 DEF WriteAiCallLog, AllRecorded
  <2>3. Moves(t, s) /\ s.conv = turn[t].conv /\ s.ws = turn[t].ws /\ turn'[t] = s
    BY <1>1, <2>1, Movement DEF Stays
  <2>4. \A role : Message(t, role)' = Message(t, role)
    BY <2>3 DEF Message
  <2>5. {Message(t, "user"), Message(t, "assistant")} \subseteq messages
    BY <1>1, <2>2 DEF Recorded, Asked, Opened, Outer, TurnPcs
  <2>6. Audited(t)' = Audited(t)
    BY <2>2 DEF Audited
  <2>7. Recorded(t)'
    BY <2>1, <2>2, <2>3, <2>4, <2>5, <2>6 DEF Recorded
  <2>8. calls' \ {t} = calls \ {t}
    BY <2>2
  <2> QED
    BY <1>1, <1>2, <2>2, <2>3, <2>7, <2>8 DEF StoresTyped
<1>6. ASSUME CutShort(t) PROVE IInv'
  <2> DEFINE s == [IdleTurn EXCEPT !.pc = "cut"]
  <2>1. Moves(t, s) /\ s.pc = "cut" /\ s.conv = None
    BY <1>6, EndingSteps
  <2> HIDE DEF s
  <2>2. turn[t].pc # "done" /\ UNCHANGED <<convs, messages, audits, calls, points, cache>>
    BY <1>6 DEF CutShort, stored
  <2>3. turn'[t] = s
    BY <1>1, <2>1, Movement
  <2>4. turn'[t].pc \notin Asked
    BY <2>1, <2>3 DEF Asked, Opened, Outer
  <2>5. Recorded(t)'
    BY <1>1, <2>2, <2>4, EarlyRecorded
  <2>6. messages' \subseteq MessageRow /\ IsFiniteSet(messages') /\ messages \subseteq messages'
    BY <1>1, <2>2 DEF StoresTyped
  <2>7. calls' \ {t} = calls \ {t}
    BY <2>2
  <2> QED
    BY <1>2, <2>1, <2>2, <2>5, <2>6, <2>7
<1>7. ASSUME NEW f \in Flags, RecordGuardrailAudit(t, f) PROVE IInv'
  <2>1. /\ UNCHANGED <<turn, convs, messages, calls, points, cache>>
        /\ audits' = audits \cup {[turn |-> t, flag |-> f]}
    BY <1>7 DEF RecordGuardrailAudit
  <2>2. StoresTyped'
    BY <1>1, <2>1 DEF StoresTyped
  <2>3. TurnsPlaced' /\ AllOwned'
    BY <1>1, <2>1 DEF TurnsPlaced, AllOwned, CacheOwned, OwnConversation
  <2>4. \A u \in Turns : Audited(u) \subseteq Audited(u)'
    BY <2>1 DEF Audited
  <2>5. AllRecordedSoFar'
    BY <1>1, <2>1, <2>4 DEF AllRecordedSoFar, Recorded, Message
  <2> QED
    BY <2>2, <2>3, <2>5 DEF IInv
<1> QED
  BY <1>3, <1>4, <1>5, <1>6, <1>7 DEF RecordStep

LEMMA StepInv == IInv /\ [Next]_vars => IInv'
<1> SUFFICES ASSUME IInv, [Next]_vars PROVE IInv'
  OBVIOUS
<1>1. CASE CacheExpires
  <2>1. cache' \subseteq cache /\ UNCHANGED <<turn, convs, messages, audits, calls, points>>
    BY <1>1 DEF CacheExpires, stored
  <2>2. TurnsPlaced' /\ StoresTyped' /\ AllOwned'
    BY <2>1 DEF IInv, TurnsPlaced, StoresTyped, AllOwned, CacheOwned, OwnConversation
  <2>3. AllRecordedSoFar'
    BY <2>1 DEF IInv, AllRecordedSoFar, Recorded, Message, Audited
  <2> QED
    BY <2>2, <2>3 DEF IInv
<1>2. ASSUME NEW d \in Docs, IndexDocument(d) PROVE IInv'
  <2>1. points' \subseteq Docs /\ UNCHANGED <<turn, convs, messages, audits, calls, cache>>
    BY <1>2 DEF IndexDocument, stored, IInv, StoresTyped
  <2>2. TurnsPlaced' /\ StoresTyped' /\ AllOwned'
    BY <2>1 DEF IInv, TurnsPlaced, StoresTyped, AllOwned, CacheOwned, OwnConversation
  <2>3. AllRecordedSoFar'
    BY <2>1 DEF IInv, AllRecordedSoFar, Recorded, Message, Audited
  <2> QED
    BY <2>2, <2>3 DEF IInv
<1>3. CASE UNCHANGED vars
  <2>1. TurnsPlaced' /\ StoresTyped' /\ AllOwned'
    BY <1>3 DEF vars, IInv, TurnsPlaced, StoresTyped, AllOwned, CacheOwned, OwnConversation
  <2>2. AllRecordedSoFar'
    BY <1>3 DEF vars, IInv, AllRecordedSoFar, Recorded, Message, Audited
  <2> QED
    BY <2>1, <2>2 DEF IInv
<1> QED
  BY <1>1, <1>2, <1>3, OpenInv, GraphInv, RecordInv DEF Next

(* The order of what a turn stores. *)
LEMMA OrderInit == ASSUME Init PROVE RecordedInOrder
BY DEF Init, RecordedInOrder

LEMMA OrderStep ==
  ASSUME IInv, RecordedInOrder, [Next]_vars
  PROVE  RecordedInOrder'
<1>1. ASSUME UNCHANGED <<messages, audits>> PROVE RecordedInOrder'
  BY <1>1 DEF RecordedInOrder
<1>2. ASSUME NEW t \in Turns, Recorded(t) PROVE [Message(t, "assistant") EXCEPT !.role = "user"] = Message(t, "user")
  BY DEF Message
<1>3. \A t \in Turns : Recorded(t)
  BY DEF IInv, AllRecordedSoFar
<1>4. ASSUME NEW t \in Turns, AppendQuestion(t) PROVE RecordedInOrder'
  <2>1. messages' = messages \cup {Message(t, "user")} /\ audits' = audits
    BY <1>4 DEF AppendQuestion
  <2>2. Message(t, "user").role # "assistant"
    BY DEF Message
  <2> QED
    BY <2>1, <2>2 DEF RecordedInOrder
<1>5. ASSUME NEW t \in Turns, AppendAnswer(t) PROVE RecordedInOrder'
  <2>1. messages' = messages \cup {Message(t, "assistant")} /\ audits' = audits /\ turn[t].pc = "ended"
    BY <1>5 DEF AppendAnswer
  <2>2. Message(t, "user") \in messages
    BY <1>3, <2>1 DEF Recorded, Asked, Opened, Outer, TurnPcs
  <2> QED
    BY <1>2, <1>3, <2>1, <2>2 DEF RecordedInOrder
<1>6. ASSUME NEW t \in Turns, NEW f \in Flags, RecordGuardrailAudit(t, f) PROVE RecordedInOrder'
  <2>1. messages' = messages /\ audits' = audits \cup {[turn |-> t, flag |-> f]} /\ turn[t].pc = "answered"
    BY <1>6 DEF RecordGuardrailAudit
  <2>2. Message(t, "assistant") \in messages
    BY <1>3, <2>1 DEF Recorded
  <2>3. Message(t, "assistant").turn = t /\ Message(t, "assistant").role = "assistant"
    BY DEF Message
  <2> QED
    BY <2>1, <2>2, <2>3 DEF RecordedInOrder
<1>7. ASSUME NEW t \in Turns, OpenStep(t) PROVE RecordedInOrder'
  <2>1. AppendQuestion(t) \/ UNCHANGED <<messages, audits>>
    BY <1>7 DEF OpenStep, Admit, CreateConversation, OpenConversation, LoadHistory, stored
  <2> QED
    BY <1>1, <1>4, <2>1
<1>8. ASSUME NEW t \in Turns, GraphStep(t) PROVE UNCHANGED <<messages, audits>>
  BY <1>8 DEF GraphStep, Security, Planner, Memory, WorkflowStatus, AnalyticsStatus, NotificationStatus,
    CacheHit, Search, SearchFails, StoreInCache, Synthesize, stored
<1>9. ASSUME NEW t \in Turns, StreamEnds(t) \/ WriteAiCallLog(t) \/ CutShort(t) PROVE UNCHANGED <<messages, audits>>
  BY <1>9 DEF StreamEnds, WriteAiCallLog, CutShort, stored
<1>10. ASSUME CacheExpires \/ (\E d \in Docs : IndexDocument(d)) \/ UNCHANGED vars PROVE UNCHANGED <<messages, audits>>
  BY <1>10 DEF CacheExpires, IndexDocument, stored, vars
<1> QED
  BY <1>1, <1>5, <1>6, <1>7, <1>8, <1>9, <1>10 DEF Next, RecordStep

-----------------------------------------------------------------------------
(* Every variable of a reachable state has its type, and a research turn ends
   after MaxResearchPasses searches whatever the providers propose. *)
THEOREM TypeCorrect == Spec => []TypeOK
<1>1. IInv => TypeOK
  BY DEF IInv, TurnsPlaced, Placed, StoresTyped, MessageRow, CacheEntry, TypeOK
<1> QED
  BY <1>1, InitInv, StepInv, PTL DEF Spec

(* No turn reads or names a document of another workspace, and none stays in a
   conversation of another one, whatever shares a collection or the cache. *)
THEOREM TurnsAreIsolated == Spec => []Isolated
<1>1. IInv => Isolated
  BY DEF IInv, TurnsPlaced, Placed, AllOwned, Isolated, OwnDocuments
<1> QED
  BY <1>1, InitInv, StepInv, PTL DEF Spec

(* A call log stands beside the whole turn, a turn that runs to its end with a
   text is on record, and what a turn has stored is a beginning of its record,
   however the turns interleave and wherever one is cut. *)
THEOREM AnswersAreOnRecord == Spec => []OnRecord
<1>1. IInv => LoggedInFull /\ RepliesAreRecorded
  <2> SUFFICES ASSUME IInv PROVE LoggedInFull /\ RepliesAreRecorded
    OBVIOUS
  <2>1. calls \subseteq Turns /\ \A t \in Turns : Recorded(t)
    BY DEF IInv, StoresTyped, AllRecordedSoFar
  <2>2. "done" \in Asked
    BY DEF Asked, Opened, Outer, TurnPcs
  <2> QED
    BY <2>1, <2>2 DEF Recorded, LoggedInFull, RepliesAreRecorded
<1>2. Init => RecordedInOrder
  BY OrderInit
<1>3. IInv /\ RecordedInOrder /\ [Next]_vars => RecordedInOrder'
  BY OrderStep
<1> QED
  BY <1>1, <1>2, <1>3, InitInv, StepInv, PTL DEF Spec, OnRecord
=============================================================================
